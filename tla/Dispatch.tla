------------------------------ MODULE Dispatch -------------------------------
(***************************************************************************)
(* The dispatch wrapper of lib/ShortSeqSpecializePass.cpp: the builder     *)
(* emits it, block by block, and callers run it.                           *)
(*                                                                         *)
(* The wrapper is a sequence of blocks, a block a sequence of operations;  *)
(* block 1 is the function's, every scf.if brings a then and an else       *)
(* block.  An SSA value is named by the block and the position of the      *)
(* operation that defines it, an argument by block 0 and its number.  Only *)
(* the widths of the sequence arguments and the origin of a tensor are     *)
(* kept of the data.                                                       *)
(***************************************************************************)
EXTENDS TensorTypes

CONSTANTS
  EntryKinds,   \* contracts of the entry
  LengthLists,  \* normalized length lists: ascending sequences
  Widths        \* widths a caller may pass

ASSUME EntryKindsAssumption  == EntryKinds \subseteq Kinds
ASSUME LengthListsAssumption ==
  \A list \in LengthLists :
    /\ list \in Seq(Nat \ {0}) /\ list # <<>>
    /\ \A i, j \in DOMAIN list : i < j => list[i] < list[j]
ASSUME WidthsAssumption == Widths \subseteq Nat

VARIABLES
  phase,    \* what is being emitted, "ready" for calls, or "run"
  kind,     \* the entry's contract
  lengths,  \* the normalized lengths
  statics,  \* staticFuncs: the length each clone was refined to
  blocks,   \* the wrapper's operations
  ip,       \* the builder's insertion point: the end of a block
  frames,   \* emitDispatchChain's activations: where each put its scf.if
  widths,   \* the call in progress: the widths of the sequence arguments
  pc,       \* the call: block and position of the next operation
  env,      \* the call: the values computed so far
  callee,   \* the call: the function it has reached
  operands  \* the call: what that function was given

emitted  == <<kind, lengths, statics, blocks, ip, frames>>
runState == <<widths, pc, env, callee, operands>>
vars     == <<phase, emitted, runState>>

R == INSTANCE Routing WITH
       arguments <- Contract(kind).sequenceArguments,
       lengths   <- {lengths[i] : i \in DOMAIN lengths}

Generic   == R!Generic
Static(n) == R!Static(n)
NoCall    == R!NoCall
NoCallee  == R!NoCallee

NumArgs   == Cardinality(Contract(kind).sequenceArguments)
NumInputs == CASE kind = "StageA" -> 5 [] kind = "StageB" -> 11
               [] kind = "E5" -> 3

\* A clone's result type is the wrapper's own (E5), or must be cast back.
ResultIsStatic == kind = "E5"

-----------------------------------------------------------------------------
\* Operations.
Val(block, position) == <<block, position>>
Arg(a)               == <<0, a>>

ConstantOp(n)      == [name |-> "arith.constant", value |-> n]
DimOp(src, axis)   == [name |-> "tensor.dim", src |-> src, axis |-> axis]
CmpOp(lhs, rhs)    == [name |-> "arith.cmpi", lhs |-> lhs, rhs |-> rhs]
\* Mistake: the conjunction keeps only what the earlier tests said.
AndOpOfEarlier(lhs, rhs) == [name |-> "arith.andi", lhs |-> lhs, rhs |-> lhs]

AndOp(lhs, rhs)    == [name |-> "arith.andi", lhs |-> lhs, rhs |-> rhs]
IfOp(cond, t, e)   == [name |-> "scf.if", cond |-> cond, then |-> t,
                       else |-> e]
CastOp(src, width) == [name |-> "tensor.cast", src |-> src, width |-> width]
CallOp(f, args)    == [name |-> "func.call", callee |-> f, operands |-> args]
YieldOp(value)     == [name |-> "scf.yield", value |-> value]
ReturnOp(value)    == [name |-> "func.return", value |-> value]

Terminators == {"scf.yield", "func.return"}

Last(block) == Val(block, Len(blocks[block]))

-----------------------------------------------------------------------------
\* Emission.  emitSpecializations clones the entry once for each length.
EmitClone ==
  /\ phase = "clones"
  /\ Len(statics) < Len(lengths)
  /\ statics' = Append(statics, lengths[Len(statics) + 1])
  /\ UNCHANGED <<phase, kind, lengths, blocks, ip, frames, runState>>

\* The sequence axis and the width of every sequence argument.
emitDispatchWrapper ==
  /\ phase = "clones"
  /\ Len(statics) = Len(lengths)
  /\ blocks' = << <<ConstantOp(kSequenceAxis)>>
                  \o [a \in 1..NumArgs |-> DimOp(Arg(a), Val(1, 1))] >>
  /\ ip' = 1
  /\ phase' = "chain"
  /\ UNCHANGED <<kind, lengths, statics, frames, runState>>

SequenceLength(a) == Val(1, 1 + a)

\* The tests of one level, starting after position base of block b: the
\* length, then a comparison for each argument, anded to the ones before.
Tests(b, base, length) ==
  [j \in 1..2 * NumArgs |->
     CASE j = 1 -> ConstantOp(length)
       [] j = 2 -> CmpOp(SequenceLength(1), Val(b, base + 1))
       [] j > 2 /\ j % 2 = 1 ->
            CmpOp(SequenceLength((j + 1) \div 2), Val(b, base + 1))
       [] j > 2 /\ j % 2 = 0 ->
            AndOp(Val(b, base + j - 2), Val(b, base + j - 1))]

\* Mistake: only the first sequence argument is cast.
emitStaticCallFirstCast(b, length) ==
  [a \in 1..NumArgs |-> CastOp(Arg(1), length)]
  \o << CallOp(Static(length),
               [i \in 1..NumInputs |-> IF i = 1 THEN Val(b, 1) ELSE Arg(i)]) >>
  \o IF ResultIsStatic THEN <<>> ELSE <<CastOp(Val(b, NumArgs + 1), Dyn)>>

\* Mistake: the result is yielded with the clone's type.
emitStaticCallUncast(b, length) ==
  [a \in 1..NumArgs |-> CastOp(Arg(a), length)]
  \o << CallOp(Static(length),
               [i \in 1..NumInputs |-> IF i <= NumArgs THEN Val(b, i)
                                                       ELSE Arg(i)]) >>

\* emitStaticCall into block b: the sequence arguments cast to the clone's
\* input types, the others as they are.
emitStaticCall(b, length) ==
  [a \in 1..NumArgs |-> CastOp(Arg(a), length)]
  \o << CallOp(Static(length),
               [i \in 1..NumInputs |-> IF i <= NumArgs THEN Val(b, i)
                                                       ELSE Arg(i)]) >>
  \o IF ResultIsStatic THEN <<>> ELSE <<CastOp(Val(b, NumArgs + 1), Dyn)>>

\* One activation of emitDispatchChain, up to its recursive call.
emitDispatchChain ==
  LET index == Len(frames) + 1
      then  == Len(blocks) + 1
      else  == Len(blocks) + 2
      base  == Len(blocks[ip])
      taken == emitStaticCall(then, statics[index])
  IN /\ phase = "chain"
     /\ index <= Len(statics)
     /\ blocks' =
          [blocks EXCEPT ![ip] = @ \o Tests(ip, base, lengths[index])
             \o <<IfOp(Val(ip, base + 2 * NumArgs), then, else)>>]
          \o << taken \o <<YieldOp(Val(then, Len(taken)))>>, <<>> >>
     /\ frames' = Append(frames, ip)
     /\ ip' = else
     /\ UNCHANGED <<phase, kind, lengths, statics, runState>>

\* Mistake: the chain may end before the last clone.
EmitGenericCallEarly ==
  /\ phase = "chain"
  /\ Len(frames) > 0
  /\ blocks' = [blocks EXCEPT ![ip] =
                  << CallOp(Generic, [i \in 1..NumInputs |-> Arg(i)]),
                     YieldOp(Val(ip, 1)) >>]
  /\ phase' = "unwind"
  /\ UNCHANGED <<kind, lengths, statics, ip, frames, runState>>

\* The last activation's else region calls the generic function.
EmitGenericCall ==
  /\ phase = "chain"
  /\ Len(frames) = Len(statics)
  /\ blocks' = [blocks EXCEPT ![ip] =
                  << CallOp(Generic, [i \in 1..NumInputs |-> Arg(i)]),
                     YieldOp(Val(ip, 1)) >>]
  /\ phase' = "unwind"
  /\ UNCHANGED <<kind, lengths, statics, ip, frames, runState>>

\* Mistake: the insertion point stays in the innermost else region.
ReturnWithoutMoving ==
  LET depth  == Len(frames)
      result == Last(frames[depth])
  IN /\ phase = "unwind"
     /\ frames' = SubSeq(frames, 1, depth - 1)
     /\ blocks' = [blocks EXCEPT ![ip] =
                     Append(@, IF depth > 1 THEN YieldOp(result)
                                            ELSE ReturnOp(result))]
     /\ phase' = IF depth > 1 THEN "unwind" ELSE "ready"
     /\ UNCHANGED <<kind, lengths, statics, ip, runState>>

\* An activation sets the insertion point after its scf.if and returns the
\* result, which its caller yields, or the wrapper returns.
ReturnFromChain ==
  LET depth  == Len(frames)
      after  == frames[depth]
      result == Last(after)
  IN /\ phase = "unwind"
     /\ ip' = after
     /\ frames' = SubSeq(frames, 1, depth - 1)
     /\ blocks' = [blocks EXCEPT ![after] =
                     Append(@, IF depth > 1 THEN YieldOp(result)
                                            ELSE ReturnOp(result))]
     /\ phase' = IF depth > 1 THEN "unwind" ELSE "ready"
     /\ UNCHANGED <<kind, lengths, statics, runState>>

Emit == \/ EmitClone \/ emitDispatchWrapper \/ emitDispatchChain
        \/ EmitGenericCall \/ ReturnFromChain

-----------------------------------------------------------------------------
\* A call of the wrapper.
Current == blocks[pc[1]][pc[2]]

\* An argument keeps its dynamic type until it is cast.
Read(v) == IF v[1] = 0 THEN [from |-> v[2], width |-> Dyn] ELSE env[v]

Define(v, x) == env' = [u \in DOMAIN env \cup {v} |-> IF u = v THEN x
                                                              ELSE env[u]]

Forward == pc' = Val(pc[1], pc[2] + 1)

Invoke ==
  /\ phase = "ready"
  /\ widths' \in [1..NumArgs -> Widths]
  /\ pc' = Val(1, 1)
  /\ env' = <<>>
  /\ phase' = "run"
  /\ UNCHANGED <<emitted, callee, operands>>

Constant == /\ phase = "run"
            /\ Current.name = "arith.constant"
            /\ Define(pc, Current.value)
            /\ Forward
            /\ UNCHANGED <<phase, emitted, widths, callee, operands>>

Dim == /\ phase = "run"
       /\ Current.name = "tensor.dim"
       /\ Define(pc, IF Read(Current.axis) = kSequenceAxis
                       THEN widths[Read(Current.src).from] ELSE kBatch)
       /\ Forward
       /\ UNCHANGED <<phase, emitted, widths, callee, operands>>

Compare == /\ phase = "run"
           /\ Current.name = "arith.cmpi"
           /\ Define(pc, Read(Current.lhs) = Read(Current.rhs))
           /\ Forward
           /\ UNCHANGED <<phase, emitted, widths, callee, operands>>

And == /\ phase = "run"
       /\ Current.name = "arith.andi"
       /\ Define(pc, Read(Current.lhs) /\ Read(Current.rhs))
       /\ Forward
       /\ UNCHANGED <<phase, emitted, widths, callee, operands>>

Branch == /\ phase = "run"
          /\ Current.name = "scf.if"
          /\ pc' = Val(IF Read(Current.cond) THEN Current.then
                                             ELSE Current.else, 1)
          /\ UNCHANGED <<phase, emitted, widths, env, callee, operands>>

Cast == /\ phase = "run"
        /\ Current.name = "tensor.cast"
        /\ Define(pc, [Read(Current.src) EXCEPT !.width = Current.width])
        /\ Forward
        /\ UNCHANGED <<phase, emitted, widths, callee, operands>>

Call == /\ phase = "run"
        /\ Current.name = "func.call"
        /\ callee' = Current.callee
        /\ operands' = [i \in DOMAIN Current.operands |->
                          Read(Current.operands[i])]
        /\ Define(pc, [from |-> 0,
                       width |-> IF ResultIsStatic \/ Current.callee = Generic
                                   THEN Dyn ELSE Current.callee[2]])
        /\ Forward
        /\ UNCHANGED <<phase, emitted, widths>>

\* The value of a region becomes the result of its scf.if.
IsParent(v) == /\ blocks[v[1]][v[2]].name = "scf.if"
               /\ pc[1] \in {blocks[v[1]][v[2]].then, blocks[v[1]][v[2]].else}

Yield == /\ phase = "run"
         /\ Current.name = "scf.yield"
         /\ \E b \in DOMAIN blocks : \E p \in DOMAIN blocks[b] :
              /\ IsParent(Val(b, p))
              /\ Define(Val(b, p), Read(Current.value))
              /\ pc' = Val(b, p + 1)
         /\ UNCHANGED <<phase, emitted, widths, callee, operands>>

Return == /\ phase = "run"
          /\ Current.name = "func.return"
          /\ phase' = "ready"
          /\ widths' = NoCall
          /\ callee' = NoCallee
          /\ operands' = <<>>
          /\ env' = <<>>
          /\ pc' = Val(1, 1)
          /\ UNCHANGED emitted

Execute == \/ Constant \/ Dim \/ Compare \/ And \/ Branch \/ Cast \/ Call
           \/ Yield \/ Return

-----------------------------------------------------------------------------
Init == /\ phase = "clones"
        /\ kind \in EntryKinds
        /\ lengths \in LengthLists
        /\ statics = <<>>
        /\ blocks = <<>>
        /\ ip = 0
        /\ frames = <<>>
        /\ widths = NoCall
        /\ pc = Val(1, 1)
        /\ env = <<>>
        /\ callee = NoCallee
        /\ operands = <<>>

Next == Emit \/ Invoke \/ Execute

\* The pass and the program it compiles are sequential and never wait.
Fairness == WF_vars(Emit) /\ WF_vars(Execute)

Spec == Init /\ [][Next]_vars /\ Fairness

-----------------------------------------------------------------------------
Uses(op) ==
  CASE op.name = "arith.constant" -> {}
    [] op.name = "tensor.dim" -> {op.src, op.axis}
    [] op.name \in {"arith.cmpi", "arith.andi"} -> {op.lhs, op.rhs}
    [] op.name = "scf.if" -> {op.cond}
    [] op.name = "tensor.cast" -> {op.src}
    [] op.name = "func.call" -> {op.operands[i] : i \in DOMAIN op.operands}
    [] op.name \in Terminators -> {op.value}

\* The wrapper is valid IR however deep the recursion went.  Every block has one
\* terminator, its last operation, and only the function's own block returns;
\* on every path a run takes, an operand is an argument or has been computed.
WrapperVerifies ==
  /\ phase \in {"ready", "run"} =>
       \A b \in DOMAIN blocks :
         /\ blocks[b] # <<>>
         /\ \A p \in DOMAIN blocks[b] :
              blocks[b][p].name \in Terminators <=> p = Len(blocks[b])
         /\ blocks[b][Len(blocks[b])].name = "func.return" <=> b = 1
  /\ phase = "run" =>
       \A v \in Uses(Current) : v \in DOMAIN env \/ v[1] = 0

\* A cast to a static type only happens to an argument of that width.
CastsHold ==
  \A v \in DOMAIN env :
    /\ blocks[v[1]][v[2]].name = "tensor.cast"
    /\ env[v].from # 0
    => env[v].width = widths[env[v].from]

\* The function reached gets every argument in its place, the sequence
\* arguments with the type of its signature, whatever the contract.
InputsForwarded ==
  callee # NoCallee =>
    /\ DOMAIN operands = 1..NumInputs
    /\ \A i \in 1..NumInputs :
         operands[i] = [from |-> i,
                        width |-> IF callee # Generic /\ i <= NumArgs
                                    THEN callee[2] ELSE Dyn]

\* Both regions of every scf.if, and the wrapper, produce the wrapper's own
\* result type, from the function the call reached.
ResultsCastBack ==
  phase = "run" /\ Current.name \in Terminators =>
    Read(Current.value) = [from |-> 0, width |-> Dyn] /\ callee # NoCallee

\* The wrapper implements the routing it promises, and answers every call.
Routes == R!Spec

=============================================================================
