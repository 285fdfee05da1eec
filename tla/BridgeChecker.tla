---------------------------- MODULE BridgeChecker ----------------------------
(***************************************************************************)
(* scripts/check_e5_bridge.py judges the dispatch wrapper of an E5 module  *)
(* by its text, scripts/check_parameter_accounting.py that of the other    *)
(* contracts.  Dispatch emits the wrapper; somebody may edit it, as long   *)
(* as it stays valid IR; the checker accepts or rejects it; callers run    *)
(* what was accepted.                                                      *)
(*                                                                         *)
(* The text of a block is the sequence of its operations in print order,   *)
(* the blocks of an scf.if after its first line.  A regular expression is  *)
(* a predicate on one operation.                                           *)
(***************************************************************************)
EXTENDS Dispatch

SE == INSTANCE SequencesExt

CONSTANT MaxEdits  \* bound on the edits

ASSUME EditsAssumption == MaxEdits \in Nat

VARIABLES
  edits,   \* how many edits were made
  verdict  \* what the checker said

checkerVars == <<vars, edits, verdict>>

OpAt(v) == blocks[v[1]][v[2]]

\* The text of every block: its operations in print order, by their positions,
\* the blocks of an scf.if after its own line.
Text ==
  LET text[b \in DOMAIN blocks] ==
        SE!FlattenSeq([p \in DOMAIN blocks[b] |->
          IF blocks[b][p].name = "scf.if"
            THEN <<Val(b, p)>> \o text[blocks[b][p].then] \o text[blocks[b][p].else]
            ELSE <<Val(b, p)>>])
  IN text

-----------------------------------------------------------------------------
\* Edits that keep the IR valid: a value is replaced by one of its type that
\* dominates the use.  A value is seen by what comes after it in its block, and
\* by what the operations after it enclose.
Encloses(text, u, v) ==
  /\ OpAt(u).name = "scf.if"
  /\ v \in SE!ToSet(text[OpAt(u).then]) \cup SE!ToSet(text[OpAt(u).else])

Dominates(text, u, v) ==
  \E p \in DOMAIN blocks[u[1]] :
    /\ u[2] < p
    /\ Val(u[1], p) = v \/ Encloses(text, Val(u[1], p), v)

Visible(text, v, names) ==
  {u \in SE!ToSet(text[1]) : OpAt(u).name \in names /\ Dominates(text, u, v)}

\* The values of the wrapper's own result type.
Results(text, v) ==
  {u \in Visible(text, v, {"scf.if", "func.call", "tensor.cast"}) :
     CASE OpAt(u).name = "scf.if" -> TRUE
       [] OpAt(u).name = "func.call" ->
            ResultIsStatic \/ OpAt(u).callee = Generic
       [] OpAt(u).name = "tensor.cast" -> OpAt(u).width = Dyn}

\* The first two inputs of E5, and the first two weights of Stage B, are of
\* one type.
Swapped(args) ==
  LET i == IF kind = "E5" THEN 1 ELSE 2
  IN [args EXCEPT ![i] = args[i + 1], ![i + 1] = args[i]]

Variants(text, v) ==
  LET op         == OpAt(v)
      indices    == Visible(text, v, {"arith.constant", "tensor.dim"})
      conditions == Visible(text, v, {"arith.cmpi", "arith.andi"})
  IN CASE op.name = "arith.constant" ->
            {ConstantOp(n) : n \in {kSequenceAxis}
                                   \cup {lengths[i] : i \in DOMAIN lengths}}
       [] op.name = "tensor.dim" -> {DimOp(Arg(a), op.axis) : a \in 1..NumArgs}
       [] op.name = "arith.cmpi" ->
            {CmpOp(l, r) : l \in indices, r \in indices}
       [] op.name = "arith.andi" ->
            {AndOp(l, r) : l \in conditions, r \in conditions}
       [] op.name = "scf.if" ->
            {IfOp(c, op.then, op.else) : c \in conditions}
            \cup {IfOp(op.cond, op.else, op.then)}
       [] op.name = "tensor.cast" -> {op}
       [] op.name = "func.call" ->
            {CallOp(Generic, [i \in 1..NumInputs |-> Arg(i)]),
             CallOp(op.callee, Swapped(op.operands))}
       [] op.name = "scf.yield"   -> {YieldOp(u) : u \in Results(text, v)}
       [] op.name = "func.return" -> {ReturnOp(u) : u \in Results(text, v)}

Edit(new) == /\ new # blocks
             /\ blocks' = new
             /\ edits' = edits + 1
             /\ UNCHANGED <<phase, kind, lengths, statics, ip, frames,
                            runState, verdict>>

MayEdit == phase = "ready" /\ verdict = "none" /\ edits < MaxEdits

EditOp ==
  /\ MayEdit
  /\ LET text == Text
     IN \E v \in SE!ToSet(text[1]) : \E op \in Variants(text, v) :
          Edit([blocks EXCEPT ![v[1]][v[2]] = op])

\* A branch calls the clone for another length, with casts to its types.
EditBranch ==
  /\ MayEdit
  /\ \E v \in SE!ToSet(Text[1]), i \in DOMAIN lengths :
       /\ OpAt(v).name = "scf.if"
       /\ LET b     == OpAt(v).then
              taken == emitStaticCall(b, lengths[i])
          IN Edit([blocks EXCEPT ![b] =
                     taken \o <<YieldOp(Val(b, Len(taken)))>>])

-----------------------------------------------------------------------------
\* The checker.  one_match: the operation of a text that a pattern matches,
\* NoMatch (which no pattern built on it matches) if there is not just one.
NoMatch == <<>>

one_match(lines, Pattern(_)) ==
  LET matches == {v \in SE!ToSet(lines) : Pattern(OpAt(v))}
  IN IF Cardinality(matches) = 1 THEN CHOOSE v \in matches : TRUE ELSE NoMatch

Only(lines, op) == one_match(lines, LAMBDA other : other = op)

OnlyCall(lines) == one_match(lines, LAMBDA op : op.name = "func.call")

\* The callees of the func.call lines, in the order of the text.
Calls(lines) ==
  SE!FlattenSeq([i \in DOMAIN lines |->
    IF OpAt(lines[i]).name = "func.call" THEN <<OpAt(lines[i]).callee>> ELSE <<>>])

Dimension(text, a) ==
  one_match(text[1], LAMBDA op : op.name = "tensor.dim" /\ op.src = Arg(a))

DimensionsReadAxis(text) ==
  /\ \A a \in 1..NumArgs : Dimension(text, a) # NoMatch
  /\ \E axis \in SE!ToSet(text[1]) :
       /\ OpAt(axis) = ConstantOp(kSequenceAxis)
       /\ \A a \in 1..NumArgs : OpAt(Dimension(text, a)).axis = axis

\* Mistake: the equality of the third input is not asked for.
DispatchBranchOfTwo(text, lines, length) ==
  LET constant   == Only(lines, ConstantOp(length))
      comparison == [a \in 1..2 |->
                       Only(lines, CmpOp(Dimension(text, a), constant))]
      firstAnd   == Only(lines, AndOp(comparison[1], comparison[2]))
      guards     == {firstAnd} \cup {v \in SE!ToSet(lines) :
                      \E u \in SE!ToSet(lines) : OpAt(v) = AndOp(firstAnd, u)}
  IN one_match(lines, LAMBDA op : op.name = "scf.if" /\ op.cond \in guards)

\* The branch of a level: its constant, the three equalities, the two
\* conjunctions and the scf.if, each found by the ones before.
DispatchBranch(text, lines, length) ==
  LET constant   == Only(lines, ConstantOp(length))
      comparison == [a \in 1..3 |->
                       Only(lines, CmpOp(Dimension(text, a), constant))]
      firstAnd   == Only(lines, AndOp(comparison[1], comparison[2]))
      fullGuard  == Only(lines, AndOp(firstAnd, comparison[3]))
  IN one_match(lines, LAMBDA op : op.name = "scf.if" /\ op.cond = fullGuard)

\* The then region of a level calls the clone and yields its result.
StaticBranchOk(lines, length) ==
  /\ Calls(lines) = <<Static(length)>>
  /\ Only(lines, YieldOp(OnlyCall(lines))) # NoMatch

\* Mistake: whatever the fallback calls the generic function with.
FallbackOkOfAnyOperands(lines) ==
  /\ \A v \in SE!ToSet(lines) : OpAt(v).name # "scf.if"
  /\ Calls(lines) = <<Generic>>
  /\ Only(lines, YieldOp(OnlyCall(lines))) # NoMatch

\* The region behind the last level calls the generic function with the
\* original inputs and yields its result.
FallbackOk(lines) ==
  /\ \A v \in SE!ToSet(lines) : OpAt(v).name # "scf.if"
  /\ Calls(lines) = <<Generic>>
  /\ OpAt(OnlyCall(lines)).operands = [a \in 1..NumArgs |-> Arg(a)]
  /\ Only(lines, YieldOp(OnlyCall(lines))) # NoMatch

\* Level by level, the blocks that may be what remains: after a level it is the
\* else region of its scf.if.
LevelsOk(text) ==
  LET ok[i \in 1..Len(lengths) + 1] ==
        {b \in DOMAIN blocks :
           IF i > Len(lengths)
             THEN FallbackOk(text[b])
             ELSE LET branch == DispatchBranch(text, text[b], lengths[i])
                  IN /\ branch # NoMatch
                     /\ StaticBranchOk(text[OpAt(branch).then], lengths[i])
                     /\ OpAt(branch).else \in ok[i + 1]}
  IN 1 \in ok[1]

ReturnsOuterResult(text) ==
  Only(text[1], ReturnOp(DispatchBranch(text, text[1], lengths[1]))) # NoMatch

\* Mistake: the fallback call is not expected.
ExpectedCallsOfClones == [i \in DOMAIN lengths |-> Static(lengths[i])]

ExpectedCalls == [i \in DOMAIN lengths |-> Static(lengths[i])] \o <<Generic>>

WrapperOk(text) == /\ DimensionsReadAxis(text)
                   /\ Calls(text[1]) = ExpectedCalls
                   /\ LevelsOk(text)
                   /\ ReturnsOuterResult(text)

check_dispatch_wrapper ==
  /\ phase = "ready" /\ kind = "E5"
  /\ verdict = "none"
  /\ verdict' = IF LET text == Text IN WrapperOk(text)
                  THEN "accepted" ELSE "rejected"
  /\ UNCHANGED <<vars, edits>>

-----------------------------------------------------------------------------
\* check_parameter_accounting.py: the operands of the last call of a function.
parse_call_args(text, f) ==
  LET calls == {i \in DOMAIN text[1] : /\ OpAt(text[1][i]).name = "func.call"
                                       /\ OpAt(text[1][i]).callee = f}
  IN IF calls = {} THEN <<>> ELSE OpAt(text[1][SE!Max(calls)]).operands

\* Mistake: the parameters are compared as a set.
ForwardsInAnyOrder(text) ==
  /\ \A i \in DOMAIN lengths :
       LET args == parse_call_args(text, Static(lengths[i]))
       IN args # <<>> /\ SE!ToSet(Tail(args)) = {Arg(a) : a \in 2..NumInputs}
  /\ parse_call_args(text, Generic) = [a \in 1..NumInputs |-> Arg(a)]

\* A clone is given the wrapper's arguments behind the first, the generic
\* function all of them.
Forwards(text) ==
  /\ \A i \in DOMAIN lengths :
       LET args == parse_call_args(text, Static(lengths[i]))
       IN args # <<>> /\ Tail(args) = [a \in 1..(NumInputs - 1) |-> Arg(a + 1)]
  /\ parse_call_args(text, Generic) = [a \in 1..NumInputs |-> Arg(a)]

check_parameter_forwarding ==
  /\ phase = "ready" /\ kind # "E5"
  /\ verdict = "none"
  /\ verdict' = IF LET text == Text IN Forwards(text)
                  THEN "accepted" ELSE "rejected"
  /\ UNCHANGED <<vars, edits>>

-----------------------------------------------------------------------------
CheckerInit == Init /\ edits = 0 /\ verdict = "none"

CheckerNext ==
  \/ (Emit \/ Execute \/ (verdict = "accepted" /\ Invoke))
     /\ UNCHANGED <<edits, verdict>>
  \/ EditOp \/ EditBranch \/ check_dispatch_wrapper \/ check_parameter_forwarding

CheckerSpec == CheckerInit /\ [][CheckerNext]_checkerVars

-----------------------------------------------------------------------------
\* The checker accepts the wrapper as the pass emits it.
AcceptsEmitted == verdict = "rejected" => edits > 0

\* Whatever was edited: in a wrapper that the checker accepts, a call reaches
\* the clone of its widths, or the generic function if there is none.
AcceptedRoutes ==
  kind = "E5" /\ callee # NoCallee => callee = R!CalleeFor(widths)

\* What either checker accepts gives the generic function the original inputs.
AcceptedFallback ==
  callee = Generic =>
    \A i \in 1..NumInputs : operands[i] = [from |-> i, width |-> Dyn]

\* However a wrapper with parameters was edited: if the accounting accepts it,
\* whatever a call reaches has the caller's parameters, each in its place.
AccountedForwards ==
  kind # "E5" /\ callee # NoCallee =>
    \A i \in (NumArgs + 1)..NumInputs : operands[i] = [from |-> i, width |-> Dyn]

=============================================================================
