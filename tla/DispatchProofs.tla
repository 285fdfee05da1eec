---------------------------- MODULE DispatchProofs ----------------------------
(***************************************************************************)
(* For every contract, every list of lengths and all widths: the wrapper   *)
(* is valid IR, and it gives a call to the clone for its width, or to the  *)
(* generic function, as Routing promises.  And whatever is edited in it,   *)
(* if the checker accepts it, a call still reaches what it should.         *)
(*                                                                         *)
(* A level of the chain is the block that tests for a length.  Level i is  *)
(* block 2 * i - 1, its then region block 2 * i, and its else region is    *)
(* the next level, or the fallback behind the last one.                    *)
(***************************************************************************)
EXTENDS BridgeChecker, SequenceLemmas, FiniteSetTheorems, WellFoundedInduction

NumLevels == Len(lengths)

Level(i) == 2 * i - 1
Then(i)  == 2 * i
Fallback == 2 * NumLevels + 1

\* What precedes the tests of a level, and where its scf.if is.
Base(i)  == IF i = 1 THEN 1 + NumArgs ELSE 0
IfPos(i) == Base(i) + 2 * NumArgs + 1

ThenLen == IF ResultIsStatic THEN NumArgs + 2 ELSE NumArgs + 3

-----------------------------------------------------------------------------
\* The text of the wrapper, block by block.
IsHeader(s) ==
  /\ s[1] = ConstantOp(kSequenceAxis)
  /\ \A a \in 1..NumArgs : s[1 + a] = DimOp(Arg(a), Val(1, 1))

IsTests(s, b, base, length) ==
  /\ s[base + 1] = ConstantOp(length)
  /\ s[base + 2] = CmpOp(SequenceLength(1), Val(b, base + 1))
  /\ NumArgs = 3 =>
       /\ s[base + 3] = CmpOp(SequenceLength(2), Val(b, base + 1))
       /\ s[base + 4] = AndOp(Val(b, base + 2), Val(b, base + 3))
       /\ s[base + 5] = CmpOp(SequenceLength(3), Val(b, base + 1))
       /\ s[base + 6] = AndOp(Val(b, base + 4), Val(b, base + 5))

IsLevel(s, i) ==
  /\ i = 1 => IsHeader(s)
  /\ IsTests(s, Level(i), Base(i), lengths[i])
  /\ s[IfPos(i)] = IfOp(Val(Level(i), Base(i) + 2 * NumArgs), Then(i), Level(i + 1))

IsThen(s, i) ==
  /\ Len(s) = ThenLen
  /\ \A a \in 1..NumArgs : s[a] = CastOp(Arg(a), lengths[i])
  /\ s[NumArgs + 1] = CallOp(Static(lengths[i]),
                             [j \in 1..NumInputs |-> IF j <= NumArgs THEN Val(Then(i), j)
                                                                     ELSE Arg(j)])
  /\ ~ ResultIsStatic => s[NumArgs + 2] = CastOp(Val(Then(i), NumArgs + 1), Dyn)
  /\ s[ThenLen] = YieldOp(Val(Then(i), ThenLen - 1))

IsFallback(s) ==
  /\ Len(s) = 2
  /\ s[1] = CallOp(Generic, [j \in 1..NumInputs |-> Arg(j)])
  /\ s[2] = YieldOp(Val(Fallback, 1))

Terminator(i) == IF i = 1 THEN ReturnOp(Val(Level(i), IfPos(i)))
                          ELSE YieldOp(Val(Level(i), IfPos(i)))

\* The first n levels are there, and those behind the first open ones are
\* terminated.
Emitted(n, open) ==
  \A i \in 1..n :
    /\ IsLevel(blocks[Level(i)], i)
    /\ IF i <= open
         THEN Len(blocks[Level(i)]) = IfPos(i)
         ELSE /\ Len(blocks[Level(i)]) = IfPos(i) + 1
              /\ blocks[Level(i)][IfPos(i) + 1] = Terminator(i)
    /\ IsThen(blocks[Then(i)], i)

Blocks == IsSeq(blocks) /\ \A b \in DOMAIN blocks : IsSeq(blocks[b])

Frames == IsSeq(frames) /\ \A i \in DOMAIN frames : frames[i] = Level(i)

EmitInv ==
  /\ phase \in {"clones", "chain", "unwind", "ready", "run"}
  /\ kind \in EntryKinds /\ lengths \in LengthLists
  /\ IsSeq(statics) /\ Len(statics) <= NumLevels
  /\ \A i \in DOMAIN statics : statics[i] = lengths[i]
  /\ Blocks /\ Frames
  /\ phase = "clones" => blocks = <<>> /\ frames = <<>>
  /\ phase # "clones" => Len(statics) = NumLevels
  /\ phase = "chain" =>
       /\ Len(frames) <= NumLevels
       /\ ip = Level(Len(frames) + 1) /\ Len(blocks) = ip
       /\ Emitted(Len(frames), Len(frames))
       /\ Len(blocks[ip]) = Base(Len(frames) + 1)
       /\ frames = <<>> => IsHeader(blocks[1])
  /\ phase = "unwind" => frames # <<>> /\ Len(frames) <= NumLevels
  /\ phase \in {"ready", "run"} => frames = <<>>
  /\ phase \in {"unwind", "ready", "run"} =>
       /\ Len(blocks) = Fallback
       /\ Emitted(NumLevels, Len(frames))
       /\ IsFallback(blocks[Fallback])

-----------------------------------------------------------------------------
\* The call in progress.
Matches(i) == \A a \in 1..NumArgs : widths[a] = lengths[i]
Missed(i)  == \A l \in 1..i - 1 : ~ Matches(l)

Result == [from |-> 0, width |-> Dyn]

\* The value x of an operation at a position of the header, of a level's
\* tests, and of a then region.
HeaderValue(p, x) ==
  /\ p = 1 => x = kSequenceAxis
  /\ p \in 2..1 + NumArgs => x = widths[p - 1]

Says(x, P) == x \in BOOLEAN /\ (x <=> P)

TestValue(i, j, x) ==
  /\ j = 1 => x = lengths[i]
  /\ j = 2 => Says(x, widths[1] = lengths[i])
  /\ NumArgs = 3 =>
       /\ j = 3 => Says(x, widths[2] = lengths[i])
       /\ j = 4 => Says(x, widths[1] = lengths[i] /\ widths[2] = lengths[i])
       /\ j = 5 => Says(x, widths[3] = lengths[i])
  /\ j = 2 * NumArgs => Says(x, Matches(i))
  /\ j = 2 * NumArgs + 1 => x = Result

ThenValue(i, p, x) ==
  /\ Matches(i)
  /\ p \in 1..NumArgs => x = [from |-> p, width |-> lengths[i]]
  /\ p = NumArgs + 1 =>
       x = [from |-> 0, width |-> IF ResultIsStatic THEN Dyn ELSE lengths[i]]
  /\ p = NumArgs + 2 => x = Result

Value(b, p, x) ==
  /\ b = 1 => HeaderValue(p, x)
  /\ \A i \in 1..NumLevels : b = Level(i) => TestValue(i, p - Base(i), x)
  /\ \A i \in 1..NumLevels : b = Then(i) => ThenValue(i, p, x)
  /\ b = Fallback => p = 1 /\ x = Result

EnvInv ==
  \A v \in DOMAIN env :
    /\ v \in Nat \X Nat /\ v[1] \in DOMAIN blocks /\ v[2] \in DOMAIN blocks[v[1]]
    /\ Value(v[1], v[2], env[v])

Defined(b, n) == \A p \in 1..n : Val(b, p) \in DOMAIN env

NotCalled  == callee = NoCallee /\ operands = <<>>
Called(f)  == callee = f

\* Where a run is: on its way down, in a then region, in the fallback, or on
\* its way up.
Testing(i, p) ==
  /\ p \in 1..IfPos(i) /\ NotCalled /\ Missed(i)
  /\ Defined(Level(i), p - 1)
  /\ i > 1 => Defined(1, 1 + NumArgs)

Taking(i, p) ==
  /\ p \in 1..ThenLen /\ Missed(i) /\ Matches(i)
  /\ Defined(Then(i), p - 1)
  /\ IF p <= NumArgs + 1 THEN NotCalled ELSE Called(Static(lengths[i]))

FallingBack(p) ==
  /\ p \in 1..2 /\ Missed(NumLevels + 1)
  /\ Defined(Fallback, p - 1)
  /\ IF p = 1 THEN NotCalled ELSE Called(Generic)

GoingUp(i, p) ==
  /\ p = IfPos(i) + 1 /\ Val(Level(i), IfPos(i)) \in DOMAIN env
  /\ callee # NoCallee

PcInv ==
  \/ \E i \in 1..NumLevels :
       \/ pc[1] = Level(i) /\ (Testing(i, pc[2]) \/ GoingUp(i, pc[2]))
       \/ pc[1] = Then(i) /\ Taking(i, pc[2])
  \/ pc[1] = Fallback /\ FallingBack(pc[2])

OperandsInv ==
  callee # NoCallee =>
    /\ callee = Generic \/ \E i \in 1..NumLevels : callee = Static(lengths[i])
    /\ callee = R!CalleeFor(widths)
    /\ operands = [j \in 1..NumInputs |->
                     [from |-> j, width |-> IF callee # Generic /\ j <= NumArgs
                                              THEN callee[2] ELSE Dyn]]

RunInv ==
  /\ phase # "run" => widths = NoCall /\ callee = NoCallee /\ operands = <<>> /\ env = <<>>
  /\ phase = "run" =>
       /\ widths \in [1..NumArgs -> Widths] /\ pc \in Nat \X Nat
       /\ EnvInv /\ PcInv /\ OperandsInv

IInv == EmitInv /\ RunInv

-----------------------------------------------------------------------------
\* The number of sequence arguments.
LEMMA ArgsCount ==
  ASSUME kind \in EntryKinds
  PROVE  /\ NumArgs = IF kind = "E5" THEN 3 ELSE 1
         /\ Contract(kind).sequenceArguments = 1..NumArgs
         /\ NumInputs \in Nat /\ NumArgs <= NumInputs
<1>1. kind \in {"StageA", "StageB", "E5"}
  BY EntryKindsAssumption DEF Kinds
<1>2. Contract(kind).sequenceArguments = IF kind = "E5" THEN 1..3 ELSE {1}
  BY <1>1 DEF Contract
<1>3. Cardinality(1..3) = 3
  <2>1. Cardinality(1..3) = IF 1 > 3 THEN 0 ELSE 3 - 1 + 1
    BY FS_Interval, 1 \in Int, 3 \in Int, Zenon
  <2> QED BY <2>1
<1>4. Cardinality({1}) = 1
  BY FS_Singleton
<1>5. NumArgs = IF kind = "E5" THEN 3 ELSE 1
  BY <1>2, <1>3, <1>4 DEF NumArgs
<1>6. Contract(kind).sequenceArguments = 1..NumArgs
  <2>1. {1} = 1..1
    OBVIOUS
  <2>2. CASE kind = "E5"
    BY <1>2, <1>5, <2>2, Zenon
  <2>3. CASE kind # "E5"
    BY <1>2, <1>5, <2>1, <2>3, Zenon
  <2> QED BY <2>2, <2>3
<1> QED BY <1>1, <1>5, <1>6 DEF NumInputs

LEMMA LengthsType ==
  ASSUME lengths \in LengthLists
  PROVE  /\ NumLevels \in Nat \ {0} /\ DOMAIN lengths = 1..NumLevels
         /\ \A i \in 1..NumLevels : lengths[i] \in Nat \ {0}
         /\ \A i, j \in 1..NumLevels : i < j => lengths[i] < lengths[j]
<1>1. lengths \in Seq(Nat \ {0}) /\ lengths # <<>>
  BY LengthListsAssumption
<1>2. NumLevels \in Nat \ {0} /\ DOMAIN lengths = 1..NumLevels
  BY <1>1, LenProperties, EmptySeq DEF NumLevels
<1>3. \A i \in 1..NumLevels : lengths[i] \in Nat \ {0}
  BY <1>1, ElementOfSeq DEF NumLevels
<1> QED BY <1>2, <1>3, LengthListsAssumption

LEMMA InitIInv == Init => IInv
<1> SUFFICES ASSUME Init PROVE IInv
  OBVIOUS
<1>1. IsSeq(<<>>) /\ Len(<<>>) = 0
  BY EmptyIsSeq
<1>2. DOMAIN <<>> = {}
  OBVIOUS
<1>3. NumLevels \in Nat
  BY LengthsType DEF Init
<1>4. EmitInv
  BY <1>1, <1>2, <1>3 DEF Init, EmitInv, Blocks, Frames
<1>5. RunInv
  BY DEF Init, RunInv
<1> QED BY <1>4, <1>5 DEF IInv

-----------------------------------------------------------------------------
\* Emission.
LEMMA EmitCloneInv == EmitInv /\ EmitClone => EmitInv'
<1> SUFFICES ASSUME EmitInv, EmitClone PROVE EmitInv'
  OBVIOUS
<1> USE DEF EmitInv, EmitClone
<1>1. /\ IsSeq(statics') /\ Len(statics') = Len(statics) + 1
      /\ \A i \in 1..Len(statics) : statics'[i] = statics[i]
      /\ statics'[Len(statics) + 1] = lengths[Len(statics) + 1]
  BY AppendIsSeq
<1>2. Len(statics) \in Nat /\ NumLevels \in Nat /\ NumLevels' = NumLevels
  BY LengthsType DEF IsSeq, NumLevels
<1>3. /\ DOMAIN statics = 1..Len(statics)
      /\ DOMAIN statics' = 1..Len(statics) + 1
  BY <1>1, <1>2 DEF IsSeq
<1>4. \A i \in DOMAIN statics' : statics'[i] = lengths'[i]
  BY <1>1, <1>2, <1>3
<1>5. Len(statics') <= NumLevels'
  BY <1>1, <1>2 DEF NumLevels
<1>6. Blocks' /\ Frames'
  BY DEF Blocks, Frames
<1> QED BY <1>1, <1>4, <1>5, <1>6

LEMMA EmitHeaderInv == EmitInv /\ emitDispatchWrapper => EmitInv'
<1> SUFFICES ASSUME EmitInv, emitDispatchWrapper PROVE EmitInv'
  OBVIOUS
<1> DEFINE axis == <<ConstantOp(kSequenceAxis)>>
           dims == [a \in 1..NumArgs |-> DimOp(Arg(a), Val(1, 1))]
           header == axis \o dims
<1>1. /\ kind \in EntryKinds /\ lengths \in LengthLists
      /\ IsSeq(statics) /\ Len(statics) = NumLevels
      /\ \A i \in DOMAIN statics : statics[i] = lengths[i]
      /\ Frames /\ frames = <<>>
  BY DEF EmitInv, emitDispatchWrapper, NumLevels
<1>2. /\ blocks' = <<header>> /\ ip' = 1 /\ phase' = "chain"
      /\ kind' = kind /\ lengths' = lengths /\ statics' = statics /\ frames' = frames
  BY DEF emitDispatchWrapper
<1>3. NumArgs \in Nat /\ NumArgs' = NumArgs /\ NumLevels' = NumLevels /\ NumLevels \in Nat
  BY <1>1, <1>2, ArgsCount, LengthsType DEF NumArgs, NumLevels
<1>4. IsSeq(axis) /\ Len(axis) = 1 /\ axis[1] = ConstantOp(kSequenceAxis)
  BY SingletonIsSeq
<1>5. IsSeq(dims) /\ Len(dims) = NumArgs
  BY <1>3, FunctionIsSeq
<1>6. \A a \in 1..NumArgs : dims[a] = DimOp(Arg(a), Val(1, 1))
  OBVIOUS
<1> HIDE DEF axis, dims
<1>7. IsSeq(axis) /\ IsSeq(dims)
  BY <1>4, <1>5
<1>8. /\ IsSeq(header) /\ Len(header) = 1 + NumArgs
      /\ header[1] = ConstantOp(kSequenceAxis)
      /\ \A a \in 1..NumArgs : header[1 + a] = DimOp(Arg(a), Val(1, 1))
  <2>1. /\ IsSeq(header) /\ Len(header) = Len(axis) + Len(dims)
        /\ \A i \in 1..Len(axis) : header[i] = axis[i]
        /\ \A i \in Len(axis) + 1..Len(axis) + Len(dims) : header[i] = dims[i - Len(axis)]
    BY <1>7, ConcatIsSeq
  <2> HIDE DEF header
  <2> QED BY <1>3, <1>4, <1>5, <1>6, <2>1
<1> HIDE DEF header
<1>9. IsSeq(blocks') /\ Len(blocks') = 1 /\ blocks'[1] = header
  BY <1>2, SingletonIsSeq
<1>10. DOMAIN blocks' = 1..1
  BY <1>9 DEF IsSeq
<1>11. Blocks'
  BY <1>8, <1>9, <1>10 DEF Blocks
<1>12. IsHeader(blocks[1])'
  BY <1>3, <1>8, <1>9 DEF IsHeader
<1>13. Len(frames') = 0 /\ frames' = <<>> /\ Frames'
  BY <1>1, <1>2, EmptyIsSeq DEF Frames
<1>14. Emitted(Len(frames), Len(frames))'
  BY <1>13 DEF Emitted
<1>15. ip' = Level(Len(frames) + 1)' /\ Len(blocks') = ip'
  BY <1>2, <1>9, <1>13 DEF Level
<1>16. Len(blocks'[ip']) = Base(Len(frames) + 1)'
  BY <1>2, <1>3, <1>8, <1>9, <1>13 DEF Base
<1>17. Len(frames') <= NumLevels'
  BY <1>3, <1>13
<1> QED BY <1>1, <1>2, <1>3, <1>11, <1>12, <1>13, <1>14, <1>15, <1>16, <1>17 DEF EmitInv

\* The level that an activation writes behind what is there.
LEMMA LevelText ==
  ASSUME kind \in EntryKinds, NEW i \in Nat \ {0}, NEW s, IsSeq(s), Len(s) = Base(i),
         i = 1 => IsHeader(s), NEW level,
         level = s \o Tests(Level(i), Base(i), lengths[i])
                   \o <<IfOp(Val(Level(i), Base(i) + 2 * NumArgs), Then(i), Level(i + 1))>>
  PROVE  IsSeq(level) /\ Len(level) = IfPos(i) /\ IsLevel(level, i)
<1> DEFINE tests == Tests(Level(i), Base(i), lengths[i])
           branch == IfOp(Val(Level(i), Base(i) + 2 * NumArgs), Then(i), Level(i + 1))
           tail  == <<branch>>
           front == s \o tests
           text  == front \o tail
<1>0. level = text
  OBVIOUS
<1>1. NumArgs \in {1, 3} /\ Base(i) \in Nat
  BY ArgsCount DEF Base
<1>2. IsSeq(tests)
  BY <1>1, FunctionIsSeq DEF Tests
<1>3. Len(tests) = 2 * NumArgs
  BY <1>1, FunctionIsSeq DEF Tests
<1>5. /\ tests[1] = ConstantOp(lengths[i])
      /\ tests[2] = CmpOp(SequenceLength(1), Val(Level(i), Base(i) + 1))
      /\ NumArgs = 3 =>
           /\ tests[3] = CmpOp(SequenceLength(2), Val(Level(i), Base(i) + 1))
           /\ tests[4] = AndOp(Val(Level(i), Base(i) + 2), Val(Level(i), Base(i) + 3))
           /\ tests[5] = CmpOp(SequenceLength(3), Val(Level(i), Base(i) + 1))
           /\ tests[6] = AndOp(Val(Level(i), Base(i) + 4), Val(Level(i), Base(i) + 5))
  BY <1>1 DEF Tests
<1> HIDE DEF tests
<1>6. IsSeq(tail)
  BY SingletonIsSeq
<1>7. Len(tail) = 1 /\ tail[1] = branch
  BY SingletonIsSeq
<1> HIDE DEF tail, branch
<1>8. /\ IsSeq(front) /\ Len(front) = Len(s) + Len(tests)
      /\ \A j \in 1..Len(s) : front[j] = s[j]
      /\ \A j \in Len(s) + 1..Len(s) + Len(tests) : front[j] = tests[j - Len(s)]
  BY <1>2, ConcatIsSeq
<1> HIDE DEF front
<1>9. /\ IsSeq(text) /\ Len(text) = Len(front) + Len(tail)
      /\ \A j \in 1..Len(front) : text[j] = front[j]
      /\ \A j \in Len(front) + 1..Len(front) + Len(tail) : text[j] = tail[j - Len(front)]
  BY <1>6, <1>8, ConcatIsSeq
<1> HIDE DEF text
<1>10. Len(text) = IfPos(i) /\ text[IfPos(i)] = branch
  <2>1. Len(front) \in Nat /\ IfPos(i) = Len(front) + 1
    BY <1>1, <1>3, <1>8 DEF IfPos
  <2>2. Len(text) = IfPos(i) /\ IfPos(i) \in Len(front) + 1..Len(front) + Len(tail)
    BY <1>7, <1>9, <2>1
  <2>3. text[IfPos(i)] = tail[IfPos(i) - Len(front)] /\ IfPos(i) - Len(front) = 1
    BY <1>9, <2>1, <2>2
  <2> QED BY <1>7, <2>2, <2>3
<1>11. \A j \in 1..Base(i) : text[j] = s[j]
  BY <1>1, <1>3, <1>8, <1>9
<1>12. ASSUME NEW j \in 1..2 * NumArgs PROVE text[Base(i) + j] = tests[j]
  <2>1. /\ Base(i) + j \in Len(s) + 1..Len(s) + Len(tests) /\ (Base(i) + j) - Len(s) = j
        /\ Base(i) + j \in 1..Len(front)
    BY <1>1, <1>3, <1>8
  <2> QED BY <1>8, <1>9, <2>1
<1>13. i = 1 => IsHeader(text)
  BY <1>1, <1>11 DEF IsHeader, Base
<1>14. IsTests(text, Level(i), Base(i), lengths[i])
  BY <1>1, <1>5, <1>12 DEF IsTests
<1>15. IsLevel(text, i)
  BY <1>10, <1>13, <1>14 DEF IsLevel, branch
<1> QED BY <1>0, <1>9, <1>10, <1>15

\* The text of a call of the clone for a length, in a block b.
CallsClone(s, b, length) ==
  /\ Len(s) = ThenLen
  /\ \A a \in 1..NumArgs : s[a] = CastOp(Arg(a), length)
  /\ s[NumArgs + 1] = CallOp(Static(length),
                             [j \in 1..NumInputs |-> IF j <= NumArgs THEN Val(b, j)
                                                                     ELSE Arg(j)])
  /\ ~ ResultIsStatic => s[NumArgs + 2] = CastOp(Val(b, NumArgs + 1), Dyn)
  /\ s[ThenLen] = YieldOp(Val(b, ThenLen - 1))

\* It is what emitStaticCall and a yield behind it write.
LEMMA BranchText ==
  ASSUME kind \in EntryKinds, NEW b, NEW length
  PROVE  LET taken == emitStaticCall(b, length)
             text  == taken \o <<YieldOp(Val(b, Len(taken)))>>
         IN IsSeq(text) /\ CallsClone(text, b, length)
<1> DEFINE casts == [a \in 1..NumArgs |-> CastOp(Arg(a), length)]
           op    == CallOp(Static(length),
                           [j \in 1..NumInputs |-> IF j <= NumArgs THEN Val(b, j)
                                                                  ELSE Arg(j)])
           call  == <<op>>
           back  == IF ResultIsStatic THEN <<>> ELSE <<CastOp(Val(b, NumArgs + 1), Dyn)>>
           front == casts \o call
           taken == front \o back
           last  == YieldOp(Val(b, Len(taken)))
           tail  == <<last>>
           text  == taken \o tail
<1>1. NumArgs \in {1, 3}
  BY ArgsCount
<1>2. IsSeq(casts) /\ Len(casts) = NumArgs
  BY <1>1, FunctionIsSeq
<1>3. \A a \in 1..NumArgs : casts[a] = CastOp(Arg(a), length)
  OBVIOUS
<1>4. IsSeq(call) /\ Len(call) = 1 /\ call[1] = op
  BY SingletonIsSeq
<1>5. IsSeq(back) /\ Len(back) = (IF ResultIsStatic THEN 0 ELSE 1)
  BY EmptyIsSeq, SingletonIsSeq
<1>6. ~ ResultIsStatic => back[1] = CastOp(Val(b, NumArgs + 1), Dyn)
  BY SingletonIsSeq
<1>7. IsSeq(tail) /\ Len(tail) = 1 /\ tail[1] = last
  BY SingletonIsSeq
<1>8. emitStaticCall(b, length) = taken
  BY DEF emitStaticCall
<1> HIDE DEF casts, call, op, back, tail, last
<1>9. IsSeq(casts) /\ IsSeq(call)
  BY <1>2, <1>4
<1>10. /\ IsSeq(front) /\ Len(front) = Len(casts) + Len(call)
       /\ \A j \in 1..Len(casts) : front[j] = casts[j]
       /\ \A j \in Len(casts) + 1..Len(casts) + Len(call) : front[j] = call[j - Len(casts)]
  BY <1>9, ConcatIsSeq
<1> HIDE DEF front
<1>11. IsSeq(front) /\ IsSeq(back)
  BY <1>5, <1>10
<1>12. /\ IsSeq(taken) /\ Len(taken) = Len(front) + Len(back)
       /\ \A j \in 1..Len(front) : taken[j] = front[j]
       /\ \A j \in Len(front) + 1..Len(front) + Len(back) : taken[j] = back[j - Len(front)]
  BY <1>11, ConcatIsSeq
<1> HIDE DEF taken
<1>13. IsSeq(taken) /\ IsSeq(tail)
  BY <1>7, <1>12
<1>14. /\ IsSeq(text) /\ Len(text) = Len(taken) + Len(tail)
       /\ \A j \in 1..Len(taken) : text[j] = taken[j]
       /\ \A j \in Len(taken) + 1..Len(taken) + Len(tail) : text[j] = tail[j - Len(taken)]
  BY <1>13, ConcatIsSeq
<1> HIDE DEF text
<1>15. Len(front) = NumArgs + 1 /\ front[NumArgs + 1] = op
  BY <1>1, <1>2, <1>4, <1>10
<1>16. Len(taken) = ThenLen - 1 /\ Len(text) = ThenLen /\ Len(taken) \in Nat
  BY <1>1, <1>5, <1>7, <1>12, <1>14, <1>15 DEF ThenLen
<1>17. \A a \in 1..NumArgs : text[a] = CastOp(Arg(a), length)
  <2> SUFFICES ASSUME NEW a \in 1..NumArgs PROVE text[a] = CastOp(Arg(a), length)
    OBVIOUS
  <2>1. a \in 1..Len(casts) /\ a \in 1..Len(front) /\ a \in 1..Len(taken)
    BY <1>1, <1>2, <1>15, <1>16 DEF ThenLen
  <2> QED BY <1>3, <1>10, <1>12, <1>14, <2>1
<1>18. text[NumArgs + 1] = op
  <2>1. NumArgs + 1 \in 1..Len(front) /\ NumArgs + 1 \in 1..Len(taken)
    BY <1>1, <1>15, <1>16 DEF ThenLen
  <2> QED BY <1>12, <1>14, <1>15, <2>1
<1>19. ~ ResultIsStatic => text[NumArgs + 2] = CastOp(Val(b, NumArgs + 1), Dyn)
  <2> SUFFICES ASSUME ~ ResultIsStatic
               PROVE  text[NumArgs + 2] = CastOp(Val(b, NumArgs + 1), Dyn)
    OBVIOUS
  <2>1. /\ NumArgs + 2 \in Len(front) + 1..Len(front) + Len(back)
        /\ (NumArgs + 2) - Len(front) = 1 /\ NumArgs + 2 \in 1..Len(taken)
    BY <1>1, <1>5, <1>15, <1>16 DEF ThenLen
  <2> QED BY <1>6, <1>12, <1>14, <2>1
<1>20. text[ThenLen] = last
  <2>1. ThenLen \in Len(taken) + 1..Len(taken) + Len(tail) /\ ThenLen - Len(taken) = 1
    BY <1>1, <1>7, <1>16 DEF ThenLen
  <2> QED BY <1>7, <1>14, <2>1
<1>21. last = YieldOp(Val(b, ThenLen - 1))
  BY <1>16 DEF last
<1>22. CallsClone(text, b, length)
  BY <1>16, <1>17, <1>18, <1>19, <1>20, <1>21 DEF CallsClone, op
<1> QED BY <1>8, <1>14, <1>22 DEF text, tail, last

\* So is the then region of a level.
LEMMA ThenText ==
  ASSUME kind \in EntryKinds, NEW i \in Nat \ {0}
  PROVE  LET taken == emitStaticCall(Then(i), lengths[i])
             text  == taken \o <<YieldOp(Val(Then(i), Len(taken)))>>
         IN IsSeq(text) /\ IsThen(text, i)
BY BranchText DEF IsThen, CallsClone

\* The text of a block means the same after a step that keeps the entry.
LEMMA SameEntry ==
  ASSUME kind' = kind, lengths' = lengths
  PROVE  /\ NumArgs' = NumArgs /\ NumInputs' = NumInputs /\ NumLevels' = NumLevels
         /\ ThenLen' = ThenLen /\ ResultIsStatic' = ResultIsStatic /\ Fallback' = Fallback
         /\ \A i : Base(i)' = Base(i) /\ IfPos(i)' = IfPos(i)
<1>1. NumArgs' = NumArgs /\ NumInputs' = NumInputs /\ NumLevels' = NumLevels
      /\ ResultIsStatic' = ResultIsStatic
  BY DEF NumArgs, NumInputs, NumLevels, ResultIsStatic
<1>2. ThenLen' = ThenLen /\ Fallback' = Fallback
  BY <1>1 DEF ThenLen, Fallback
<1>3. ASSUME NEW i PROVE Base(i)' = Base(i)
  BY <1>1 DEF Base
<1>4. ASSUME NEW i PROVE IfPos(i)' = IfPos(i)
  BY <1>1, <1>3 DEF IfPos
<1> QED BY <1>1, <1>2, <1>3, <1>4

LEMMA SameText ==
  ASSUME kind' = kind, lengths' = lengths, NEW s, NEW i
  PROVE  /\ IsHeader(s)' <=> IsHeader(s)
         /\ IsLevel(s, i)' <=> IsLevel(s, i)
         /\ IsThen(s, i)' <=> IsThen(s, i)
         /\ IsFallback(s)' <=> IsFallback(s)
         /\ Terminator(i)' = Terminator(i)
<1>1. IsHeader(s)' <=> IsHeader(s)
  BY SameEntry DEF IsHeader
<1>2. ASSUME NEW b, NEW base, NEW length
      PROVE  IsTests(s, b, base, length)' <=> IsTests(s, b, base, length)
  BY SameEntry DEF IsTests
<1>3. IsLevel(s, i)' <=> IsLevel(s, i)
  BY SameEntry, <1>1 DEF IsLevel, IsTests
<1>4. IsThen(s, i)' <=> IsThen(s, i)
  BY SameEntry DEF IsThen, Static
<1>5. IsFallback(s)' <=> IsFallback(s)
  BY SameEntry DEF IsFallback, Generic
<1>6. Terminator(i)' = Terminator(i)
  BY SameEntry DEF Terminator
<1> QED BY <1>1, <1>3, <1>4, <1>5, <1>6

\* Blocks that a step leaves alone stay emitted.
LEMMA SameBlocks ==
  ASSUME kind' = kind, lengths' = lengths, NEW n \in Nat, NEW open, Emitted(n, open),
         \A b \in 1..2 * n : blocks'[b] = blocks[b]
  PROVE  Emitted(n, open)'
<1> SUFFICES ASSUME NEW i \in 1..n
             PROVE  /\ IsLevel(blocks[Level(i)], i)'
                    /\ IF i <= open
                         THEN Len(blocks'[Level(i)]) = IfPos(i)'
                         ELSE /\ Len(blocks'[Level(i)]) = IfPos(i)' + 1
                              /\ blocks'[Level(i)][IfPos(i)' + 1] = Terminator(i)'
                    /\ IsThen(blocks[Then(i)], i)'
  BY DEF Emitted, Level
<1>1. Level(i) \in 1..2 * n /\ Then(i) \in 1..2 * n
  BY DEF Level, Then
<1>2. blocks'[Level(i)] = blocks[Level(i)] /\ blocks'[Then(i)] = blocks[Then(i)]
  BY <1>1
<1>3. IsLevel(blocks[Level(i)], i) /\ IsThen(blocks[Then(i)], i)
  BY DEF Emitted
<1>4. IsLevel(blocks[Level(i)], i)'
  BY <1>2, <1>3, SameText
<1>5. IsThen(blocks[Then(i)], i)'
  BY <1>2, <1>3, SameText
<1> QED BY <1>2, <1>4, <1>5, SameText, SameEntry DEF Emitted

LEMMA EmitLevelInv == EmitInv /\ emitDispatchChain => EmitInv'
<1> SUFFICES ASSUME EmitInv, emitDispatchChain PROVE EmitInv'
  OBVIOUS
<1>1. PICK depth \in Nat : depth = Len(frames)
  BY DEF EmitInv, Frames, IsSeq
<1> DEFINE i     == depth + 1
           text  == blocks[ip] \o Tests(ip, Len(blocks[ip]), lengths[i])
                      \o <<IfOp(Val(ip, Len(blocks[ip]) + 2 * NumArgs),
                               Len(blocks) + 1, Len(blocks) + 2)>>
           taken == emitStaticCall(Len(blocks) + 1, statics[i])
           then  == taken \o <<YieldOp(Val(Len(blocks) + 1, Len(taken)))>>
           ended == [blocks EXCEPT ![ip] = text]
           news  == <<then, <<>>>>
<1>2. /\ phase = "chain" /\ i <= Len(statics)
      /\ blocks' = ended \o news
      /\ frames' = Append(frames, ip) /\ ip' = Len(blocks) + 2
      /\ phase' = phase /\ kind' = kind /\ lengths' = lengths /\ statics' = statics
  BY <1>1 DEF emitDispatchChain
<1>3. /\ kind \in EntryKinds /\ lengths \in LengthLists
      /\ IsSeq(statics) /\ Len(statics) = NumLevels
      /\ Len(frames) = depth
      /\ \A j \in DOMAIN statics : statics[j] = lengths[j]
      /\ Blocks /\ Frames
      /\ ip = Level(i) /\ Len(blocks) = ip
      /\ Emitted(depth, depth)
      /\ Len(blocks[ip]) = Base(i)
      /\ frames = <<>> => IsHeader(blocks[1])
  BY <1>1, <1>2 DEF EmitInv
<1>4. depth \in Nat /\ NumLevels \in Nat \ {0} /\ i \in 1..NumLevels
  BY <1>2, <1>3, LengthsType
<1>5. Len(blocks) = 2 * depth + 1 /\ ip = 2 * depth + 1 /\ ip \in 1..Len(blocks)
  BY <1>3, <1>4 DEF Level
<1>6. IsSeq(blocks) /\ IsSeq(blocks[ip]) /\ DOMAIN blocks = 1..Len(blocks)
  BY <1>3, <1>5 DEF Blocks, IsSeq
<1>7. Len(blocks) + 1 = Then(i) /\ Len(blocks) + 2 = Level(i + 1) /\ statics[i] = lengths[i]
  BY <1>3, <1>4, <1>5 DEF Then, Level, IsSeq
<1>8. i = 1 => IsHeader(blocks[ip])
  <2>1. i = 1 => frames = <<>> /\ ip = 1
    BY <1>1, <1>3, <1>4, <1>5, EmptyIsSeq, EqualSeqs DEF Frames
  <2> QED BY <1>3, <2>1
<1>9. IsSeq(text) /\ Len(text) = IfPos(i) /\ IsLevel(text, i)
  <2>1. text = blocks[ip] \o Tests(Level(i), Base(i), lengths[i])
                 \o <<IfOp(Val(Level(i), Base(i) + 2 * NumArgs), Then(i), Level(i + 1))>>
    BY <1>3, <1>7
  <2> HIDE DEF text
  <2>2. IsSeq(blocks[ip]) /\ Len(blocks[ip]) = Base(i) /\ i \in Nat \ {0} /\ kind \in EntryKinds
    BY <1>3, <1>4, <1>6
  <2> HIDE DEF i
  <2> QED BY <1>8, <2>1, <2>2, LevelText
<1>10. IsSeq(then) /\ IsThen(then, i)
  BY <1>3, <1>4, <1>7, ThenText
<1> HIDE DEF text, then
<1>11. /\ IsSeq(ended) /\ Len(ended) = Len(blocks) /\ ended[ip] = text
       /\ \A b \in 1..Len(blocks) : b # ip => ended[b] = blocks[b]
  BY <1>5, <1>6, ExceptIsSeq
<1>12. IsSeq(news)
  BY PairIsSeq
<1>13. Len(news) = 2 /\ news[1] = then /\ news[2] = <<>>
  BY PairIsSeq
<1> HIDE DEF ended, news
<1>14. /\ IsSeq(blocks') /\ Len(blocks') = Len(ended) + Len(news)
       /\ \A b \in 1..Len(ended) : blocks'[b] = ended[b]
       /\ \A b \in Len(ended) + 1..Len(ended) + Len(news) :
            blocks'[b] = news[b - Len(ended)]
  BY <1>2, <1>11, <1>12, ConcatIsSeq
<1>15. /\ Len(blocks') = 2 * depth + 3
       /\ \A b \in 1..2 * depth : blocks'[b] = blocks[b]
       /\ blocks'[Level(i)] = text /\ blocks'[Then(i)] = then
       /\ blocks'[2 * depth + 3] = <<>>
  BY <1>4, <1>5, <1>11, <1>13, <1>14 DEF Level, Then
<1>16. Blocks'
  <2>1. DOMAIN blocks' = 1..2 * depth + 3
    BY <1>14, <1>15 DEF IsSeq
  <2>2. \A b \in 1..2 * depth : IsSeq(blocks[b])
    BY <1>3, <1>5, <1>6 DEF Blocks
  <2>3. ASSUME NEW b \in DOMAIN blocks' PROVE IsSeq(blocks'[b])
    <3>1. b \in 1..2 * depth \/ b = Level(i) \/ b = Then(i) \/ b = 2 * depth + 3
      BY <1>4, <2>1 DEF Level, Then
    <3> QED BY <1>9, <1>10, <1>15, <2>2, <3>1, EmptyIsSeq
  <2> QED BY <1>14, <2>3 DEF Blocks
<1>17. IsSeq(frames) /\ IsSeq(frames')
  BY <1>2, <1>3, AppendIsSeq DEF Frames
<1>18. Len(frames') = i /\ Frames'
  <2>1. /\ Len(frames') = i /\ frames'[i] = ip
        /\ \A j \in 1..depth : frames'[j] = frames[j]
    BY <1>2, <1>3, <1>17, AppendIsSeq
  <2>2. DOMAIN frames = 1..depth /\ DOMAIN frames' = 1..i
    BY <1>3, <1>17, <2>1 DEF IsSeq
  <2>3. ASSUME NEW j \in DOMAIN frames' PROVE frames'[j] = Level(j)
    <3>1. j \in 1..depth \/ j = i
      BY <1>4, <2>2
    <3> QED BY <1>3, <2>1, <2>2, <3>1 DEF Frames
  <2> QED BY <1>17, <2>1, <2>3 DEF Frames, Level
<1>19. Emitted(depth, depth)'
  BY <1>2, <1>3, <1>4, <1>15, SameBlocks
<1>20. Emitted(i, i)'
  <2> SUFFICES ASSUME NEW j \in 1..i
               PROVE  /\ IsLevel(blocks[Level(j)], j)' /\ IsThen(blocks[Then(j)], j)'
                      /\ Len(blocks'[Level(j)]) = IfPos(j)'
    BY <1>4 DEF Emitted, Level, Then
  <2>1. CASE j \in 1..depth
    BY <1>19, <2>1 DEF Emitted
  <2>2. CASE j = i
    BY <1>2, <1>9, <1>10, <1>15, <2>2, SameText, SameEntry
  <2> QED BY <1>4, <2>1, <2>2
<1>21. ip' = Level(Len(frames) + 1)' /\ Len(blocks') = ip'
  <2>1. ip' = 2 * depth + 3 /\ Len(frames') + 1 = depth + 2
    BY <1>1, <1>2, <1>5, <1>18
  <2> QED BY <1>15, <2>1 DEF Level
<1>22. Len(blocks'[ip']) = Base(Len(frames) + 1)'
  BY <1>2, <1>4, <1>5, <1>15, <1>18, EmptyIsSeq DEF Base
<1>23. frames' # <<>>
  BY <1>4, <1>18, EmptyIsSeq
<1>24. Len(frames') <= NumLevels' /\ NumLevels' = NumLevels /\ Emitted(Len(frames), Len(frames))'
  BY <1>2, <1>4, <1>18, <1>20, SameEntry
<1> QED BY <1>2, <1>3, <1>16, <1>18, <1>21, <1>22, <1>23, <1>24 DEF EmitInv

LEMMA EmitFallbackInv == EmitInv /\ EmitGenericCall => EmitInv'
<1> SUFFICES ASSUME EmitInv, EmitGenericCall PROVE EmitInv'
  OBVIOUS
<1> DEFINE text == << CallOp(Generic, [j \in 1..NumInputs |-> Arg(j)]), YieldOp(Val(ip, 1)) >>
<1>1. /\ phase = "chain" /\ Len(frames) = Len(statics)
      /\ blocks' = [blocks EXCEPT ![ip] = text] /\ phase' = "unwind"
      /\ kind' = kind /\ lengths' = lengths /\ statics' = statics /\ frames' = frames
  BY DEF EmitGenericCall
<1>2. /\ kind \in EntryKinds /\ lengths \in LengthLists
      /\ IsSeq(statics) /\ Len(statics) = NumLevels /\ Len(frames) = NumLevels
      /\ \A j \in DOMAIN statics : statics[j] = lengths[j]
      /\ Blocks /\ Frames
      /\ ip = Level(NumLevels + 1) /\ Len(blocks) = ip
      /\ Emitted(NumLevels, NumLevels)
  BY <1>1 DEF EmitInv
<1>3. PICK n \in Nat \ {0} : n = NumLevels
  BY <1>2, LengthsType
<1>4. ip = 2 * n + 1 /\ Fallback = ip /\ ip \in 1..Len(blocks) /\ IsSeq(blocks)
  BY <1>2, <1>3 DEF Level, Fallback, Blocks
<1>5. IsSeq(text)
  BY PairIsSeq
<1>6. IsFallback(text)
  BY <1>4, PairIsSeq DEF IsFallback
<1> HIDE DEF text
<1>7. /\ IsSeq(blocks') /\ Len(blocks') = Len(blocks) /\ blocks'[ip] = text
      /\ \A b \in 1..Len(blocks) : b # ip => blocks'[b] = blocks[b]
  <2> DEFINE ended == [blocks EXCEPT ![ip] = text]
  <2>1. IsSeq(blocks) /\ ip \in 1..Len(blocks)
    BY <1>4
  <2>2. /\ IsSeq(ended) /\ Len(ended) = Len(blocks) /\ ended[ip] = text
        /\ \A b \in 1..Len(blocks) : b # ip => ended[b] = blocks[b]
    BY <2>1, ExceptIsSeq
  <2>3. blocks' = ended
    BY <1>1
  <2> HIDE DEF ended
  <2> QED BY <2>2, <2>3
<1>8. Blocks'
  <2>1. DOMAIN blocks' = 1..Len(blocks) /\ DOMAIN blocks = 1..Len(blocks)
    BY <1>4, <1>7 DEF IsSeq
  <2> QED BY <1>2, <1>5, <1>7, <2>1 DEF Blocks
<1>9. Emitted(n, n)'
  <2>1. \A b \in 1..2 * n : blocks'[b] = blocks[b]
    BY <1>2, <1>4, <1>7
  <2> QED BY <1>1, <1>2, <1>3, <2>1, SameBlocks
<1>10. NumLevels' = n /\ Len(frames') = n /\ Frames' /\ Fallback' = Fallback
  BY <1>1, <1>2, <1>3, SameEntry DEF Frames
<1>11. frames' # <<>>
  BY <1>3, <1>10, EmptyIsSeq
<1>12. IsFallback(blocks[Fallback])'
  BY <1>1, <1>4, <1>6, <1>7, SameText, SameEntry
<1>13. Emitted(NumLevels, Len(frames))' /\ Len(blocks') = Fallback'
  BY <1>2, <1>4, <1>7, <1>9, <1>10
<1> QED BY <1>1, <1>2, <1>3, <1>8, <1>10, <1>11, <1>12, <1>13 DEF EmitInv

LEMMA EmitReturnInv == EmitInv /\ ReturnFromChain => EmitInv'
<1> SUFFICES ASSUME EmitInv, ReturnFromChain PROVE EmitInv'
  OBVIOUS
<1>1. PICK n \in Nat \ {0}, depth \in Nat : n = NumLevels /\ depth = Len(frames)
  BY LengthsType DEF EmitInv, Frames, IsSeq
<1> DEFINE after == frames[depth]
           op    == IF depth > 1 THEN YieldOp(Last(after)) ELSE ReturnOp(Last(after))
           text  == Append(blocks[after], op)
<1>2. /\ phase = "unwind"
      /\ blocks' = [blocks EXCEPT ![after] = text]
      /\ phase' = IF depth > 1 THEN "unwind" ELSE "ready"
      /\ kind' = kind /\ lengths' = lengths /\ statics' = statics
      /\ frames' = SubSeq(frames, 1, depth - 1)
  BY <1>1 DEF ReturnFromChain
<1>3. /\ kind \in EntryKinds /\ lengths \in LengthLists
      /\ IsSeq(statics) /\ Len(statics) = n
      /\ \A j \in DOMAIN statics : statics[j] = lengths[j]
      /\ Blocks /\ Frames /\ frames # <<>> /\ depth <= n
      /\ Len(blocks) = Fallback
      /\ Emitted(n, depth)
      /\ IsFallback(blocks[Fallback])
  BY <1>1, <1>2 DEF EmitInv
<1>4. Fallback = 2 * n + 1
  BY <1>1 DEF Fallback
<1>5. depth \in 1..n
  BY <1>1, <1>3, EmptyIsSeq, EqualSeqs DEF Frames
<1>6. after = Level(depth) /\ after = 2 * depth - 1
  BY <1>1, <1>3, <1>5 DEF Frames, IsSeq, Level
<1>7. /\ after \in 1..Len(blocks) /\ IsSeq(blocks) /\ DOMAIN blocks = 1..2 * n + 1
      /\ IsSeq(blocks[after])
  <2>1. IsSeq(blocks) /\ \A b \in DOMAIN blocks : IsSeq(blocks[b])
    BY <1>3 DEF Blocks
  <2>2. DOMAIN blocks = 1..2 * n + 1 /\ Len(blocks) = 2 * n + 1
    BY <1>3, <1>4, <2>1 DEF IsSeq
  <2>3. after \in 1..2 * n + 1
    BY <1>1, <1>5, <1>6
  <2> HIDE DEF after
  <2> QED BY <2>1, <2>2, <2>3
<1>8. IsLevel(blocks[Level(depth)], depth) /\ Len(blocks[Level(depth)]) = IfPos(depth)
  BY <1>5, <1>3 DEF Emitted
<1>9. op = Terminator(depth)
  BY <1>1, <1>5, <1>6, <1>8 DEF Last, Terminator
<1> HIDE DEF op
<1>10. /\ IsSeq(text) /\ Len(text) = IfPos(depth) + 1
       /\ \A j \in 1..IfPos(depth) : text[j] = blocks[after][j]
       /\ text[IfPos(depth) + 1] = Terminator(depth)
  BY <1>6, <1>7, <1>8, <1>9, AppendIsSeq
<1> HIDE DEF text
<1>11. IsLevel(text, depth)
  <2>1. NumArgs \in {1, 3}
    BY <1>3, ArgsCount
  <2>2. /\ IfPos(depth) = Base(depth) + 2 * NumArgs + 1
        /\ Base(depth) = IF depth = 1 THEN 1 + NumArgs ELSE 0
    BY DEF IfPos, Base
  <2>3. depth = 1 => IsHeader(text)
    BY <1>6, <1>8, <1>10, <2>1, <2>2 DEF IsLevel, IsHeader
  <2>4. \A j \in 1..2 * NumArgs + 1 : text[Base(depth) + j] = blocks[after][Base(depth) + j]
    BY <1>10, <2>1, <2>2
  <2>5. IsTests(text, Level(depth), Base(depth), lengths[depth])
    BY <1>6, <1>8, <2>1, <2>4 DEF IsLevel, IsTests
  <2>6. text[IfPos(depth)] = blocks[after][IfPos(depth)]
    BY <1>10, <2>1, <2>2
  <2> QED BY <1>6, <1>8, <2>3, <2>5, <2>6 DEF IsLevel
<1>12. /\ IsSeq(blocks') /\ Len(blocks') = Len(blocks) /\ blocks'[after] = text
       /\ \A b \in 1..Len(blocks) : b # after => blocks'[b] = blocks[b]
  <2> DEFINE ended == [blocks EXCEPT ![after] = text]
  <2>1. blocks' = ended
    BY <1>2
  <2>2. IsSeq(blocks) /\ after \in 1..Len(blocks)
    BY <1>7
  <2> HIDE DEF after
  <2>3. /\ IsSeq(ended) /\ Len(ended) = Len(blocks) /\ ended[after] = text
        /\ \A b \in 1..Len(blocks) : b # after => ended[b] = blocks[b]
    BY <2>2, ExceptIsSeq
  <2> HIDE DEF ended
  <2> QED BY <2>1, <2>3
<1>13. Blocks'
  <2>1. DOMAIN blocks' = 1..Len(blocks)
    BY <1>12 DEF IsSeq
  <2>2. DOMAIN blocks = 1..Len(blocks)
    BY <1>7 DEF IsSeq
  <2> QED BY <1>3, <1>10, <1>12, <2>1, <2>2 DEF Blocks
<1>14. Emitted(n, depth - 1)'
  <2> SUFFICES ASSUME NEW i \in 1..n
               PROVE  /\ IsLevel(blocks[Level(i)], i)'
                      /\ IF i <= depth - 1
                           THEN Len(blocks'[Level(i)]) = IfPos(i)'
                           ELSE /\ Len(blocks'[Level(i)]) = IfPos(i)' + 1
                                /\ blocks'[Level(i)][IfPos(i)' + 1] = Terminator(i)'
                      /\ IsThen(blocks[Then(i)], i)'
    BY DEF Emitted, Level
  <2>1. /\ IsLevel(blocks[Level(i)], i)
        /\ IF i <= depth
             THEN Len(blocks[Level(i)]) = IfPos(i)
             ELSE /\ Len(blocks[Level(i)]) = IfPos(i) + 1
                  /\ blocks[Level(i)][IfPos(i) + 1] = Terminator(i)
        /\ IsThen(blocks[Then(i)], i)
    BY <1>3 DEF Emitted
  <2>2. blocks'[Then(i)] = blocks[Then(i)]
    <3>1. Then(i) \in 1..Len(blocks) /\ Then(i) # after
      BY <1>3, <1>4, <1>5, <1>6 DEF Then
    <3> QED BY <1>12, <3>1
  <2>3. IsThen(blocks[Then(i)], i)'
    BY <1>2, <2>1, <2>2, SameText
  <2>4. CASE i = depth
    <3>1. blocks'[Level(i)] = text
      BY <1>6, <1>12, <2>4
    <3>2. IsLevel(blocks[Level(i)], i)'
      BY <1>2, <1>11, <2>4, <3>1, SameText
    <3>3. ~ (i <= depth - 1)
      BY <1>5, <2>4
    <3> QED BY <1>2, <1>10, <2>3, <2>4, <3>1, <3>2, <3>3, SameText, SameEntry
  <2>5. CASE i # depth
    <3>1. blocks'[Level(i)] = blocks[Level(i)]
      BY <1>3, <1>4, <1>5, <1>6, <1>12, <2>5 DEF Level
    <3>2. IsLevel(blocks[Level(i)], i)'
      BY <1>2, <2>1, <3>1, SameText
    <3>3. i <= depth - 1 <=> i <= depth
      BY <1>5, <2>5
    <3> QED BY <1>2, <2>1, <2>3, <3>1, <3>2, <3>3, SameText, SameEntry
  <2> QED BY <2>4, <2>5
<1>15. /\ IsSeq(frames') /\ Len(frames') = depth - 1
       /\ \A j \in 1..depth - 1 : frames'[j] = frames[j]
  <2>1. IsSeq(frames)
    BY <1>3 DEF Frames
  <2>2. 1 \in 1..Len(frames) + 1 /\ depth - 1 \in 0..Len(frames) /\ 1 <= (depth - 1) + 1
    BY <1>1, <1>5
  <2>3. /\ IsSeq(SubSeq(frames, 1, depth - 1))
        /\ Len(SubSeq(frames, 1, depth - 1)) = (depth - 1) - 1 + 1
        /\ \A j \in 1..(depth - 1) - 1 + 1 : SubSeq(frames, 1, depth - 1)[j] = frames[1 + j - 1]
    BY <2>1, <2>2, SubSeqIsSeq
  <2> QED BY <1>2, <1>5, <2>3
<1>16. Frames'
  <2>1. DOMAIN frames' = 1..depth - 1 /\ DOMAIN frames = 1..depth
    BY <1>1, <1>3, <1>15 DEF IsSeq, Frames
  <2> QED BY <1>3, <1>5, <1>15, <2>1 DEF Frames, Level
<1>17. depth = 1 => frames' = <<>>
  BY <1>15, EmptyIsSeq, EqualSeqs
<1>18. depth > 1 => frames' # <<>>
  BY <1>5, <1>15, EmptyIsSeq
<1>19. IsFallback(blocks[Fallback])'
  <2>1. blocks'[Fallback] = blocks[Fallback] /\ Fallback' = Fallback
    BY <1>2, <1>3, <1>4, <1>5, <1>6, <1>12, SameEntry
  <2> QED BY <1>2, <1>3, <2>1, SameText
<1>20. NumLevels' = n /\ Len(blocks') = Fallback' /\ Emitted(NumLevels, Len(frames))'
  BY <1>1, <1>2, <1>3, <1>12, <1>14, <1>15, SameEntry
<1>21. Len(frames') <= n /\ Len(statics') = n
  BY <1>2, <1>3, <1>5, <1>15
<1> QED BY <1>2, <1>3, <1>5, <1>13, <1>16, <1>17, <1>18, <1>19, <1>20, <1>21 DEF EmitInv

LEMMA NextEmitInv == EmitInv /\ [Next]_vars => EmitInv'
<1>1. EmitInv /\ Emit => EmitInv'
  BY EmitCloneInv, EmitHeaderInv, EmitLevelInv, EmitFallbackInv, EmitReturnInv DEF Emit
<1>2. ASSUME EmitInv, UNCHANGED emitted,
             phase' = phase \/ {phase, phase'} \subseteq {"ready", "run"}
      PROVE  EmitInv'
  <2>1. Blocks' /\ Frames' /\ NumLevels' = NumLevels /\ Fallback' = Fallback
    BY <1>2 DEF emitted, EmitInv, Blocks, Frames, NumLevels, Fallback, Level
  <2> QED BY <1>2, <2>1, SameText, SameEntry DEF emitted, EmitInv, Emitted, Level, Then
<1>3. Invoke \/ Execute \/ UNCHANGED vars =>
        UNCHANGED emitted /\ (phase' = phase \/ {phase, phase'} \subseteq {"ready", "run"})
  BY DEF Invoke, Execute, vars, Constant, Dim, Compare, And, Branch, Cast, Call, Yield, Return
<1> QED BY <1>1, <1>2, <1>3 DEF Next

-----------------------------------------------------------------------------
\* A call: the text it runs.
LEMMA RunText ==
  ASSUME EmitInv, phase \in {"ready", "run"}
  PROVE  /\ kind \in EntryKinds /\ lengths \in LengthLists
         /\ NumArgs \in {1, 3} /\ NumLevels \in Nat \ {0}
         /\ Fallback = 2 * NumLevels + 1 /\ DOMAIN blocks = 1..Fallback
         /\ \A i \in 1..NumLevels :
              /\ IsLevel(blocks[Level(i)], i)
              /\ DOMAIN blocks[Level(i)] = 1..IfPos(i) + 1
              /\ Len(blocks[Level(i)]) = IfPos(i) + 1
              /\ blocks[Level(i)][IfPos(i) + 1] = Terminator(i)
              /\ IsThen(blocks[Then(i)], i)
              /\ DOMAIN blocks[Then(i)] = 1..ThenLen
         /\ IsFallback(blocks[Fallback]) /\ DOMAIN blocks[Fallback] = 1..2
<1>1. /\ kind \in EntryKinds /\ lengths \in LengthLists /\ frames = <<>>
      /\ Len(blocks) = Fallback /\ Emitted(NumLevels, Len(frames))
      /\ IsFallback(blocks[Fallback]) /\ Blocks
  BY DEF EmitInv
<1>2. PICK n \in Nat \ {0} : n = NumLevels
  BY <1>1, LengthsType
<1>3. Fallback = 2 * n + 1
  BY <1>2 DEF Fallback
<1>4. DOMAIN blocks = 1..Fallback /\ \A b \in 1..Fallback : IsSeq(blocks[b])
  BY <1>1, <1>3 DEF Blocks, IsSeq
<1>5. DOMAIN blocks[Fallback] = 1..2
  BY <1>1, <1>3, <1>4 DEF IsSeq, IsFallback
<1>6. NumArgs \in {1, 3}
  BY <1>1, ArgsCount
<1>7. Len(frames) = 0
  BY <1>1, EmptyIsSeq
<1>8. ASSUME NEW i \in 1..n
      PROVE  /\ IsLevel(blocks[Level(i)], i)
             /\ DOMAIN blocks[Level(i)] = 1..IfPos(i) + 1
             /\ Len(blocks[Level(i)]) = IfPos(i) + 1
             /\ blocks[Level(i)][IfPos(i) + 1] = Terminator(i)
             /\ IsThen(blocks[Then(i)], i)
             /\ DOMAIN blocks[Then(i)] = 1..ThenLen
  <2>1. Level(i) \in 1..Fallback /\ Then(i) \in 1..Fallback
    BY <1>3 DEF Level, Then
  <2>2. /\ IsLevel(blocks[Level(i)], i) /\ IsThen(blocks[Then(i)], i)
        /\ Len(blocks[Level(i)]) = IfPos(i) + 1
        /\ blocks[Level(i)][IfPos(i) + 1] = Terminator(i)
    BY <1>1, <1>2, <1>7 DEF Emitted
  <2>3. IsSeq(blocks[Level(i)]) /\ IsSeq(blocks[Then(i)])
    BY <1>4, <2>1
  <2> QED BY <2>2, <2>3 DEF IsSeq, IsThen
<1> QED BY <1>1, <1>2, <1>3, <1>4, <1>5, <1>6, <1>8

\* Levels, then regions and the fallback are different blocks.
LEMMA BlocksDiffer ==
  ASSUME NEW n \in Nat \ {0}, n = NumLevels
  PROVE  /\ \A i, k \in 1..n + 1 : Level(i) = Level(k) => i = k
         /\ \A i \in 1..n + 1, k \in 1..n : Level(i) # Then(k)
         /\ \A i, k \in 1..n : Then(i) = Then(k) => i = k
         /\ Level(n + 1) = Fallback /\ Level(1) = 1
  BY DEF Level, Then, Fallback

LEMMA ValueAt ==
  ASSUME NumLevels \in Nat \ {0}, NEW p, NEW x
  PROVE  /\ \A i \in 1..NumLevels :
              /\ Value(Level(i), p, x) <=> (i = 1 => HeaderValue(p, x)) /\ TestValue(i, p - Base(i), x)
              /\ Value(Then(i), p, x) <=> ThenValue(i, p, x)
         /\ Value(Fallback, p, x) <=> p = 1 /\ x = Result
<1>1. PICK n \in Nat \ {0} : n = NumLevels
  OBVIOUS
<1>2. /\ \A i, k \in 1..n + 1 : Level(i) = Level(k) => i = k
      /\ \A i \in 1..n + 1, k \in 1..n : Level(i) # Then(k)
      /\ \A i, k \in 1..n : Then(i) = Then(k) => i = k
      /\ Level(n + 1) = Fallback /\ Level(1) = 1
  BY <1>1, BlocksDiffer
<1>3. 1 \in 1..n /\ n + 1 \in 1..n + 1 /\ n + 1 \notin 1..n
      /\ \A i \in 1..n : i \in 1..n + 1 /\ i # n + 1
  OBVIOUS
<1>4. ASSUME NEW i \in 1..n
      PROVE  Value(Level(i), p, x) <=> (i = 1 => HeaderValue(p, x)) /\ TestValue(i, p - Base(i), x)
  BY <1>1, <1>2, <1>3 DEF Value
<1>5. ASSUME NEW i \in 1..n
      PROVE  Value(Then(i), p, x) <=> ThenValue(i, p, x)
  BY <1>1, <1>2, <1>3 DEF Value
<1>6. Value(Fallback, p, x) <=> p = 1 /\ x = Result
  BY <1>1, <1>2, <1>3 DEF Value
<1> QED BY <1>1, <1>4, <1>5, <1>6

\* A step of a call changes neither the text nor what the values mean.
LEMMA SameMeaning ==
  ASSUME UNCHANGED <<kind, lengths, blocks, widths>>
  PROVE  /\ NumLevels' = NumLevels /\ NumArgs' = NumArgs /\ NumInputs' = NumInputs
         /\ ThenLen' = ThenLen /\ Fallback' = Fallback
         /\ \A i : IfPos(i)' = IfPos(i) /\ Base(i)' = Base(i)
         /\ \A i : Matches(i)' <=> Matches(i)
         /\ \A i : Missed(i)' <=> Missed(i)
         /\ \A b, p, x : Value(b, p, x)' <=> Value(b, p, x)
         /\ R!CalleeFor(widths)' = R!CalleeFor(widths)
<1>1. /\ NumArgs' = NumArgs /\ NumInputs' = NumInputs /\ NumLevels' = NumLevels
      /\ ThenLen' = ThenLen /\ ResultIsStatic' = ResultIsStatic /\ Fallback' = Fallback
      /\ \A i : Base(i)' = Base(i) /\ IfPos(i)' = IfPos(i)
  BY SameEntry
<1>2. \A i : Matches(i)' <=> Matches(i)
  BY <1>1 DEF Matches
<1>3. \A i : Missed(i)' <=> Missed(i)
  BY <1>2 DEF Missed
<1>4. ASSUME NEW p, NEW x PROVE HeaderValue(p, x)' <=> HeaderValue(p, x)
  BY <1>1 DEF HeaderValue
<1>5. ASSUME NEW i, NEW j, NEW x PROVE TestValue(i, j, x)' <=> TestValue(i, j, x)
  <2>1. Matches(i)' <=> Matches(i)
    BY <1>2
  <2> QED BY <1>1, <2>1 DEF TestValue, Says, Result
<1>6. ASSUME NEW i, NEW p, NEW x PROVE ThenValue(i, p, x)' <=> ThenValue(i, p, x)
  BY <1>1, <1>2 DEF ThenValue, Result
<1>7. ASSUME NEW b, NEW p, NEW x PROVE Value(b, p, x)' <=> Value(b, p, x)
  BY <1>1, <1>4, <1>5, <1>6 DEF Value, Result, Level, Then
<1>8. R!CalleeFor(widths)' = R!CalleeFor(widths)
  BY DEF R!CalleeFor, R!AllEqual
<1> QED BY <1>1, <1>2, <1>3, <1>7, <1>8

-----------------------------------------------------------------------------
\* A call: where it is, and the operation it has reached.
AtHeader(p) ==
  /\ p \in 1..1 + NumArgs /\ pc = Val(1, p) /\ Testing(1, p)
  /\ Current = IF p = 1 THEN ConstantOp(kSequenceAxis) ELSE DimOp(Arg(p - 1), Val(1, 1))

AtTest(i, j) ==
  /\ j \in 1..2 * NumArgs + 1 /\ pc = Val(Level(i), Base(i) + j) /\ Testing(i, Base(i) + j)
  /\ j = 1 => Current = ConstantOp(lengths[i])
  /\ j = 2 => Current = CmpOp(SequenceLength(1), Val(Level(i), Base(i) + 1))
  /\ NumArgs = 3 =>
       /\ j = 3 => Current = CmpOp(SequenceLength(2), Val(Level(i), Base(i) + 1))
       /\ j = 4 => Current = AndOp(Val(Level(i), Base(i) + 2), Val(Level(i), Base(i) + 3))
       /\ j = 5 => Current = CmpOp(SequenceLength(3), Val(Level(i), Base(i) + 1))
       /\ j = 6 => Current = AndOp(Val(Level(i), Base(i) + 4), Val(Level(i), Base(i) + 5))
  /\ j = 2 * NumArgs + 1 =>
       Current = IfOp(Val(Level(i), Base(i) + 2 * NumArgs), Then(i), Level(i + 1))

AtThen(i, p) ==
  /\ pc = Val(Then(i), p) /\ Taking(i, p)
  /\ p \in 1..NumArgs => Current = CastOp(Arg(p), lengths[i])
  /\ p = NumArgs + 1 =>
       Current = CallOp(Static(lengths[i]),
                        [j \in 1..NumInputs |-> IF j <= NumArgs THEN Val(Then(i), j) ELSE Arg(j)])
  /\ p = NumArgs + 2 /\ ~ ResultIsStatic =>
       Current = CastOp(Val(Then(i), NumArgs + 1), Dyn)
  /\ p = ThenLen => Current = YieldOp(Val(Then(i), ThenLen - 1))

AtFallback(p) ==
  /\ pc = Val(Fallback, p) /\ FallingBack(p)
  /\ Current = IF p = 1 THEN CallOp(Generic, [j \in 1..NumInputs |-> Arg(j)])
                        ELSE YieldOp(Val(Fallback, 1))

AtEnd(i) ==
  /\ pc = Val(Level(i), IfPos(i) + 1) /\ GoingUp(i, IfPos(i) + 1)
  /\ Current = Terminator(i)

AtSomewhere ==
  \/ \E p \in 1..1 + NumArgs : AtHeader(p)
  \/ \E i \in 1..NumLevels : \E j \in 1..2 * NumArgs + 1 : AtTest(i, j)
  \/ \E i \in 1..NumLevels : \E p \in 1..ThenLen : AtThen(i, p)
  \/ \E p \in 1..2 : AtFallback(p)
  \/ \E i \in 1..NumLevels : AtEnd(i)

LEMMA Positions ==
  ASSUME EmitInv, RunInv, phase = "run" PROVE AtSomewhere
<1>1. pc \in Nat \X Nat /\ PcInv
  BY DEF RunInv
<1>2. pc = Val(pc[1], pc[2]) /\ Current = blocks[pc[1]][pc[2]]
  BY <1>1 DEF Val, Current
<1>3. NumArgs \in {1, 3} /\ NumLevels \in Nat \ {0}
  BY RunText
<1>4. ASSUME NEW i \in 1..NumLevels, pc[1] = Level(i), Testing(i, pc[2])
      PROVE  AtSomewhere
  <2> DEFINE p == pc[2]
  <2>1. /\ IsLevel(blocks[Level(i)], i) /\ p \in 1..IfPos(i)
        /\ IfPos(i) = Base(i) + 2 * NumArgs + 1
        /\ Base(i) = IF i = 1 THEN 1 + NumArgs ELSE 0
        /\ Current = blocks[Level(i)][p]
    BY <1>2, <1>4, RunText DEF Testing, IfPos, Base
  <2>2. pc = Val(Level(i), p)
    BY <1>2, <1>4
  <2>3. CASE p <= Base(i)
    <3>1. i = 1 /\ p \in 1..1 + NumArgs /\ Level(i) = 1
      BY <1>3, <2>1, <2>3 DEF Level
    <3>2. IsHeader(blocks[1])
      BY <2>1, <3>1 DEF IsLevel
    <3>3. Current = IF p = 1 THEN ConstantOp(kSequenceAxis) ELSE DimOp(Arg(p - 1), Val(1, 1))
      <4>1. CASE p = 1
        BY <2>1, <3>1, <3>2, <4>1 DEF IsHeader
      <4>2. CASE p # 1
        <5>1. p - 1 \in 1..NumArgs /\ 1 + (p - 1) = p
          BY <1>3, <3>1, <4>2
        <5>2. blocks[1][1 + (p - 1)] = DimOp(Arg(p - 1), Val(1, 1))
          BY <3>2, <5>1 DEF IsHeader
        <5> QED BY <2>1, <3>1, <4>2, <5>1, <5>2
      <4> QED BY <4>1, <4>2
    <3>4. AtHeader(p)
      BY <1>4, <2>2, <3>1, <3>3 DEF AtHeader
    <3> QED BY <3>1, <3>4 DEF AtSomewhere
  <2>4. CASE ~ (p <= Base(i))
    <3> DEFINE j == p - Base(i)
    <3>1. j \in 1..2 * NumArgs + 1 /\ p = Base(i) + j
      BY <1>3, <2>1, <2>4
    <3>2. Current = blocks[Level(i)][Base(i) + j]
      BY <2>1, <3>1
    <3>3. IsTests(blocks[Level(i)], Level(i), Base(i), lengths[i])
      BY <2>1 DEF IsLevel
    <3>4. blocks[Level(i)][Base(i) + (2 * NumArgs + 1)] =
            IfOp(Val(Level(i), Base(i) + 2 * NumArgs), Then(i), Level(i + 1))
      <4>1. Base(i) + (2 * NumArgs + 1) = IfPos(i)
        BY <1>3, <2>1
      <4> QED BY <2>1, <4>1 DEF IsLevel
    <3>5. pc = Val(Level(i), Base(i) + j) /\ Testing(i, Base(i) + j)
      BY <1>4, <2>2, <3>1
    <3> HIDE DEF j
    <3>6. AtTest(i, j)
      BY <3>1, <3>2, <3>3, <3>4, <3>5 DEF AtTest, IsTests
    <3> QED BY <3>1, <3>6 DEF AtSomewhere
  <2> QED BY <2>3, <2>4
<1>5. ASSUME NEW i \in 1..NumLevels, pc[1] = Level(i), GoingUp(i, pc[2])
      PROVE  AtSomewhere
  <2>1. pc[2] = IfPos(i) + 1 /\ blocks[Level(i)][IfPos(i) + 1] = Terminator(i)
    BY <1>5, RunText DEF GoingUp
  <2>2. AtEnd(i)
    BY <1>2, <1>5, <2>1 DEF AtEnd
  <2> QED BY <2>2 DEF AtSomewhere
<1>6. ASSUME NEW i \in 1..NumLevels, pc[1] = Then(i), Taking(i, pc[2])
      PROVE  AtSomewhere
  <2>1. IsThen(blocks[Then(i)], i) /\ pc[2] \in 1..ThenLen
    BY <1>6, RunText DEF Taking
  <2>2. Current = blocks[Then(i)][pc[2]] /\ pc = Val(Then(i), pc[2])
    BY <1>2, <1>6
  <2>3. AtThen(i, pc[2])
    BY <1>6, <2>1, <2>2 DEF AtThen, IsThen
  <2> QED BY <2>1, <2>3 DEF AtSomewhere
<1>7. ASSUME pc[1] = Fallback, FallingBack(pc[2])
      PROVE  AtSomewhere
  <2>1. pc[2] \in 1..2 /\ IsFallback(blocks[Fallback])
    BY <1>7, RunText DEF FallingBack
  <2>2. AtFallback(pc[2])
    BY <1>2, <1>7, <2>1 DEF AtFallback, IsFallback
  <2> QED BY <2>1, <2>2 DEF AtSomewhere
<1> QED BY <1>1, <1>4, <1>5, <1>6, <1>7 DEF PcInv

\* The name of the operation tells where a call is.
LEMMA Names ==
  ASSUME EmitInv, RunInv, phase = "run"
  PROVE  /\ \A p \in 1..1 + NumArgs : AtHeader(p) =>
              Current.name = IF p = 1 THEN "arith.constant" ELSE "tensor.dim"
         /\ \A i \in 1..NumLevels : \A j \in 1..2 * NumArgs + 1 : AtTest(i, j) =>
              Current.name = CASE j = 1 -> "arith.constant"
                               [] j = 2 * NumArgs + 1 -> "scf.if"
                               [] j \in {2, 3, 5} /\ j # 2 * NumArgs + 1 -> "arith.cmpi"
                               [] j \in {4, 6} -> "arith.andi"
         /\ \A i \in 1..NumLevels : \A p \in 1..ThenLen : AtThen(i, p) =>
              Current.name = CASE p = NumArgs + 1 -> "func.call"
                               [] p = ThenLen -> "scf.yield"
                               [] p # NumArgs + 1 /\ p # ThenLen -> "tensor.cast"
         /\ \A p \in 1..2 : AtFallback(p) =>
              Current.name = IF p = 1 THEN "func.call" ELSE "scf.yield"
         /\ \A i \in 1..NumLevels : AtEnd(i) =>
              Current.name = IF i = 1 THEN "func.return" ELSE "scf.yield"
<1>1. NumArgs \in {1, 3}
  BY RunText
<1>2. ASSUME NEW p \in 1..1 + NumArgs, AtHeader(p)
      PROVE  Current.name = IF p = 1 THEN "arith.constant" ELSE "tensor.dim"
  BY <1>2 DEF AtHeader, ConstantOp, DimOp
<1>3. ASSUME NEW i \in 1..NumLevels, NEW j \in 1..2 * NumArgs + 1, AtTest(i, j)
      PROVE  Current.name = CASE j = 1 -> "arith.constant"
                               [] j = 2 * NumArgs + 1 -> "scf.if"
                               [] j \in {2, 3, 5} /\ j # 2 * NumArgs + 1 -> "arith.cmpi"
                               [] j \in {4, 6} -> "arith.andi"
  BY <1>1, <1>3 DEF AtTest, ConstantOp, CmpOp, AndOp, IfOp
<1>4. ASSUME NEW i \in 1..NumLevels, NEW p \in 1..ThenLen, AtThen(i, p)
      PROVE  Current.name = CASE p = NumArgs + 1 -> "func.call"
                               [] p = ThenLen -> "scf.yield"
                               [] p # NumArgs + 1 /\ p # ThenLen -> "tensor.cast"
  BY <1>1, <1>4 DEF AtThen, CastOp, CallOp, YieldOp, ThenLen
<1>5. ASSUME NEW p \in 1..2, AtFallback(p)
      PROVE  Current.name = IF p = 1 THEN "func.call" ELSE "scf.yield"
  BY <1>5 DEF AtFallback, CallOp, YieldOp
<1>6. ASSUME NEW i \in 1..NumLevels, AtEnd(i)
      PROVE  Current.name = IF i = 1 THEN "func.return" ELSE "scf.yield"
  BY <1>6 DEF AtEnd, Terminator, ReturnOp, YieldOp
<1> QED BY <1>2, <1>3, <1>4, <1>5, <1>6

-----------------------------------------------------------------------------
\* A call: an operation defines its value and the next one is reached.
LEMMA DefineInv ==
  ASSUME EnvInv, UNCHANGED <<kind, lengths, blocks, widths>>,
         NEW b \in Nat, NEW p \in Nat, b \in DOMAIN blocks, p \in DOMAIN blocks[b],
         NEW x, Value(b, p, x), Define(Val(b, p), x)
  PROVE  /\ EnvInv' /\ DOMAIN env' = DOMAIN env \cup {Val(b, p)}
         /\ \A c, n : Defined(c, n) => Defined(c, n)'
         /\ Defined(b, p - 1) => Defined(b, p)'
<1>1. /\ DOMAIN env' = DOMAIN env \cup {Val(b, p)}
      /\ env'[Val(b, p)] = x
      /\ \A v \in DOMAIN env : v # Val(b, p) => env'[v] = env[v]
  BY DEF Define
<1>2. ASSUME NEW v \in DOMAIN env'
      PROVE  /\ v \in Nat \X Nat /\ v[1] \in DOMAIN blocks' /\ v[2] \in DOMAIN blocks'[v[1]]
             /\ Value(v[1], v[2], env[v])'
  <2>1. CASE v = Val(b, p)
    <3>1. v \in Nat \X Nat /\ v[1] = b /\ v[2] = p
      BY <2>1 DEF Val
    <3>2. Value(b, p, x)'
      BY SameMeaning
    <3>3. Value(v[1], v[2], env[v])'
      BY <1>1, <2>1, <3>1, <3>2
    <3> QED BY <3>1, <3>3, <2>1
  <2>2. CASE v # Val(b, p)
    <3>1. v \in DOMAIN env /\ env'[v] = env[v]
      BY <1>1, <1>2, <2>2
    <3>2. /\ v \in Nat \X Nat /\ v[1] \in DOMAIN blocks /\ v[2] \in DOMAIN blocks[v[1]]
          /\ Value(v[1], v[2], env[v])
      BY <3>1 DEF EnvInv
    <3>3. Value(v[1], v[2], env[v])'
      <4>1. Value(v[1], v[2], env[v])'  <=> Value(v[1], v[2], env'[v])
        BY SameMeaning
      <4> QED BY <3>1, <3>2, <4>1
    <3> QED BY <3>2, <3>3
  <2> QED BY <2>1, <2>2
<1>3. EnvInv'
  BY <1>2 DEF EnvInv
<1>4. ASSUME NEW c, NEW n, Defined(c, n) PROVE Defined(c, n)'
  BY <1>1, <1>4 DEF Defined
<1>5. ASSUME Defined(b, p - 1) PROVE Defined(b, p)'
  BY <1>1, <1>5 DEF Defined
<1> QED BY <1>1, <1>3, <1>4, <1>5

LEMMA TestStep ==
  ASSUME EmitInv, RunInv, phase = "run", NEW i \in 1..NumLevels, NEW p \in 1..IfPos(i) - 1,
         pc = Val(Level(i), p), Testing(i, p), NEW x, i = 1 => HeaderValue(p, x),
         TestValue(i, p - Base(i), x), Define(pc, x), Forward,
         UNCHANGED <<phase, emitted, widths, callee, operands>>
  PROVE  RunInv'
<1>1. UNCHANGED <<kind, lengths, blocks, widths>>
  BY DEF emitted
<1>2. /\ NumLevels \in Nat \ {0} /\ NumArgs \in {1, 3}
      /\ DOMAIN blocks = 1..Fallback /\ Fallback = 2 * NumLevels + 1
      /\ DOMAIN blocks[Level(i)] = 1..IfPos(i) + 1
  BY RunText
<1>3. IfPos(i) \in Nat /\ Level(i) \in Nat /\ Level(i) \in DOMAIN blocks /\ p \in Nat
      /\ p \in DOMAIN blocks[Level(i)] /\ p + 1 \in 1..IfPos(i) /\ (p + 1) - 1 = p
  BY <1>2 DEF Level, IfPos, Base
<1>4. Value(Level(i), p, x)
  BY <1>2, ValueAt
<1>5. EnvInv /\ OperandsInv /\ widths \in [1..NumArgs -> Widths]
  BY DEF RunInv
<1>6. Define(Val(Level(i), p), x)
  OBVIOUS
<1>7. /\ EnvInv' /\ (Defined(Level(i), p - 1) => Defined(Level(i), p)')
      /\ \A c, n : Defined(c, n) => Defined(c, n)'
  BY <1>1, <1>3, <1>4, <1>5, <1>6, DefineInv
<1>8. Testing(i, p + 1)'
  <2>1. Missed(i)' /\ NotCalled'
    BY <1>1, SameMeaning DEF Testing, NotCalled
  <2>2. Defined(Level(i), p + 1 - 1)'
    BY <1>3, <1>7 DEF Testing, Level, Defined
  <2>3. i > 1 => Defined(1, 1 + NumArgs)'
    BY <1>1, <1>7, SameMeaning DEF Testing
  <2>4. p + 1 \in 1..IfPos(i)'
    BY <1>1, <1>3, SameMeaning
  <2> QED BY <2>1, <2>2, <2>3, <2>4 DEF Testing
<1>9. pc' = Val(Level(i), p + 1) /\ pc'[1] = Level(i) /\ pc'[2] = p + 1 /\ pc' \in Nat \X Nat
  BY <1>3 DEF Forward, Val
<1>10. PcInv'
  BY <1>1, <1>8, <1>9, SameMeaning DEF PcInv, Level
<1>11. OperandsInv'
  BY <1>1, <1>5, SameMeaning DEF OperandsInv, Static, Generic, NoCallee, emitted
<1> QED BY <1>1, <1>5, <1>7, <1>9, <1>10, <1>11, SameMeaning DEF RunInv

LEMMA ThenStep ==
  ASSUME EmitInv, RunInv, phase = "run", NEW i \in 1..NumLevels, NEW p \in 1..ThenLen - 1,
         pc = Val(Then(i), p), Taking(i, p), NEW x, ThenValue(i, p, x),
         Define(pc, x), Forward, UNCHANGED <<phase, emitted, widths>>,
         OperandsInv', IF p <= NumArgs THEN NotCalled' ELSE Called(Static(lengths[i]))'
  PROVE  RunInv'
<1>1. UNCHANGED <<kind, lengths, blocks, widths>>
  BY DEF emitted
<1>2. /\ NumLevels \in Nat \ {0} /\ NumArgs \in {1, 3}
      /\ DOMAIN blocks = 1..Fallback /\ Fallback = 2 * NumLevels + 1
      /\ DOMAIN blocks[Then(i)] = 1..ThenLen
  BY RunText
<1>3. ThenLen \in Nat /\ Then(i) \in Nat /\ Then(i) \in DOMAIN blocks /\ p \in Nat
      /\ p \in DOMAIN blocks[Then(i)] /\ p + 1 \in 1..ThenLen /\ (p + 1) - 1 = p
      /\ (p + 1 <= NumArgs + 1 <=> p <= NumArgs)
  <2>1. ThenLen \in Nat /\ p \in 1..ThenLen - 1
    BY <1>2 DEF ThenLen
  <2>2. Then(i) \in Nat /\ Then(i) \in 1..Fallback
    BY <1>2 DEF Then
  <2> QED BY <1>2, <2>1, <2>2
<1>4. Value(Then(i), p, x)
  BY <1>2, ValueAt
<1>5. EnvInv /\ OperandsInv /\ widths \in [1..NumArgs -> Widths]
  BY DEF RunInv
<1>6. Define(Val(Then(i), p), x)
  OBVIOUS
<1>7. EnvInv' /\ (Defined(Then(i), p - 1) => Defined(Then(i), p)')
  BY <1>1, <1>3, <1>4, <1>5, <1>6, DefineInv
<1>8. Taking(i, p + 1)'
  BY <1>1, <1>3, <1>7, SameMeaning DEF Taking, Then
<1>9. pc' = Val(Then(i), p + 1) /\ pc'[1] = Then(i) /\ pc'[2] = p + 1 /\ pc' \in Nat \X Nat
  BY <1>3 DEF Forward, Val
<1>10. PcInv'
  BY <1>1, <1>8, <1>9, SameMeaning DEF PcInv, Then
<1> QED BY <1>1, <1>5, <1>7, <1>9, <1>10, SameMeaning DEF RunInv

\* A call: what an operation reads.
LEMMA Reads ==
  ASSUME EmitInv, RunInv, phase = "run"
  PROVE  /\ Val(1, 1) \in DOMAIN env => Read(Val(1, 1)) = kSequenceAxis
         /\ \A a \in 1..NumArgs :
              SequenceLength(a) \in DOMAIN env => Read(SequenceLength(a)) = widths[a]
         /\ \A i \in 1..NumLevels : \A q \in 1..IfPos(i) :
              Val(Level(i), q) \in DOMAIN env => TestValue(i, q - Base(i), Read(Val(Level(i), q)))
         /\ \A i \in 1..NumLevels : \A q \in 1..ThenLen :
              Val(Then(i), q) \in DOMAIN env => ThenValue(i, q, Read(Val(Then(i), q)))
         /\ Val(Fallback, 1) \in DOMAIN env => Read(Val(Fallback, 1)) = Result
         /\ \A a : Read(Arg(a)) = [from |-> a, width |-> Dyn]
<1>1. NumLevels \in Nat \ {0} /\ NumArgs \in {1, 3} /\ EnvInv /\ Fallback = 2 * NumLevels + 1
  BY RunText DEF RunInv
<1>2. ASSUME NEW b, NEW q, Val(b, q) \in DOMAIN env, b # 0
      PROVE  Read(Val(b, q)) = env[Val(b, q)] /\ Value(b, q, Read(Val(b, q)))
  <2>1. Val(b, q)[1] = b /\ Val(b, q)[2] = q
    BY DEF Val
  <2>2. Read(Val(b, q)) = env[Val(b, q)]
    BY <1>2, <2>1 DEF Read
  <2> QED BY <1>1, <1>2, <2>1, <2>2 DEF EnvInv
<1>3. ASSUME NEW q, Val(1, q) \in DOMAIN env PROVE HeaderValue(q, Read(Val(1, q)))
  BY <1>2, <1>3 DEF Value
<1>4. Val(1, 1) \in DOMAIN env => Read(Val(1, 1)) = kSequenceAxis
  BY <1>3 DEF HeaderValue
<1>5. ASSUME NEW a \in 1..NumArgs, SequenceLength(a) \in DOMAIN env
      PROVE  Read(SequenceLength(a)) = widths[a]
  <2>1. SequenceLength(a) = Val(1, 1 + a) /\ 1 + a \in 2..1 + NumArgs /\ (1 + a) - 1 = a
    BY <1>1 DEF SequenceLength
  <2> QED BY <1>3, <1>5, <2>1 DEF HeaderValue
<1>6. ASSUME NEW i \in 1..NumLevels, NEW q \in 1..IfPos(i), Val(Level(i), q) \in DOMAIN env
      PROVE  TestValue(i, q - Base(i), Read(Val(Level(i), q)))
  <2>1. Level(i) # 0
    BY <1>1 DEF Level
  <2>2. Value(Level(i), q, Read(Val(Level(i), q)))
    BY <1>2, <1>6, <2>1
  <2> QED BY <1>1, <2>2, ValueAt
<1>7. ASSUME NEW i \in 1..NumLevels, NEW q \in 1..ThenLen, Val(Then(i), q) \in DOMAIN env
      PROVE  ThenValue(i, q, Read(Val(Then(i), q)))
  <2>1. Then(i) # 0
    BY <1>1 DEF Then
  <2>2. Value(Then(i), q, Read(Val(Then(i), q)))
    BY <1>2, <1>7, <2>1
  <2> QED BY <1>1, <2>2, ValueAt
<1>8. Val(Fallback, 1) \in DOMAIN env => Read(Val(Fallback, 1)) = Result
  BY <1>1, <1>2, ValueAt
<1>9. \A a : Read(Arg(a)) = [from |-> a, width |-> Dyn]
  BY DEF Read, Arg
<1> QED BY <1>4, <1>5, <1>6, <1>7, <1>8, <1>9

\* The tests of a level start behind the widths.
LEMMA WidthsKnown ==
  ASSUME EmitInv, RunInv, phase = "run", NEW i \in 1..NumLevels, NEW p \in Nat,
         p > Base(i), Testing(i, p)
  PROVE  Defined(1, 1 + NumArgs)
<1>1. NumArgs \in {1, 3} /\ (i = 1 => Level(i) = 1 /\ Base(i) = 1 + NumArgs) /\ i \in Nat
  BY RunText DEF Level, Base
<1>2. CASE i > 1
  BY <1>2 DEF Testing
<1>3. CASE i = 1
  BY <1>1, <1>3 DEF Testing, Defined
<1> QED BY <1>1, <1>2, <1>3

-----------------------------------------------------------------------------
\* A call: every operation keeps the invariant.
LEMMA InvokeInv == EmitInv /\ RunInv /\ Invoke => RunInv'
<1> SUFFICES ASSUME EmitInv, RunInv, Invoke PROVE RunInv'
  OBVIOUS
<1>1. /\ phase = "ready" /\ phase' = "run" /\ widths' \in [1..NumArgs -> Widths]
      /\ pc' = Val(1, 1) /\ env' = <<>> /\ callee' = callee /\ operands' = operands
      /\ kind' = kind /\ lengths' = lengths /\ blocks' = blocks
  BY DEF Invoke, emitted
<1>2. callee = NoCallee /\ operands = <<>>
  BY <1>1 DEF RunInv
<1>3. NotCalled'
  BY <1>1, <1>2 DEF NotCalled, NoCallee
<1>4. DOMAIN env' = {}
  BY <1>1
<1>5. NumArgs' = NumArgs /\ NumLevels' = NumLevels /\ IfPos(1)' = IfPos(1)
  BY <1>1, SameEntry
<1>6. NumLevels \in Nat \ {0} /\ NumArgs \in {1, 3}
  BY LengthsType, ArgsCount DEF EmitInv
<1>7. Testing(1, 1)'
  <2>1. 1 \in 1..IfPos(1)'
    BY <1>5, <1>6 DEF IfPos, Base
  <2> QED BY <1>3, <2>1 DEF Testing, Missed, Defined
<1>8. pc'[1] = Level(1)' /\ pc'[2] = 1 /\ pc' \in Nat \X Nat
  BY <1>1 DEF Level, Val
<1>9. PcInv'
  <2>1. 1 \in 1..NumLevels'
    BY <1>5, <1>6
  <2> QED BY <1>7, <1>8, <2>1 DEF PcInv
<1>10. EnvInv' /\ OperandsInv'
  BY <1>3, <1>4 DEF EnvInv, OperandsInv, NotCalled
<1> QED BY <1>1, <1>5, <1>8, <1>9, <1>10 DEF RunInv

LEMMA ConstantInv == EmitInv /\ RunInv /\ Constant => RunInv'
<1> SUFFICES ASSUME EmitInv, RunInv, Constant PROVE RunInv'
  OBVIOUS
<1>1. /\ phase = "run" /\ Current.name = "arith.constant" /\ Define(pc, Current.value) /\ Forward
      /\ UNCHANGED <<phase, emitted, widths, callee, operands>>
  BY DEF Constant
<1>2. NumArgs \in {1, 3} /\ NumLevels \in Nat \ {0} /\ AtSomewhere
  BY <1>1, RunText, Positions
<1>3. CASE AtHeader(1)
  <2>1. /\ 1 \in 1..NumLevels /\ 1 \in 1..IfPos(1) - 1 /\ Level(1) = 1
        /\ pc = Val(Level(1), 1) /\ Testing(1, 1) /\ Current.value = kSequenceAxis
        /\ 1 - Base(1) < 1
    BY <1>2, <1>3 DEF AtHeader, Level, IfPos, Base, ConstantOp
  <2>2. HeaderValue(1, Current.value) /\ TestValue(1, 1 - Base(1), Current.value)
    BY <1>2, <2>1 DEF HeaderValue, TestValue, Base
  <2> QED BY <1>1, <2>1, <2>2, TestStep
<1>4. ASSUME NEW i \in 1..NumLevels, AtTest(i, 1) PROVE RunInv'
  <2>1. /\ Base(i) + 1 \in 1..IfPos(i) - 1 /\ (Base(i) + 1) - Base(i) = 1
        /\ pc = Val(Level(i), Base(i) + 1) /\ Testing(i, Base(i) + 1) /\ Current.value = lengths[i]
    BY <1>2, <1>4 DEF AtTest, IfPos, Base, ConstantOp
  <2>2. i = 1 => HeaderValue(Base(i) + 1, Current.value)
    BY <1>2 DEF HeaderValue, Base
  <2>3. TestValue(i, (Base(i) + 1) - Base(i), Current.value)
    BY <1>2, <2>1 DEF TestValue
  <2> QED BY <1>1, <2>1, <2>2, <2>3, TestStep
<1>5. AtHeader(1) \/ \E i \in 1..NumLevels : AtTest(i, 1)
  BY <1>1, <1>2, Names DEF AtSomewhere
<1> QED BY <1>3, <1>4, <1>5

LEMMA DimInv == EmitInv /\ RunInv /\ Dim => RunInv'
<1> SUFFICES ASSUME EmitInv, RunInv, Dim PROVE RunInv'
  OBVIOUS
<1> DEFINE x == IF Read(Current.axis) = kSequenceAxis
                  THEN widths[Read(Current.src).from] ELSE kBatch
<1>1. /\ phase = "run" /\ Current.name = "tensor.dim" /\ Define(pc, x) /\ Forward
      /\ UNCHANGED <<phase, emitted, widths, callee, operands>>
  BY DEF Dim
<1>2. NumArgs \in {1, 3} /\ NumLevels \in Nat \ {0} /\ AtSomewhere
  BY <1>1, RunText, Positions
<1>3. PICK p \in 2..1 + NumArgs : AtHeader(p)
  BY <1>1, <1>2, Names DEF AtSomewhere
<1>4. /\ 1 \in 1..NumLevels /\ p \in 1..IfPos(1) - 1 /\ Level(1) = 1
      /\ pc = Val(Level(1), p) /\ Testing(1, p) /\ p - Base(1) < 1
      /\ Current.src = Arg(p - 1) /\ Current.axis = Val(1, 1)
  BY <1>2, <1>3 DEF AtHeader, Level, IfPos, Base, DimOp
<1>5. Val(1, 1) \in DOMAIN env
  BY <1>2, <1>3, <1>4 DEF Testing, Defined
<1>6. x = widths[p - 1]
  BY <1>1, <1>4, <1>5, Reads
<1> HIDE DEF x
<1>7. HeaderValue(p, x) /\ TestValue(1, p - Base(1), x)
  BY <1>2, <1>3, <1>4, <1>6 DEF HeaderValue, TestValue, Base
<1> QED BY <1>1, <1>4, <1>7, TestStep

LEMMA CompareInv == EmitInv /\ RunInv /\ Compare => RunInv'
<1> SUFFICES ASSUME EmitInv, RunInv, Compare PROVE RunInv'
  OBVIOUS
<1> DEFINE x == Read(Current.lhs) = Read(Current.rhs)
<1>1. /\ phase = "run" /\ Current.name = "arith.cmpi" /\ Define(pc, x) /\ Forward
      /\ UNCHANGED <<phase, emitted, widths, callee, operands>>
  BY DEF Compare
<1>2. NumArgs \in {1, 3} /\ NumLevels \in Nat \ {0} /\ AtSomewhere
  BY <1>1, RunText, Positions
<1>3. PICK i \in 1..NumLevels, j \in 1..2 * NumArgs : AtTest(i, j) /\ j \in {2, 3, 5}
  BY <1>1, <1>2, Names DEF AtSomewhere
<1>4. PICK a \in 1..NumArgs : j = IF a = 1 THEN 2 ELSE 2 * a - 1
  <2>1. CASE j = 2
    BY <1>2, <2>1
  <2>2. CASE j = 3
    <3>1. 2 \in 1..NumArgs
      BY <1>2, <1>3, <2>2
    <3> QED BY <2>2, <3>1
  <2>3. CASE j = 5
    <3>1. 3 \in 1..NumArgs
      BY <1>2, <1>3, <2>3
    <3> QED BY <2>3, <3>1
  <2> QED BY <1>3, <2>1, <2>2, <2>3
<1>5. /\ Base(i) + j \in 1..IfPos(i) - 1 /\ (Base(i) + j) - Base(i) = j
      /\ pc = Val(Level(i), Base(i) + j) /\ Testing(i, Base(i) + j)
      /\ Base(i) + j \in Nat /\ Base(i) + j > Base(i) /\ Base(i) + 1 \in 1..(Base(i) + j) - 1
      /\ Base(i) + 1 \in 1..IfPos(i) /\ (Base(i) + 1) - Base(i) = 1
  BY <1>2, <1>3 DEF AtTest, IfPos, Base
<1>6. Current.lhs = SequenceLength(a) /\ Current.rhs = Val(Level(i), Base(i) + 1)
  BY <1>2, <1>3, <1>4 DEF AtTest, CmpOp
<1>7. Read(Current.lhs) = widths[a]
  <2>1. Defined(1, 1 + NumArgs) /\ 1 + a \in 1..1 + NumArgs
    BY <1>1, <1>2, <1>5, WidthsKnown
  <2>2. SequenceLength(a) \in DOMAIN env
    BY <2>1 DEF Defined, SequenceLength
  <2> QED BY <1>1, <1>6, <2>2, Reads
<1>8. Read(Current.rhs) = lengths[i]
  <2>1. Val(Level(i), Base(i) + 1) \in DOMAIN env
    BY <1>5 DEF Testing, Defined
  <2>2. TestValue(i, 1, Read(Current.rhs))
    BY <1>1, <1>5, <1>6, <2>1, Reads
  <2> QED BY <2>2 DEF TestValue
<1>9. Says(x, widths[a] = lengths[i])
  BY <1>7, <1>8 DEF Says
<1>10. NumArgs = 1 => (Matches(i) <=> widths[1] = lengths[i])
  BY DEF Matches
<1> HIDE DEF x
<1>11. TestValue(i, j, x)
  BY <1>2, <1>3, <1>4, <1>9, <1>10 DEF TestValue, Says
<1>12. i = 1 => HeaderValue(Base(i) + j, x)
  BY <1>2, <1>3 DEF HeaderValue, Base
<1> QED BY <1>1, <1>5, <1>11, <1>12, TestStep

LEMMA AndInv == EmitInv /\ RunInv /\ And => RunInv'
<1> SUFFICES ASSUME EmitInv, RunInv, And PROVE RunInv'
  OBVIOUS
<1> DEFINE x == Read(Current.lhs) /\ Read(Current.rhs)
<1>1. /\ phase = "run" /\ Current.name = "arith.andi" /\ Define(pc, x) /\ Forward
      /\ UNCHANGED <<phase, emitted, widths, callee, operands>>
  BY DEF And
<1>2. NumArgs \in {1, 3} /\ NumLevels \in Nat \ {0} /\ AtSomewhere
  BY <1>1, RunText, Positions
<1>3. PICK i \in 1..NumLevels, j \in 1..2 * NumArgs : AtTest(i, j) /\ j \in {4, 6} /\ NumArgs = 3
  BY <1>1, <1>2, Names DEF AtSomewhere
<1>4. /\ Base(i) + j \in 1..IfPos(i) - 1 /\ (Base(i) + j) - Base(i) = j
      /\ pc = Val(Level(i), Base(i) + j) /\ Testing(i, Base(i) + j)
      /\ Base(i) + (j - 2) \in 1..IfPos(i) /\ (Base(i) + (j - 2)) - Base(i) = j - 2
      /\ Base(i) + (j - 1) \in 1..IfPos(i) /\ (Base(i) + (j - 1)) - Base(i) = j - 1
      /\ Base(i) + (j - 2) \in 1..(Base(i) + j) - 1
      /\ Base(i) + (j - 1) \in 1..(Base(i) + j) - 1
  BY <1>2, <1>3 DEF AtTest, IfPos, Base
<1>5. /\ Current.lhs = Val(Level(i), Base(i) + (j - 2))
      /\ Current.rhs = Val(Level(i), Base(i) + (j - 1))
  BY <1>2, <1>3 DEF AtTest, AndOp
<1>6. Current.lhs \in DOMAIN env /\ Current.rhs \in DOMAIN env
  BY <1>4, <1>5 DEF Testing, Defined
<1>7. TestValue(i, j - 2, Read(Current.lhs)) /\ TestValue(i, j - 1, Read(Current.rhs))
  BY <1>1, <1>4, <1>5, <1>6, Reads
<1>8. /\ j = 4 => /\ Says(Read(Current.lhs), widths[1] = lengths[i])
                  /\ Says(Read(Current.rhs), widths[2] = lengths[i])
      /\ j = 6 => /\ Says(Read(Current.lhs), widths[1] = lengths[i] /\ widths[2] = lengths[i])
                  /\ Says(Read(Current.rhs), widths[3] = lengths[i])
  BY <1>3, <1>7 DEF TestValue
<1>9. /\ j = 4 => Says(x, widths[1] = lengths[i] /\ widths[2] = lengths[i])
      /\ j = 6 => Says(x, widths[1] = lengths[i] /\ widths[2] = lengths[i] /\ widths[3] = lengths[i])
  BY <1>8 DEF Says
<1>10. Matches(i) <=> widths[1] = lengths[i] /\ widths[2] = lengths[i] /\ widths[3] = lengths[i]
  <2>1. \A a \in 1..NumArgs : a = 1 \/ a = 2 \/ a = 3
    BY <1>3
  <2>2. 1 \in 1..NumArgs /\ 2 \in 1..NumArgs /\ 3 \in 1..NumArgs
    BY <1>3
  <2> QED BY <2>1, <2>2 DEF Matches
<1> HIDE DEF x
<1>11. TestValue(i, j, x)
  BY <1>3, <1>9, <1>10 DEF TestValue, Says
<1>12. i = 1 => HeaderValue(Base(i) + j, x)
  BY <1>2, <1>3 DEF HeaderValue, Base
<1> QED BY <1>1, <1>4, <1>11, <1>12, TestStep

LEMMA BranchInv == EmitInv /\ RunInv /\ Branch => RunInv'
<1> SUFFICES ASSUME EmitInv, RunInv, Branch PROVE RunInv'
  OBVIOUS
<1>1. /\ phase = "run" /\ Current.name = "scf.if"
      /\ pc' = Val(IF Read(Current.cond) THEN Current.then ELSE Current.else, 1)
      /\ UNCHANGED <<phase, emitted, widths, env, callee, operands>>
  BY DEF Branch
<1>2. NumArgs \in {1, 3} /\ NumLevels \in Nat \ {0} /\ AtSomewhere
  BY <1>1, RunText, Positions
<1>3. PICK i \in 1..NumLevels : AtTest(i, 2 * NumArgs + 1)
  <2>1. \A j \in 1..2 * NumArgs + 1 : j = 1 \/ j \in {2, 3, 5} \/ j \in {4, 6} \/ j = 2 * NumArgs + 1
    BY <1>2
  <2> QED BY <1>1, <1>2, <2>1, Names DEF AtSomewhere
<1>4. UNCHANGED <<kind, lengths, blocks, widths>>
  BY <1>1 DEF emitted
<1>5. /\ Base(i) + (2 * NumArgs + 1) = IfPos(i) /\ IfPos(i) \in Nat /\ IfPos(i) > Base(i)
      /\ Base(i) + 2 * NumArgs \in 1..IfPos(i) /\ (Base(i) + 2 * NumArgs) - Base(i) = 2 * NumArgs
      /\ Base(i) + 2 * NumArgs \in 1..IfPos(i) - 1
  BY <1>2 DEF IfPos, Base
<1>6. Testing(i, IfPos(i))
  BY <1>3, <1>5 DEF AtTest
<1>7. Defined(1, 1 + NumArgs)
  BY <1>1, <1>5, <1>6, WidthsKnown
<1>8. /\ Current.cond = Val(Level(i), Base(i) + 2 * NumArgs)
      /\ Current.then = Then(i) /\ Current.else = Level(i + 1)
  BY <1>2, <1>3 DEF AtTest, IfOp
<1>9. Says(Read(Current.cond), Matches(i))
  <2>1. Current.cond \in DOMAIN env
    BY <1>5, <1>6, <1>8 DEF Testing, Defined
  <2>2. TestValue(i, 2 * NumArgs, Read(Current.cond))
    BY <1>1, <1>5, <1>8, <2>1, Reads
  <2> QED BY <2>2 DEF TestValue
<1>10. Missed(i) /\ NotCalled
  BY <1>6 DEF Testing
<1>11. NotCalled'
  BY <1>1, <1>10 DEF NotCalled
<1>12. EnvInv' /\ OperandsInv' /\ widths' \in [1..NumArgs' -> Widths]
  <2>1. EnvInv /\ OperandsInv /\ widths \in [1..NumArgs -> Widths]
    BY <1>1 DEF RunInv
  <2>2. ASSUME NEW v \in DOMAIN env'
        PROVE  /\ v \in Nat \X Nat /\ v[1] \in DOMAIN blocks' /\ v[2] \in DOMAIN blocks'[v[1]]
               /\ Value(v[1], v[2], env[v])'
    <3>1. v \in DOMAIN env /\ env' = env /\ blocks' = blocks
      BY <1>1, <1>4
    <3>2. Value(v[1], v[2], env[v])' <=> Value(v[1], v[2], env'[v])
      BY <1>4, SameMeaning
    <3> QED BY <2>1, <3>1, <3>2 DEF EnvInv
  <2>3. EnvInv'
    BY <2>2 DEF EnvInv
  <2> QED BY <1>4, <1>11, <2>1, <2>3, SameMeaning DEF OperandsInv, NotCalled
<1>13. CASE Matches(i)
  <2>1. pc' = Val(Then(i), 1)
    BY <1>1, <1>8, <1>9, <1>13 DEF Says
  <2>2. 1 \in 1..ThenLen' /\ 1 <= NumArgs' + 1
    BY <1>2, <1>4, SameMeaning DEF ThenLen
  <2>3. Taking(i, 1)'
    BY <1>4, <1>10, <1>11, <1>13, <2>2, SameMeaning DEF Taking, Defined
  <2>4. pc' \in Nat \X Nat /\ pc'[1] = Then(i)' /\ pc'[2] = 1
    BY <1>2, <2>1 DEF Val, Then
  <2>5. PcInv'
    BY <1>4, <2>3, <2>4, SameMeaning DEF PcInv
  <2> QED BY <1>1, <1>12, <2>4, <2>5 DEF RunInv
<1>14. CASE ~ Matches(i)
  <2>1. pc' = Val(Level(i + 1), 1)
    BY <1>1, <1>8, <1>9, <1>14 DEF Says
  <2>2. Missed(i + 1)
    <3>1. \A l \in 1..(i + 1) - 1 : l \in 1..i - 1 \/ l = i
      BY <1>2
    <3> QED BY <1>10, <1>14, <3>1 DEF Missed
  <2>3. Missed(i + 1)'
    BY <1>4, <2>2, SameMeaning
  <2>4. pc' \in Nat \X Nat /\ pc'[1] = Level(i + 1)' /\ pc'[2] = 1
    BY <1>2, <2>1 DEF Val, Level
  <2>5. CASE i < NumLevels
    <3>1. i + 1 \in 1..NumLevels
      BY <1>2, <2>5
    <3>2. 1 \in 1..IfPos(i + 1)'
      <4>1. 1 \in 1..IfPos(i + 1)
        BY <1>2 DEF IfPos, Base
      <4> QED BY <1>4, <4>1, SameMeaning
    <3>3. Defined(1, 1 + NumArgs)'
      BY <1>1, <1>4, <1>7, SameMeaning DEF Defined
    <3>4. Testing(i + 1, 1)'
      BY <1>11, <2>3, <3>2, <3>3 DEF Testing, Defined
    <3>5. PcInv'
      BY <1>4, <2>4, <3>1, <3>4, SameMeaning DEF PcInv
    <3> QED BY <1>1, <1>12, <2>4, <3>5 DEF RunInv
  <2>6. CASE i = NumLevels
    <3>1. pc'[1] = Fallback'
      BY <1>2, <1>4, <2>4, <2>6, SameMeaning DEF Fallback, Level
    <3>2. Missed(NumLevels + 1)'
      BY <1>4, <2>3, <2>6, SameMeaning
    <3>3. FallingBack(1)'
      BY <1>11, <3>2 DEF FallingBack, Defined
    <3>4. PcInv'
      BY <2>4, <3>1, <3>3 DEF PcInv
    <3> QED BY <1>1, <1>12, <2>4, <3>4 DEF RunInv
  <2> QED BY <1>2, <2>5, <2>6
<1> QED BY <1>13, <1>14

\* The function a call reaches is the one Routing promises.
LEMMA Routed ==
  ASSUME kind \in EntryKinds, lengths \in LengthLists
  PROVE  /\ \A i \in 1..NumLevels : Matches(i) => R!CalleeFor(widths) = Static(lengths[i])
         /\ Missed(NumLevels + 1) => R!CalleeFor(widths) = Generic
<1> DEFINE S == {lengths[i] : i \in DOMAIN lengths}
           All(n) == \A a \in 1..NumArgs : widths[a] = n
           chosen == CHOOSE n \in S : All(n)
<1>1. NumArgs \in {1, 3} /\ 1 \in 1..NumArgs /\ Contract(kind).sequenceArguments = 1..NumArgs
  BY ArgsCount
<1>2. DOMAIN lengths = 1..NumLevels /\ NumLevels \in Nat \ {0}
  BY LengthsType
<1>3. R!CalleeFor(widths) = IF \E n \in S : All(n) THEN Static(chosen) ELSE Generic
  BY <1>1 DEF R!CalleeFor, R!AllEqual, Static, Generic
<1>4. ASSUME NEW i \in 1..NumLevels, Matches(i)
      PROVE  R!CalleeFor(widths) = Static(lengths[i])
  <2>1. lengths[i] \in S /\ All(lengths[i])
    BY <1>2, <1>4 DEF Matches
  <2>2. chosen \in S /\ All(chosen)
    BY <2>1, Zenon
  <2>3. chosen = lengths[i]
    <3> HIDE DEF chosen
    <3> QED BY <1>1, <2>1, <2>2
  <2> HIDE DEF chosen
  <2> QED BY <1>3, <2>1, <2>3
<1>5. ASSUME Missed(NumLevels + 1) PROVE R!CalleeFor(widths) = Generic
  <2>1. \A i \in 1..NumLevels : i \in 1..(NumLevels + 1) - 1
    BY <1>2
  <2>2. \A n \in S : ~ All(n)
    BY <1>2, <1>5, <2>1 DEF Missed, Matches
  <2> HIDE DEF chosen
  <2> QED BY <1>3, <2>2
<1> QED BY <1>4, <1>5

LEMMA Callees ==
  /\ \A n : Static(n) # Generic /\ Static(n) # NoCallee /\ Static(n)[2] = n
  /\ Generic # NoCallee
<1>1. \A n : Static(n)[1] = "static" /\ Static(n)[2] = n
  BY DEF Static, R!Static
<1>2. Generic[1] = "generic" /\ NoCallee[1] = "none"
  BY DEF Generic, R!Generic, NoCallee, R!NoCallee
<1> QED BY <1>1, <1>2

LEMMA SameOperands ==
  ASSUME OperandsInv, UNCHANGED <<kind, lengths, blocks, widths, callee, operands>>
  PROVE  OperandsInv'
<1>1. /\ NumLevels' = NumLevels /\ NumArgs' = NumArgs /\ NumInputs' = NumInputs
      /\ R!CalleeFor(widths)' = R!CalleeFor(widths)
  BY SameMeaning
<1> QED BY <1>1 DEF OperandsInv, Static, Generic, NoCallee

LEMMA CastInv == EmitInv /\ RunInv /\ Cast => RunInv'
<1> SUFFICES ASSUME EmitInv, RunInv, Cast PROVE RunInv'
  OBVIOUS
<1> DEFINE x == [Read(Current.src) EXCEPT !.width = Current.width]
<1>1. /\ phase = "run" /\ Current.name = "tensor.cast" /\ Define(pc, x) /\ Forward
      /\ UNCHANGED <<phase, emitted, widths, callee, operands>>
  BY DEF Cast
<1>2. NumArgs \in {1, 3} /\ NumLevels \in Nat \ {0} /\ AtSomewhere
  BY <1>1, RunText, Positions
<1>3. PICK i \in 1..NumLevels, p \in 1..ThenLen : AtThen(i, p) /\ p # NumArgs + 1 /\ p # ThenLen
  <2>1. \A j \in 1..2 * NumArgs + 1 : j = 1 \/ j \in {2, 3, 5} \/ j \in {4, 6} \/ j = 2 * NumArgs + 1
    BY <1>2
  <2> QED BY <1>1, <1>2, <2>1, Names DEF AtSomewhere
<1>4. ThenLen = IF ResultIsStatic THEN NumArgs + 2 ELSE NumArgs + 3
  BY DEF ThenLen
<1>5. /\ p \in 1..ThenLen - 1 /\ pc = Val(Then(i), p) /\ Taking(i, p) /\ Matches(i)
      /\ p \in 1..NumArgs \/ (p = NumArgs + 2 /\ ~ ResultIsStatic)
  BY <1>2, <1>3, <1>4 DEF AtThen, Taking
<1>6. OperandsInv'
  BY <1>1, SameOperands DEF RunInv, emitted
<1>7. IF p <= NumArgs THEN NotCalled' ELSE Called(Static(lengths[i]))'
  BY <1>1, <1>2, <1>5 DEF Taking, NotCalled, Called, emitted, NoCallee, Static
<1>8. ThenValue(i, p, x)
  <2>1. CASE p \in 1..NumArgs
    <3>1. Current.src = Arg(p) /\ Current.width = lengths[i]
      BY <1>3, <2>1 DEF AtThen, CastOp
    <3>2. x = [from |-> p, width |-> lengths[i]]
      BY <1>1, <3>1, Reads
    <3> HIDE DEF x
    <3> QED BY <1>2, <1>5, <2>1, <3>2 DEF ThenValue
  <2>2. CASE p = NumArgs + 2 /\ ~ ResultIsStatic
    <3>1. Current.src = Val(Then(i), NumArgs + 1) /\ Current.width = Dyn
      BY <1>3, <2>2 DEF AtThen, CastOp
    <3>2. NumArgs + 1 \in 1..p - 1 /\ NumArgs + 1 \in 1..ThenLen
      BY <1>2, <1>4, <2>2
    <3>3. Val(Then(i), NumArgs + 1) \in DOMAIN env
      BY <1>5, <3>2 DEF Taking, Defined
    <3>4. ThenValue(i, NumArgs + 1, Read(Current.src))
      BY <1>1, <3>1, <3>2, <3>3, Reads
    <3>5. Read(Current.src) = [from |-> 0, width |-> lengths[i]]
      BY <2>2, <3>4 DEF ThenValue
    <3>6. x = Result
      BY <3>1, <3>5 DEF Result
    <3> HIDE DEF x
    <3> QED BY <1>2, <1>5, <2>2, <3>6 DEF ThenValue
  <2> QED BY <1>5, <2>1, <2>2
<1> HIDE DEF x
<1> QED BY <1>1, <1>5, <1>6, <1>7, <1>8, ThenStep

LEMMA CallInv == EmitInv /\ RunInv /\ Call => RunInv'
<1> SUFFICES ASSUME EmitInv, RunInv, Call PROVE RunInv'
  OBVIOUS
<1> DEFINE x == [from |-> 0,
                 width |-> IF ResultIsStatic \/ Current.callee = Generic
                             THEN Dyn ELSE Current.callee[2]]
<1>1. /\ phase = "run" /\ Current.name = "func.call" /\ Define(pc, x) /\ Forward
      /\ callee' = Current.callee
      /\ operands' = [j \in DOMAIN Current.operands |-> Read(Current.operands[j])]
      /\ UNCHANGED <<phase, emitted, widths>>
  BY DEF Call
<1>2. /\ NumArgs \in {1, 3} /\ NumLevels \in Nat \ {0} /\ AtSomewhere
      /\ kind \in EntryKinds /\ lengths \in LengthLists
      /\ NumInputs \in Nat /\ NumArgs <= NumInputs
  BY <1>1, RunText, Positions, ArgsCount
<1>3. UNCHANGED <<kind, lengths, blocks, widths>>
  BY <1>1 DEF emitted
<1>4. /\ NumArgs' = NumArgs /\ NumInputs' = NumInputs /\ NumLevels' = NumLevels
      /\ R!CalleeFor(widths)' = R!CalleeFor(widths)
  BY <1>3, SameMeaning
<1>5. ASSUME NEW i \in 1..NumLevels, AtThen(i, NumArgs + 1)
      PROVE  RunInv'
  <2>1. /\ NumArgs + 1 \in 1..ThenLen - 1 /\ pc = Val(Then(i), NumArgs + 1)
        /\ Taking(i, NumArgs + 1) /\ Matches(i) /\ NumArgs \in Nat
    BY <1>2, <1>5 DEF AtThen, Taking, ThenLen
  <2>2. /\ Current.callee = Static(lengths[i])
        /\ Current.operands = [j \in 1..NumInputs |-> IF j <= NumArgs THEN Val(Then(i), j)
                                                                    ELSE Arg(j)]
    BY <1>5 DEF AtThen, CallOp
  <2>3. ASSUME NEW j \in 1..NumInputs
        PROVE  Read(Current.operands[j]) =
                 [from |-> j, width |-> IF j <= NumArgs THEN lengths[i] ELSE Dyn]
    <3>1. CASE j <= NumArgs
      <4>1. j \in 1..NumArgs /\ j \in 1..(NumArgs + 1) - 1 /\ j \in 1..ThenLen
        BY <1>2, <2>1, <3>1 DEF ThenLen
      <4>2. Val(Then(i), j) \in DOMAIN env
        BY <2>1, <4>1 DEF Taking, Defined
      <4>3. ThenValue(i, j, Read(Val(Then(i), j)))
        BY <1>1, <4>1, <4>2, Reads
      <4> QED BY <2>2, <3>1, <4>1, <4>3 DEF ThenValue
    <3>2. CASE ~ (j <= NumArgs)
      BY <1>1, <2>2, <3>2, Reads
    <3> QED BY <3>1, <3>2
  <2>4. operands' = [j \in 1..NumInputs |->
                       [from |-> j, width |-> IF j <= NumArgs THEN lengths[i] ELSE Dyn]]
    BY <1>1, <2>2, <2>3
  <2>5. callee' = Static(lengths[i]) /\ callee' # Generic /\ callee'[2] = lengths[i]
    BY <1>1, <2>2, Callees
  <2>6. callee' = R!CalleeFor(widths)'
    BY <1>2, <1>4, <2>1, <2>5, Routed
  <2>7. OperandsInv'
    BY <1>3, <1>4, <2>4, <2>5, <2>6 DEF OperandsInv, Static, Generic
  <2>8. Called(Static(lengths[i]))'
    BY <1>3, <2>5 DEF Called, Static
  <2>9. x = [from |-> 0, width |-> IF ResultIsStatic THEN Dyn ELSE lengths[i]]
    BY <2>2, Callees
  <2> HIDE DEF x
  <2>10. ThenValue(i, NumArgs + 1, x)
    BY <2>1, <2>9 DEF ThenValue
  <2>11. ~ (NumArgs + 1 <= NumArgs)
    BY <1>2
  <2> QED BY <1>1, <2>1, <2>7, <2>8, <2>10, <2>11, ThenStep
<1>6. ASSUME AtFallback(1) PROVE RunInv'
  <2>1. pc = Val(Fallback, 1) /\ FallingBack(1) /\ Missed(NumLevels + 1)
    BY <1>6 DEF AtFallback, FallingBack
  <2>2. /\ Current.callee = Generic
        /\ Current.operands = [j \in 1..NumInputs |-> Arg(j)]
    BY <1>6 DEF AtFallback, CallOp
  <2>3. operands' = [j \in 1..NumInputs |-> [from |-> j, width |-> Dyn]]
    BY <1>1, <2>2, Reads
  <2>4. callee' = Generic /\ Generic' = Generic
    BY <1>1, <2>2 DEF Generic
  <2>5. callee' = R!CalleeFor(widths)'
    BY <1>2, <1>4, <2>1, <2>4, Routed
  <2>6. OperandsInv'
    BY <1>4, <2>3, <2>4, <2>5 DEF OperandsInv
  <2>7. x = Result
    BY <2>2 DEF Result
  <2> HIDE DEF x
  <2>8. /\ EnvInv /\ widths \in [1..NumArgs -> Widths]
        /\ Fallback \in DOMAIN blocks /\ Fallback \in Nat /\ 1 \in DOMAIN blocks[Fallback]
    BY <1>1, <1>2, RunText DEF RunInv
  <2>9. Value(Fallback, 1, x)
    BY <1>2, <2>7, ValueAt
  <2>10. Define(Val(Fallback, 1), x)
    BY <1>1, <2>1
  <2>11. EnvInv' /\ (Defined(Fallback, 1 - 1) => Defined(Fallback, 1)')
    <3>1. PICK f \in Nat : f = Fallback
      BY <2>8
    <3>2. Fallback' = f
      BY <1>3, <3>1, SameMeaning
    <3>3. EnvInv' /\ (Defined(f, 1 - 1) => Defined(f, 1)')
      BY <1>3, <2>8, <2>9, <2>10, <3>1, DefineInv
    <3> QED BY <3>1, <3>2, <3>3 DEF Defined
  <2>12. Defined(Fallback, 2 - 1)'
    <3>1. Defined(Fallback, 1 - 1) /\ Fallback' = Fallback
      BY <1>3, SameMeaning DEF Defined
    <3> QED BY <2>11, <3>1 DEF Defined
  <2>13. Missed(NumLevels + 1)'
    BY <1>3, <1>4, <2>1, SameMeaning
  <2>14. FallingBack(2)'
    BY <2>4, <2>12, <2>13 DEF FallingBack, Called
  <2>15. pc' \in Nat \X Nat /\ pc'[1] = Fallback' /\ pc'[2] = 2
    BY <1>1, <1>3, <2>1, <2>8, SameMeaning DEF Forward, Val
  <2>16. PcInv'
    BY <2>14, <2>15 DEF PcInv
  <2> QED BY <1>1, <1>3, <1>4, <2>6, <2>8, <2>11, <2>15, <2>16 DEF RunInv
<1>7. AtFallback(1) \/ \E i \in 1..NumLevels : AtThen(i, NumArgs + 1)
  <2>1. \A j \in 1..2 * NumArgs + 1 : j = 1 \/ j \in {2, 3, 5} \/ j \in {4, 6} \/ j = 2 * NumArgs + 1
    BY <1>2
  <2> QED BY <1>1, <1>2, <2>1, Names DEF AtSomewhere
<1> QED BY <1>5, <1>6, <1>7

\* The blocks of the wrapper, and the names of the operations in each.
LEMMA BlockKinds ==
  ASSUME EmitInv, phase \in {"ready", "run"}, NEW b \in DOMAIN blocks
  PROVE  b = Fallback \/ \E k \in 1..NumLevels : b = Level(k) \/ b = Then(k)
<1>1. /\ NumLevels \in Nat \ {0} /\ b \in 1..2 * NumLevels + 1
      /\ Fallback = 2 * NumLevels + 1
  BY RunText
<1>2. PICK n \in Nat : n = NumLevels
  BY <1>1
<1>3. PICK m \in Nat : b = 2 * m \/ b = 2 * m + 1
  <2>1. b \div 2 \in Nat /\ (b = 2 * (b \div 2) \/ b = 2 * (b \div 2) + 1)
    BY <1>1
  <2> QED BY <2>1
<1>4. CASE b = 2 * m
  <2>1. m \in 1..n /\ b = Then(m)
    BY <1>1, <1>2, <1>4 DEF Then
  <2> QED BY <1>2, <2>1
<1>5. CASE b = 2 * m + 1
  <2>1. m = n \/ (m + 1 \in 1..n /\ b = Level(m + 1))
    BY <1>1, <1>2, <1>5 DEF Level
  <2> QED BY <1>1, <1>2, <1>5, <2>1
<1> QED BY <1>3, <1>4, <1>5

LEMMA LevelNames ==
  ASSUME EmitInv, phase \in {"ready", "run"}, NEW k \in 1..NumLevels,
         NEW p \in 1..IfPos(k) + 1
  PROVE  /\ p < IfPos(k) => blocks[Level(k)][p].name \in
                              {"arith.constant", "tensor.dim", "arith.cmpi", "arith.andi"}
         /\ p = IfPos(k) => /\ blocks[Level(k)][p].name = "scf.if"
                            /\ blocks[Level(k)][p].then = Then(k)
                            /\ blocks[Level(k)][p].else = Level(k + 1)
         /\ p = IfPos(k) + 1 =>
              blocks[Level(k)][p].name = IF k = 1 THEN "func.return" ELSE "scf.yield"
<1> DEFINE s == blocks[Level(k)]
<1>1. /\ IsLevel(s, k) /\ NumArgs \in {1, 3} /\ s[IfPos(k) + 1] = Terminator(k)
      /\ IfPos(k) = Base(k) + 2 * NumArgs + 1 /\ Base(k) = IF k = 1 THEN 1 + NumArgs ELSE 0
  BY RunText DEF IfPos, Base
<1> HIDE DEF s
<1>2. ASSUME p <= Base(k) PROVE s[p].name \in {"arith.constant", "tensor.dim"}
  <2>1. IsHeader(s) /\ p \in 1..1 + NumArgs
    BY <1>1, <1>2 DEF IsLevel
  <2>2. CASE p = 1
    BY <2>1, <2>2 DEF IsHeader, ConstantOp
  <2>3. CASE p # 1
    <3>1. p - 1 \in 1..NumArgs /\ 1 + (p - 1) = p
      BY <1>1, <2>1, <2>3
    <3>2. s[1 + (p - 1)] = DimOp(Arg(p - 1), Val(1, 1))
      BY <2>1, <3>1 DEF IsHeader
    <3> QED BY <3>1, <3>2 DEF DimOp
  <2> QED BY <2>2, <2>3
<1>3. ASSUME p \in Base(k) + 1..Base(k) + 2 * NumArgs
      PROVE  s[p].name \in {"arith.constant", "arith.cmpi", "arith.andi"}
  <2>1. \/ p = Base(k) + 1 \/ p = Base(k) + 2
        \/ NumArgs = 3 /\ (\/ p = Base(k) + 3 \/ p = Base(k) + 4
                           \/ p = Base(k) + 5 \/ p = Base(k) + 6)
    BY <1>1, <1>3
  <2>2. IsTests(s, Level(k), Base(k), lengths[k])
    BY <1>1 DEF IsLevel
  <2> QED BY <2>1, <2>2 DEF IsTests, ConstantOp, CmpOp, AndOp
<1>4. p < IfPos(k) => p <= Base(k) \/ p \in Base(k) + 1..Base(k) + 2 * NumArgs
  BY <1>1
<1>5. /\ s[IfPos(k)].name = "scf.if" /\ s[IfPos(k)].then = Then(k)
      /\ s[IfPos(k)].else = Level(k + 1)
  BY <1>1 DEF IsLevel, IfOp
<1>6. s[IfPos(k) + 1].name = IF k = 1 THEN "func.return" ELSE "scf.yield"
  BY <1>1 DEF Terminator, ReturnOp, YieldOp
<1> QED BY <1>2, <1>3, <1>4, <1>5, <1>6 DEF s

LEMMA ThenNames ==
  ASSUME EmitInv, phase \in {"ready", "run"}, NEW k \in 1..NumLevels, NEW p \in 1..ThenLen
  PROVE  blocks[Then(k)][p].name \in IF p = ThenLen THEN {"scf.yield"}
                                                    ELSE {"tensor.cast", "func.call"}
<1> DEFINE s == blocks[Then(k)]
<1>1. IsThen(s, k) /\ NumArgs \in {1, 3}
  BY RunText
<1> HIDE DEF s
<1>2. /\ p \in 1..NumArgs \/ p = NumArgs + 1 \/ (p = NumArgs + 2 /\ ~ ResultIsStatic) \/ p = ThenLen
      /\ ~ (p \in 1..NumArgs /\ p = ThenLen) /\ NumArgs + 1 # ThenLen
      /\ ~ ResultIsStatic => NumArgs + 2 # ThenLen
  BY <1>1 DEF ThenLen
<1>3. ASSUME p \in 1..NumArgs PROVE s[p].name = "tensor.cast"
  <2>1. \A a \in 1..NumArgs : s[a] = CastOp(Arg(a), lengths[k])
    BY <1>1 DEF IsThen
  <2>2. s[p] = CastOp(Arg(p), lengths[k])
    BY <1>3, <2>1
  <2> QED BY <2>2 DEF CastOp
<1>4. s[NumArgs + 1].name = "func.call"
  BY <1>1 DEF IsThen, CallOp
<1>5. ~ ResultIsStatic => s[NumArgs + 2].name = "tensor.cast"
  BY <1>1 DEF IsThen, CastOp
<1>6. s[ThenLen].name = "scf.yield"
  BY <1>1 DEF IsThen, YieldOp
<1> QED BY <1>2, <1>3, <1>4, <1>5, <1>6 DEF s

\* The operations that branch are those behind the tests of a level.
LEMMA Branches ==
  ASSUME EmitInv, phase = "run", NEW b \in DOMAIN blocks, NEW p \in DOMAIN blocks[b],
         blocks[b][p].name = "scf.if"
  PROVE  \E k \in 1..NumLevels :
           /\ b = Level(k) /\ p = IfPos(k)
           /\ blocks[b][p].then = Then(k) /\ blocks[b][p].else = Level(k + 1)
<1>1. NumArgs \in {1, 3} /\ NumLevels \in Nat \ {0}
  BY RunText
<1>2. b # Fallback
  <2> SUFFICES ASSUME b = Fallback PROVE FALSE
    OBVIOUS
  <2>1. IsFallback(blocks[b]) /\ p \in 1..2
    BY RunText
  <2> QED BY <2>1 DEF IsFallback, CallOp, YieldOp
<1>3. ASSUME NEW k \in 1..NumLevels, b = Then(k) PROVE FALSE
  <2>1. p \in 1..ThenLen
    BY <1>3, RunText
  <2> QED BY <1>3, <2>1, ThenNames
<1>4. ASSUME NEW k \in 1..NumLevels, b = Level(k)
      PROVE  /\ p = IfPos(k) /\ blocks[b][p].then = Then(k) /\ blocks[b][p].else = Level(k + 1)
  <2>1. p \in 1..IfPos(k) + 1 /\ IfPos(k) \in Nat
    BY <1>1, <1>4, RunText DEF IfPos, Base
  <2>2. p # IfPos(k) + 1
    BY <1>4, <2>1, LevelNames
  <2>3. ~ (p < IfPos(k))
    BY <1>4, <2>1, LevelNames
  <2>4. p = IfPos(k)
    BY <2>1, <2>2, <2>3
  <2> QED BY <1>4, <2>1, <2>4, LevelNames
<1> QED BY <1>2, <1>3, <1>4, BlockKinds

\* What a call yields or returns is the result of the function it reached.
LEMMA Yields ==
  ASSUME EmitInv, RunInv, phase = "run", Current.name \in Terminators
  PROVE  /\ Current.value \in DOMAIN env /\ Read(Current.value) = Result
         /\ callee # NoCallee
<1>1. /\ NumArgs \in {1, 3} /\ NumLevels \in Nat \ {0} /\ AtSomewhere
      /\ \A j \in 1..2 * NumArgs + 1 : j = 1 \/ j \in {2, 3, 5} \/ j \in {4, 6} \/ j = 2 * NumArgs + 1
  <2>1. NumArgs \in {1, 3} /\ NumLevels \in Nat \ {0} /\ AtSomewhere
    BY RunText, Positions
  <2> QED BY <2>1
<1>2. CASE \E i \in 1..NumLevels : AtThen(i, ThenLen)
  <2>1. PICK i \in 1..NumLevels : AtThen(i, ThenLen)
    BY <1>2
  <2>2. /\ Taking(i, ThenLen) /\ Current.value = Val(Then(i), ThenLen - 1)
        /\ ThenLen = IF ResultIsStatic THEN NumArgs + 2 ELSE NumArgs + 3
    BY <2>1 DEF AtThen, YieldOp, ThenLen
  <2>3. ThenLen - 1 \in 1..ThenLen - 1 /\ ThenLen - 1 \in 1..ThenLen /\ ~ (ThenLen <= NumArgs + 1)
    BY <1>1, <2>2
  <2>4. Current.value \in DOMAIN env /\ callee = Static(lengths[i])
    BY <2>2, <2>3 DEF Taking, Defined, Called
  <2>5. ThenValue(i, ThenLen - 1, Read(Current.value))
    BY <2>2, <2>3, <2>4, Reads
  <2>6. /\ ResultIsStatic => ThenLen - 1 = NumArgs + 1
        /\ ~ ResultIsStatic => ThenLen - 1 = NumArgs + 2
    BY <1>1, <2>2
  <2> QED BY <2>4, <2>5, <2>6, Callees DEF ThenValue, Result
<1>3. CASE AtFallback(2)
  <2>1. FallingBack(2) /\ Current.value = Val(Fallback, 1)
    BY <1>3 DEF AtFallback, YieldOp
  <2>2. Val(Fallback, 1) \in DOMAIN env /\ callee = Generic
    BY <2>1 DEF FallingBack, Defined, Called
  <2> QED BY <2>1, <2>2, Reads, Callees
<1>4. CASE \E i \in 1..NumLevels : AtEnd(i)
  <2>1. PICK i \in 1..NumLevels : AtEnd(i)
    BY <1>4
  <2>2. GoingUp(i, IfPos(i) + 1) /\ Current.value = Val(Level(i), IfPos(i))
    BY <2>1 DEF AtEnd, Terminator, YieldOp, ReturnOp
  <2>3. Val(Level(i), IfPos(i)) \in DOMAIN env /\ callee # NoCallee
    BY <2>2 DEF GoingUp
  <2>4. IfPos(i) \in 1..IfPos(i) /\ IfPos(i) - Base(i) = 2 * NumArgs + 1
    BY <1>1 DEF IfPos, Base
  <2>5. TestValue(i, 2 * NumArgs + 1, Read(Current.value))
    BY <2>2, <2>3, <2>4, Reads
  <2> QED BY <2>2, <2>3, <2>5 DEF TestValue
<1>5. \/ \E i \in 1..NumLevels : AtThen(i, ThenLen)
      \/ AtFallback(2) \/ \E i \in 1..NumLevels : AtEnd(i)
  BY <1>1, Names DEF AtSomewhere, Terminators
<1> QED BY <1>2, <1>3, <1>4, <1>5

LEMMA YieldInv == EmitInv /\ RunInv /\ Yield => RunInv'
<1> SUFFICES ASSUME EmitInv, RunInv, Yield PROVE RunInv'
  OBVIOUS
<1>1. /\ phase = "run" /\ Current.name = "scf.yield"
      /\ UNCHANGED <<phase, emitted, widths, callee, operands>>
  BY DEF Yield
<1>2. PICK b, p :
        /\ b \in DOMAIN blocks /\ p \in DOMAIN blocks[b]
        /\ IsParent(Val(b, p)) /\ Define(Val(b, p), Read(Current.value)) /\ pc' = Val(b, p + 1)
  BY DEF Yield
<1>3. /\ NumArgs \in {1, 3} /\ NumLevels \in Nat \ {0}
      /\ DOMAIN blocks = 1..Fallback /\ Fallback = 2 * NumLevels + 1
  BY <1>1, RunText
<1>4. blocks[b][p].name = "scf.if"
  BY <1>2 DEF IsParent, Val
<1>5. PICK k \in 1..NumLevels : b = Level(k) /\ p = IfPos(k)
  <2>1. b \in DOMAIN blocks /\ p \in DOMAIN blocks[b]
    BY <1>2
  <2> QED BY <1>1, <1>4, <2>1, Branches
<1>6. UNCHANGED <<kind, lengths, blocks, widths>>
  BY <1>1 DEF emitted
<1>7. Read(Current.value) = Result /\ callee # NoCallee
  BY <1>1, Yields DEF Terminators
<1>8. IfPos(k) = Base(k) + 2 * NumArgs + 1 /\ Base(k) \in Nat /\ p \in Nat /\ b \in Nat
      /\ p - Base(k) = 2 * NumArgs + 1 /\ p > 1 + NumArgs
  BY <1>3, <1>5 DEF IfPos, Base, Level
<1>9. Value(b, p, Result)
  <2>1. TestValue(k, p - Base(k), Result)
    BY <1>3, <1>8 DEF TestValue
  <2>2. HeaderValue(p, Result)
    BY <1>3, <1>8 DEF HeaderValue
  <2> QED BY <1>3, <1>5, <2>1, <2>2, ValueAt
<1>10. EnvInv /\ OperandsInv /\ widths \in [1..NumArgs -> Widths]
  BY <1>1 DEF RunInv
<1>11. EnvInv' /\ DOMAIN env' = DOMAIN env \cup {Val(b, p)}
  BY <1>2, <1>6, <1>7, <1>8, <1>9, <1>10, DefineInv
<1>12. GoingUp(k, p + 1)'
  <2>1. IfPos(k)' = p
    BY <1>5, <1>6, SameMeaning
  <2>2. Val(Level(k), p) \in DOMAIN env'
    BY <1>5, <1>11
  <2> QED BY <1>1, <1>7, <2>1, <2>2 DEF GoingUp, Level, NoCallee, Val
<1>13. pc' \in Nat \X Nat /\ pc'[1] = Level(k) /\ pc'[2] = p + 1
  BY <1>2, <1>5, <1>8 DEF Val
<1>14. PcInv'
  BY <1>6, <1>12, <1>13, SameMeaning DEF PcInv, Level
<1>15. OperandsInv'
  BY <1>1, <1>6, <1>10, SameOperands
<1> QED BY <1>1, <1>6, <1>10, <1>11, <1>13, <1>14, <1>15, SameMeaning DEF RunInv

LEMMA ReturnInv == RunInv /\ Return => RunInv'
  BY DEF Return, RunInv, NoCall, NoCallee

LEMMA NextRunInv == EmitInv /\ RunInv /\ [Next]_vars => RunInv'
<1> SUFFICES ASSUME EmitInv, RunInv, [Next]_vars PROVE RunInv'
  OBVIOUS
<1>1. CASE Emit
  <2>1. phase # "run" /\ phase' # "run" /\ UNCHANGED runState
    BY <1>1 DEF Emit, EmitClone, emitDispatchWrapper, emitDispatchChain, EmitGenericCall, ReturnFromChain
  <2> QED BY <2>1 DEF RunInv, runState, NoCall, NoCallee
<1>2. CASE UNCHANGED vars
  <2>1. UNCHANGED <<kind, lengths, blocks, widths, phase, pc, env, callee, operands>>
    BY <1>2 DEF vars, emitted, runState
  <2>2. CASE phase # "run"
    BY <2>1, <2>2 DEF RunInv, NoCall, NoCallee
  <2>3. CASE phase = "run"
    <3>1. /\ EnvInv /\ PcInv /\ OperandsInv
          /\ widths \in [1..NumArgs -> Widths] /\ pc \in Nat \X Nat
      BY <2>3 DEF RunInv
    <3>2. OperandsInv'
      BY <2>1, <3>1, SameOperands
    <3>3. EnvInv'
      <4>1. \A v : Value(v[1], v[2], env[v])' <=> Value(v[1], v[2], env'[v])
        BY <2>1, SameMeaning
      <4> QED BY <2>1, <3>1, <4>1 DEF EnvInv
    <3>4. \A c, n : Defined(c, n)' <=> Defined(c, n)
      BY <2>1 DEF Defined
    <3>5. /\ \A i, p : Testing(i, p)' <=> Testing(i, p)
          /\ \A i, p : Taking(i, p)' <=> Taking(i, p)
          /\ \A i, p : GoingUp(i, p)' <=> GoingUp(i, p)
          /\ \A p : FallingBack(p)' <=> FallingBack(p)
      <4>1. \A i, p : Testing(i, p)' <=> Testing(i, p)
        BY <2>1, <3>4, SameMeaning DEF Testing, NotCalled, NoCallee, Level
      <4>2. \A i, p : Taking(i, p)' <=> Taking(i, p)
        BY <2>1, <3>4, SameMeaning DEF Taking, NotCalled, Called, NoCallee, Then, Static
      <4>3. \A i, p : GoingUp(i, p)' <=> GoingUp(i, p)
        BY <2>1, SameMeaning DEF GoingUp, NoCallee, Level, Val
      <4>4. \A p : FallingBack(p)' <=> FallingBack(p)
        <5>1. (Missed(NumLevels + 1))' <=> Missed(NumLevels + 1)
          BY <2>1, SameMeaning
        <5>2. \A n : (Defined(Fallback, n))' <=> Defined(Fallback, n)
          BY <2>1, <3>4, SameMeaning DEF Defined
        <5> QED BY <2>1, <5>1, <5>2 DEF FallingBack, NotCalled, Called, NoCallee, Generic
      <4> QED BY <4>1, <4>2, <4>3, <4>4
    <3>6. PcInv'
      BY <2>1, <3>1, <3>5, SameMeaning DEF PcInv, Level, Then
    <3> QED BY <2>1, <2>3, <3>1, <3>2, <3>3, <3>6, SameMeaning DEF RunInv
  <2> QED BY <2>2, <2>3
<1> QED BY <1>1, <1>2, InvokeInv, ConstantInv, DimInv, CompareInv, AndInv, BranchInv, CastInv,
           CallInv, YieldInv, ReturnInv DEF Next, Execute

-----------------------------------------------------------------------------
\* The invariant holds in every state.
THEOREM Invariant == Spec => []IInv
<1>1. IInv /\ [Next]_vars => IInv'
  BY NextEmitInv, NextRunInv DEF IInv
<1> QED BY <1>1, InitIInv, PTL DEF Spec

\* The emitted wrapper is well formed: in every block the last operation, and no
\* other, is a terminator, and only the function's own block returns.
LEMMA Terminated ==
  ASSUME EmitInv, phase \in {"ready", "run"}, NEW b \in DOMAIN blocks
  PROVE  /\ blocks[b] # <<>>
         /\ \A p \in DOMAIN blocks[b] :
              blocks[b][p].name \in Terminators <=> p = Len(blocks[b])
         /\ blocks[b][Len(blocks[b])].name = "func.return" <=> b = 1
<1>1. /\ NumLevels \in Nat \ {0} /\ NumArgs \in {1, 3} /\ Level(1) = 1
      /\ \A i \in 1..NumLevels : /\ IfPos(i) \in Nat \ {0}
                                 /\ Then(i) # 1 /\ (Level(i) = 1 <=> i = 1)
      /\ Fallback # 1
  BY RunText DEF Level, Then, IfPos, Base
<1>2. DOMAIN <<>> = {}
  OBVIOUS
<1>3. CASE b = Fallback
  <2>1. IsFallback(blocks[b]) /\ DOMAIN blocks[b] = 1..2 /\ Len(blocks[b]) = 2
    BY <1>3, RunText DEF IsFallback
  <2>2. blocks[b][1].name = "func.call" /\ blocks[b][2].name = "scf.yield"
    BY <2>1 DEF IsFallback, CallOp, YieldOp
  <2>3. \A p \in 1..2 : p = 1 \/ p = 2
    OBVIOUS
  <2>4. blocks[b] # <<>>
    BY <1>2, <2>1
  <2> QED BY <1>1, <1>3, <2>1, <2>2, <2>3, <2>4 DEF Terminators
<1>4. ASSUME NEW k \in 1..NumLevels, b = Level(k)
      PROVE  /\ blocks[b] # <<>>
             /\ \A p \in DOMAIN blocks[b] :
                  blocks[b][p].name \in Terminators <=> p = Len(blocks[b])
             /\ blocks[b][Len(blocks[b])].name = "func.return" <=> b = 1
  <2>1. DOMAIN blocks[b] = 1..IfPos(k) + 1 /\ Len(blocks[b]) = IfPos(k) + 1 /\ IfPos(k) \in Nat \ {0}
    BY <1>1, <1>4, RunText
  <2>2. blocks[b] # <<>>
    BY <1>2, <2>1
  <2>3. ASSUME NEW p \in 1..IfPos(k) + 1
        PROVE  blocks[b][p].name \in Terminators <=> p = IfPos(k) + 1
    <3>1. p < IfPos(k) \/ p = IfPos(k) \/ p = IfPos(k) + 1
      BY <2>1
    <3> QED BY <1>4, <2>1, <3>1, LevelNames DEF Terminators
  <2>4. blocks[b][IfPos(k) + 1] = Terminator(k)
    BY <1>4, RunText
  <2>5. blocks[b][IfPos(k) + 1].name = "func.return" <=> b = 1
    BY <1>1, <1>4, <2>4 DEF Terminator, ReturnOp, YieldOp
  <2> QED BY <2>1, <2>2, <2>3, <2>5
<1>5. ASSUME NEW k \in 1..NumLevels, b = Then(k)
      PROVE  /\ blocks[b] # <<>>
             /\ \A p \in DOMAIN blocks[b] :
                  blocks[b][p].name \in Terminators <=> p = Len(blocks[b])
             /\ blocks[b][Len(blocks[b])].name = "func.return" <=> b = 1
  <2>1. /\ DOMAIN blocks[b] = 1..ThenLen /\ Len(blocks[b]) = ThenLen
        /\ ThenLen \in Nat \ {0} /\ ThenLen \in 1..ThenLen /\ b # 1
    <3>1. DOMAIN blocks[b] = 1..ThenLen /\ IsThen(blocks[b], k) /\ b # 1
      BY <1>1, <1>5, RunText
    <3>2. ThenLen \in Nat \ {0}
      BY <1>1 DEF ThenLen
    <3> QED BY <3>1, <3>2 DEF IsThen
  <2>2. blocks[b] # <<>>
    BY <1>2, <2>1
  <2> QED BY <1>5, <2>1, <2>2, ThenNames DEF Terminators
<1> QED BY <1>3, <1>4, <1>5, BlockKinds

\* Whatever an operation reads is an argument, or was computed on the way to it.
LEMMA UsesOf ==
  /\ \A n : Uses(ConstantOp(n)) = {}
  /\ \A src, axis : Uses(DimOp(src, axis)) = {src, axis}
  /\ \A lhs, rhs : Uses(CmpOp(lhs, rhs)) = {lhs, rhs} /\ Uses(AndOp(lhs, rhs)) = {lhs, rhs}
  /\ \A cond, t, e : Uses(IfOp(cond, t, e)) = {cond}
  /\ \A src, width : Uses(CastOp(src, width)) = {src}
  /\ \A op : op.name \in Terminators => Uses(op) = {op.value}
<1>1. \A op : /\ op.name = "arith.constant" => Uses(op) = {}
              /\ op.name = "tensor.dim" => Uses(op) = {op.src, op.axis}
              /\ op.name \in {"arith.cmpi", "arith.andi"} => Uses(op) = {op.lhs, op.rhs}
              /\ op.name = "scf.if" => Uses(op) = {op.cond}
              /\ op.name = "tensor.cast" => Uses(op) = {op.src}
              /\ op.name \in Terminators => Uses(op) = {op.value}
  BY DEF Uses, Terminators
<1>2. \A n : ConstantOp(n).name = "arith.constant"
  BY DEF ConstantOp
<1>3. \A src, axis : LET op == DimOp(src, axis)
                     IN op.name = "tensor.dim" /\ op.src = src /\ op.axis = axis
  BY DEF DimOp
<1>4. \A lhs, rhs : LET op == CmpOp(lhs, rhs)
                    IN op.name = "arith.cmpi" /\ op.lhs = lhs /\ op.rhs = rhs
  BY DEF CmpOp
<1>5. \A lhs, rhs : LET op == AndOp(lhs, rhs)
                    IN op.name = "arith.andi" /\ op.lhs = lhs /\ op.rhs = rhs
  BY DEF AndOp
<1>6. \A cond, t, e : LET op == IfOp(cond, t, e) IN op.name = "scf.if" /\ op.cond = cond
  BY DEF IfOp
<1>7. \A src, width : LET op == CastOp(src, width) IN op.name = "tensor.cast" /\ op.src = src
  BY DEF CastOp
<1> QED BY <1>1, <1>2, <1>3, <1>4, <1>5, <1>6, <1>7

LEMMA UsesOfCall ==
  ASSUME NEW f, NEW args, NEW v \in Uses(CallOp(f, args))
  PROVE  \E i \in DOMAIN args : v = args[i]
<1> DEFINE op == CallOp(f, args)
<1>1. op.name = "func.call" /\ op.operands = args
  BY DEF CallOp
<1> HIDE DEF op
<1>2. v \in {op.operands[i] : i \in DOMAIN op.operands}
  <2>1. v \in Uses(op)
    BY DEF op
  <2> QED BY <1>1, <2>1 DEF Uses, Terminators
<1> QED BY <1>1, <1>2

LEMMA OperandsKnown ==
  ASSUME EmitInv, RunInv, phase = "run"
  PROVE  \A v \in Uses(Current) : v \in DOMAIN env \/ v[1] = 0
<1>1. NumArgs \in {1, 3} /\ NumLevels \in Nat \ {0} /\ AtSomewhere
  BY RunText, Positions
<1>2. \A a : Arg(a)[1] = 0
  BY DEF Arg
<1>3. ASSUME NEW p \in 1..1 + NumArgs, AtHeader(p)
      PROVE  \A v \in Uses(Current) : v \in DOMAIN env \/ v[1] = 0
  <2>1. CASE p = 1
    BY <1>3, <2>1, UsesOf DEF AtHeader
  <2>2. CASE p # 1
    <3>1. Current = DimOp(Arg(p - 1), Val(1, 1)) /\ Val(1, 1) \in DOMAIN env
      <4>1. 1 \in 1..p - 1 /\ Level(1) = 1
        BY <1>1, <2>2 DEF Level
      <4> QED BY <1>3, <2>2, <4>1 DEF AtHeader, Testing, Defined
    <3>2. Uses(Current) = {Arg(p - 1), Val(1, 1)}
      BY <3>1, UsesOf
    <3> QED BY <1>2, <3>1, <3>2
  <2> QED BY <2>1, <2>2
<1>4. ASSUME NEW i \in 1..NumLevels, NEW j \in 1..2 * NumArgs + 1, AtTest(i, j)
      PROVE  \A v \in Uses(Current) : v \in DOMAIN env \/ v[1] = 0
  <2>1. Testing(i, Base(i) + j) /\ Base(i) \in Nat /\ Base(i) + j \in Nat /\ Base(i) + j > Base(i)
    BY <1>1, <1>4 DEF AtTest, Base
  <2>2. ASSUME NEW q \in 1..j - 1 PROVE Val(Level(i), Base(i) + q) \in DOMAIN env
    <3>1. Base(i) + q \in 1..(Base(i) + j) - 1
      BY <2>1
    <3> QED BY <2>1, <3>1 DEF Testing, Defined
  <2>3. ASSUME NEW a \in 1..NumArgs PROVE SequenceLength(a) \in DOMAIN env
    <3>1. Defined(1, 1 + NumArgs) /\ 1 + a \in 1..1 + NumArgs
      BY <1>1, <2>1, WidthsKnown
    <3> QED BY <3>1 DEF Defined, SequenceLength
  <2>4. \/ j = 1 \/ j = 2 \/ (NumArgs = 3 /\ j \in {3, 4, 5, 6}) \/ j = 2 * NumArgs + 1
    BY <1>1
  <2>5. CASE j = 1
    BY <1>4, <2>5, UsesOf DEF AtTest
  <2>6. CASE j = 2
    <3>1. Uses(Current) = {SequenceLength(1), Val(Level(i), Base(i) + 1)}
      BY <1>4, <2>6, UsesOf DEF AtTest
    <3> QED BY <1>1, <2>2, <2>3, <2>6, <3>1
  <2>7. CASE NumArgs = 3 /\ j \in {3, 5}
    <3>1. PICK a \in 1..NumArgs : Current = CmpOp(SequenceLength(a), Val(Level(i), Base(i) + 1))
      <4>1. 2 \in 1..NumArgs /\ 3 \in 1..NumArgs
        BY <2>7
      <4> QED BY <1>4, <2>7, <4>1 DEF AtTest
    <3>2. Uses(Current) = {SequenceLength(a), Val(Level(i), Base(i) + 1)}
      BY <3>1, UsesOf
    <3> QED BY <2>2, <2>3, <2>7, <3>2
  <2>8. CASE NumArgs = 3 /\ j \in {4, 6}
    <3>1. Current = AndOp(Val(Level(i), Base(i) + (j - 2)), Val(Level(i), Base(i) + (j - 1)))
      BY <1>4, <2>8 DEF AtTest
    <3>2. Uses(Current) = {Val(Level(i), Base(i) + (j - 2)), Val(Level(i), Base(i) + (j - 1))}
      BY <3>1, UsesOf
    <3>3. j - 2 \in 1..j - 1 /\ j - 1 \in 1..j - 1
      BY <2>8
    <3> QED BY <2>2, <3>2, <3>3
  <2>9. CASE j = 2 * NumArgs + 1
    <3>1. Uses(Current) = {Val(Level(i), Base(i) + 2 * NumArgs)}
      BY <1>1, <1>4, <2>9, UsesOf DEF AtTest
    <3>2. 2 * NumArgs \in 1..j - 1
      BY <1>1, <2>9
    <3> QED BY <2>2, <3>1, <3>2
  <2> QED BY <2>4, <2>5, <2>6, <2>7, <2>8, <2>9
<1>5. ASSUME NEW i \in 1..NumLevels, NEW p \in 1..ThenLen, AtThen(i, p)
      PROVE  \A v \in Uses(Current) : v \in DOMAIN env \/ v[1] = 0
  <2>1. /\ p \in 1..NumArgs \/ p = NumArgs + 1 \/ (p = NumArgs + 2 /\ ~ ResultIsStatic) \/ p = ThenLen
        /\ ThenLen \in Nat /\ ThenLen - 1 \in 1..ThenLen - 1
    BY <1>1 DEF ThenLen
  <2>2. ASSUME NEW q \in 1..p - 1 PROVE Val(Then(i), q) \in DOMAIN env
    BY <1>5 DEF AtThen, Taking, Defined
  <2>3. CASE p \in 1..NumArgs
    <3>1. Uses(Current) = {Arg(p)}
      BY <1>5, <2>3, UsesOf DEF AtThen
    <3> QED BY <1>2, <3>1
  <2>4. CASE p = NumArgs + 1
    <3> DEFINE args == [j \in 1..NumInputs |-> IF j <= NumArgs THEN Val(Then(i), j) ELSE Arg(j)]
    <3>1. Current = CallOp(Static(lengths[i]), args)
      BY <1>5, <2>4 DEF AtThen
    <3>2. /\ DOMAIN args = 1..NumInputs
          /\ \A j \in 1..NumInputs : args[j] = IF j <= NumArgs THEN Val(Then(i), j) ELSE Arg(j)
      OBVIOUS
    <3> HIDE DEF args
    <3>5. \A v \in Uses(Current) : \E j \in 1..NumInputs : v = args[j]
      <4>1. \A v \in Uses(CallOp(Static(lengths[i]), args)) : \E j \in DOMAIN args : v = args[j]
        BY UsesOfCall
      <4> QED BY <3>1, <3>2, <4>1
    <3>3. NumInputs \in Nat
      BY RunText, ArgsCount
    <3>4. ASSUME NEW j \in 1..NumInputs, j <= NumArgs PROVE Val(Then(i), j) \in DOMAIN env
      <4>1. j \in 1..p - 1
        BY <1>1, <2>4, <3>3, <3>4
      <4> QED BY <2>2, <4>1
    <3> QED BY <1>2, <3>2, <3>4, <3>5
  <2>5. CASE p = NumArgs + 2 /\ ~ ResultIsStatic
    <3>1. Uses(Current) = {Val(Then(i), NumArgs + 1)}
      BY <1>5, <2>5, UsesOf DEF AtThen
    <3>2. NumArgs + 1 \in 1..p - 1
      BY <1>1, <2>5
    <3> QED BY <2>2, <3>1, <3>2
  <2>6. CASE p = ThenLen
    <3>1. Uses(Current) = {Val(Then(i), ThenLen - 1)}
      BY <1>5, <2>6 DEF AtThen, YieldOp, Uses, Terminators
    <3> QED BY <2>1, <2>2, <2>6, <3>1
  <2> QED BY <2>1, <2>3, <2>4, <2>5, <2>6
<1>6. ASSUME AtFallback(1) PROVE \A v \in Uses(Current) : v \in DOMAIN env \/ v[1] = 0
  <2> DEFINE args == [j \in 1..NumInputs |-> Arg(j)]
  <2>1. Current = CallOp(Generic, args)
    BY <1>6 DEF AtFallback
  <2>2. DOMAIN args = 1..NumInputs /\ \A j \in 1..NumInputs : args[j] = Arg(j)
    OBVIOUS
  <2> HIDE DEF args
  <2>3. \A v \in Uses(Current) : \E j \in 1..NumInputs : v = args[j]
    <3>1. \A v \in Uses(CallOp(Generic, args)) : \E j \in DOMAIN args : v = args[j]
      BY UsesOfCall
    <3> QED BY <2>1, <2>2, <3>1
  <2> QED BY <1>2, <2>2, <2>3
<1>7. ASSUME Current.name \in Terminators
      PROVE  \A v \in Uses(Current) : v \in DOMAIN env \/ v[1] = 0
  <2>1. Uses(Current) = {Current.value}
    BY <1>7, UsesOf
  <2> QED BY <1>7, <2>1, Yields
<1>8. ASSUME NEW p \in 1..2, AtFallback(p), p # 1 PROVE Current.name \in Terminators
  BY <1>8, Names DEF Terminators
<1>9. ASSUME NEW i \in 1..NumLevels, AtEnd(i) PROVE Current.name \in Terminators
  BY <1>9, Names DEF Terminators
<1> QED BY <1>1, <1>3, <1>4, <1>5, <1>6, <1>7, <1>8, <1>9 DEF AtSomewhere

\* However deep the recursion of emitDispatchChain went, the wrapper is valid IR.
THEOREM Verifies == Spec => []WrapperVerifies
<1>1. IInv => WrapperVerifies
  BY Terminated, OperandsKnown DEF IInv, WrapperVerifies
<1> QED BY <1>1, Invariant, PTL

\* No cast to a static type is reached by an argument of another width.
THEOREM Casts == Spec => []CastsHold
<1>1. IInv => CastsHold
  <2> SUFFICES ASSUME EmitInv, RunInv, NEW v \in DOMAIN env,
                      blocks[v[1]][v[2]].name = "tensor.cast", env[v].from # 0
               PROVE  env[v].width = widths[env[v].from]
    BY DEF IInv, CastsHold
  <2>1. phase = "run" /\ EnvInv
    <3>1. DOMAIN <<>> = {}
      OBVIOUS
    <3> QED BY <3>1 DEF RunInv
  <2>2. /\ v[1] \in DOMAIN blocks /\ v[2] \in DOMAIN blocks[v[1]]
        /\ Value(v[1], v[2], env[v])
    BY <2>1 DEF EnvInv
  <2>3. NumLevels \in Nat \ {0} /\ NumArgs \in {1, 3}
    BY <2>1, RunText
  <2>4. v[1] # Fallback
    <3> SUFFICES ASSUME v[1] = Fallback PROVE FALSE
      OBVIOUS
    <3>1. IsFallback(blocks[v[1]]) /\ v[2] \in 1..2
      BY <2>1, <2>2, RunText
    <3> QED BY <3>1 DEF IsFallback, CallOp, YieldOp
  <2>5. ASSUME NEW k \in 1..NumLevels, v[1] = Level(k) PROVE FALSE
    <3>1. v[2] \in 1..IfPos(k) + 1 /\ IfPos(k) \in Nat
      BY <2>1, <2>2, <2>3, <2>5, RunText DEF IfPos, Base
    <3>2. v[2] < IfPos(k) \/ v[2] = IfPos(k) \/ v[2] = IfPos(k) + 1
      BY <3>1
    <3> QED BY <2>1, <2>5, <3>1, <3>2, LevelNames
  <2>6. ASSUME NEW k \in 1..NumLevels, v[1] = Then(k)
        PROVE  env[v].width = widths[env[v].from]
    <3>1. v[2] \in 1..ThenLen /\ ThenValue(k, v[2], env[v])
      BY <2>1, <2>2, <2>3, <2>6, RunText, ValueAt
    <3>2. v[2] # ThenLen
      BY <2>1, <2>6, <3>1, ThenNames
    <3>3. v[2] \in 1..NumArgs \/ v[2] = NumArgs + 1 \/ v[2] = NumArgs + 2
      BY <2>3, <3>1, <3>2 DEF ThenLen
    <3>4. v[2] \in 1..NumArgs
      BY <3>1, <3>3 DEF ThenValue, Result
    <3>5. env[v] = [from |-> v[2], width |-> lengths[k]] /\ widths[v[2]] = lengths[k]
      BY <3>1, <3>4 DEF ThenValue, Matches
    <3> QED BY <3>5
  <2> QED BY <2>1, <2>2, <2>4, <2>5, <2>6, BlockKinds
<1> QED BY <1>1, Invariant, PTL

\* The function reached is given every argument, with the types of its signature.
THEOREM Forwarded == Spec => []InputsForwarded
<1>1. IInv => InputsForwarded
  <2> SUFFICES ASSUME EmitInv, RunInv, callee # NoCallee PROVE InputsForwarded
    BY DEF IInv, InputsForwarded
  <2>1. OperandsInv
    BY DEF RunInv
  <2> QED BY <2>1 DEF OperandsInv, InputsForwarded
<1> QED BY <1>1, Invariant, PTL

\* What every region, and the wrapper, produce has the type callers expect.
THEOREM CastBack == Spec => []ResultsCastBack
<1>1. IInv => ResultsCastBack
  BY Yields DEF IInv, ResultsCastBack, Result
<1> QED BY <1>1, Invariant, PTL

-----------------------------------------------------------------------------
\* The wrapper implements Routing: emission and the operations on the way are
\* stutters, func.call is Route.  (That every call is answered rests on fairness
\* and is left to the runs.)
LEMMA CallRoutes ==
  ASSUME IInv, IInv', Call PROVE R!Route
<1>1. /\ phase = "run" /\ phase' = "run" /\ Current.name = "func.call"
      /\ UNCHANGED <<kind, lengths, blocks, widths>> /\ EmitInv /\ RunInv
      /\ callee' = Current.callee
  BY DEF Call, emitted, IInv
<1>2. NumArgs \in {1, 3} /\ AtSomewhere
  BY <1>1, RunText, Positions
<1>3. callee = NoCallee /\ Current.callee # NoCallee
  <2>1. AtFallback(1) \/ \E i \in 1..NumLevels : AtThen(i, NumArgs + 1)
    <3>1. \A j \in 1..2 * NumArgs + 1 : j = 1 \/ j \in {2, 3, 5} \/ j \in {4, 6} \/ j = 2 * NumArgs + 1
      BY <1>2
    <3> QED BY <1>1, <1>2, <3>1, Names DEF AtSomewhere
  <2>2. CASE AtFallback(1)
    BY <2>2, Callees DEF AtFallback, FallingBack, NotCalled, CallOp
  <2>3. ASSUME NEW i \in 1..NumLevels, AtThen(i, NumArgs + 1)
        PROVE  callee = NoCallee /\ Current.callee # NoCallee
    BY <1>2, <2>3, Callees DEF AtThen, Taking, NotCalled, CallOp
  <2> QED BY <2>1, <2>2, <2>3
<1>4. callee' = R!CalleeFor(widths)
  <2>1. callee' # NoCallee'
    BY <1>1, <1>3 DEF NoCallee
  <2>2. callee' = R!CalleeFor(widths)'
    BY <1>1, <2>1 DEF IInv, RunInv, OperandsInv
  <2> QED BY <1>1, <2>2, SameMeaning
<1>5. widths # NoCall
  <2>1. widths \in [1..NumArgs -> Widths] /\ 1 \in 1..NumArgs
    BY <1>1, <1>2 DEF RunInv
  <2>2. DOMAIN widths # {}
    BY <2>1
  <2>3. DOMAIN NoCall = {}
    BY DEF NoCall, R!NoCall
  <2> QED BY <2>2, <2>3
<1> QED BY <1>1, <1>3, <1>4, <1>5 DEF R!Route, NoCall, NoCallee

\* The wrapper takes no step that Routing does not allow: a call reaches the
\* function for its widths and is answered by it.
THEOREM ImplementsRouting == Spec => R!Init /\ [][R!Next]_(R!vars)
<1>1. Init => R!Init
  <2> SUFFICES ASSUME Init PROVE R!Init
    OBVIOUS
  <2>1. /\ kind \in EntryKinds /\ lengths \in LengthLists
        /\ widths = NoCall /\ callee = NoCallee
    BY DEF Init
  <2>2. Contract(kind).sequenceArguments = 1..NumArgs /\ NumArgs \in {1, 3}
    BY <2>1, ArgsCount
  <2>3. 1..NumArgs \in SUBSET (Nat \ {0}) /\ 1..NumArgs # {}
    <3>1. 1 \in 1..NumArgs /\ \A a \in 1..NumArgs : a \in Nat \ {0}
      BY <2>2
    <3> QED BY <3>1
  <2>4. {lengths[i] : i \in DOMAIN lengths} \in SUBSET (Nat \ {0})
    BY <2>1, LengthsType
  <2>5. Contract(kind).sequenceArguments \in (SUBSET (Nat \ {0})) \ {{}}
    BY <2>2, <2>3
  <2> QED BY <2>1, <2>4, <2>5 DEF R!Init, NoCall, NoCallee
<1>2. IInv /\ IInv' /\ [Next]_vars => [R!Next]_(R!vars)
  <2> SUFFICES ASSUME IInv, IInv', [Next]_vars PROVE [R!Next]_(R!vars)
    OBVIOUS
  <2>1. CASE Invoke
    <3>1. phase = "ready" /\ widths' \in [1..NumArgs -> Widths]
          /\ kind' = kind /\ lengths' = lengths /\ callee' = callee
      BY <2>1 DEF Invoke, emitted
    <3>2. widths = NoCall /\ Contract(kind).sequenceArguments = 1..NumArgs
      BY <3>1, ArgsCount DEF IInv, RunInv, EmitInv
    <3>3. R!Invoke
      BY <3>1, <3>2 DEF R!Invoke, NoCall
    <3> QED BY <3>3 DEF R!Next
  <2>2. CASE Call
    BY <2>2, CallRoutes DEF R!Next
  <2>3. CASE Return
    <3>1. callee # NoCallee
      BY <2>3, Yields DEF Return, Terminators, IInv
    <3>2. R!Return
      BY <2>3, <3>1 DEF Return, emitted, NoCall, NoCallee, R!Return
    <3> QED BY <3>2 DEF R!Next
  <2>4. CASE \/ Emit \/ Constant \/ Dim \/ Compare \/ And \/ Branch \/ Cast \/ Yield
             \/ UNCHANGED vars
    <3>1. UNCHANGED <<kind, lengths, widths, callee>>
      BY <2>4 DEF Emit, EmitClone, emitDispatchWrapper, emitDispatchChain, EmitGenericCall,
                  ReturnFromChain, Constant, Dim, Compare, And, Branch, Cast, Yield,
                  vars, emitted, runState
    <3> QED BY <3>1 DEF R!vars
  <2> QED BY <2>1, <2>2, <2>3, <2>4 DEF Next, Execute
<1> QED BY <1>1, <1>2, Invariant, PTL DEF Spec

-----------------------------------------------------------------------------
\* A set of numbers that is not empty has a least element.
LEMMA LeastNumber ==
  ASSUME NEW T \in SUBSET Nat, T # {}
  PROVE  \E m \in T : \A k \in T : m <= k
<1> DEFINE less == StrictSubsetOrdering(Nat)
           U == {1..k : k \in T}
<1>1. U \subseteq FiniteSubsetsOf(Nat) /\ U # {}
  <2>1. \A k \in T : 1..k \subseteq Nat /\ IsFiniteSet(1..k)
    BY FS_Interval
  <2> QED BY <2>1 DEF FiniteSubsetsOf
<1>2. \E x \in U : \A y \in U : ~ (<<y, x>> \in less)
  <2> HIDE DEF less, U
  <2>1. IsWellFoundedOn(less, FiniteSubsetsOf(Nat))
    BY FS_StrictSubsetOrderingWellFounded DEF less
  <2> QED BY <1>1, <2>1, WFMin
<1>3. PICK m \in T : \A k \in T : ~ (<<1..k, 1..m>> \in less)
  BY <1>2
<1>4. ASSUME NEW k \in T, k < m PROVE FALSE
  <2>1. k \in Nat /\ m \in Nat
    OBVIOUS
  <2>2. 1..k \subseteq 1..m /\ 1..k \subseteq Nat /\ 1..m \subseteq Nat
    BY <1>4, <2>1
  <2>3. 1..k # 1..m
    BY <1>4, <2>1
  <2> QED BY <1>3, <2>2, <2>3 DEF StrictSubsetOrdering
<1> QED BY <1>4

\* Induction: a set of numbers that has 0, and with every number the next, has
\* them all.
LEMMA UpTo ==
  ASSUME NEW T, NEW m \in Nat, NEW n \in Nat, m \in T,
         \A k \in m..n - 1 : k \in T => k + 1 \in T
  PROVE  m..n \subseteq T
<1> DEFINE U == {k \in m..n : k \notin T}
<1>1. SUFFICES ASSUME U # {} PROVE FALSE
  OBVIOUS
<1>2. PICK k \in U : \A j \in U : k <= j
  <2>1. U \in SUBSET Nat
    OBVIOUS
  <2> HIDE DEF U
  <2> QED BY <1>1, <2>1, LeastNumber
<1>3. k # m /\ k - 1 \in m..n - 1 /\ k - 1 \notin U
  BY <1>2
<1>4. k - 1 \in T /\ (k - 1) + 1 = k
  BY <1>2, <1>3
<1> QED BY <1>2, <1>3, <1>4

\* The same downwards.
LEMMA DownTo ==
  ASSUME NEW T, NEW m \in Nat, NEW n \in Nat, n \in T,
         \A k \in m..n - 1 : k + 1 \in T => k \in T
  PROVE  m..n \subseteq T
<1> DEFINE U == {k \in 0..n : n - k \in m..n /\ n - k \notin T}
<1>1. SUFFICES ASSUME U # {} PROVE FALSE
  <2>1. ASSUME U = {}, NEW k \in m..n, k \notin T PROVE FALSE
    <3>1. n - k \in 0..n /\ n - (n - k) = k
      OBVIOUS
    <3>2. n - k \in U
      BY <2>1, <3>1
    <3> QED BY <2>1, <3>2
  <2> QED BY <2>1
<1>2. PICK k \in U : \A j \in U : k <= j
  <2>1. U \in SUBSET Nat
    OBVIOUS
  <2> HIDE DEF U
  <2> QED BY <1>1, <2>1, LeastNumber
<1>3. k # 0 /\ k - 1 \in 0..n /\ k - 1 \notin U /\ n - k \in m..n - 1
  BY <1>2
<1>4. n - (k - 1) \in T
  BY <1>3
<1>5. n - k + 1 = n - (k - 1)
  BY <1>2
<1> QED BY <1>2, <1>3, <1>4, <1>5

-----------------------------------------------------------------------------
\* Sequences behind one another.
IsFlatten(g, ss, n) == g = [i \in 1..n |-> IF i = 1 THEN ss[i] ELSE g[i-1] \o ss[i]]

\* The recursive function that puts sequences behind one another exists.
LEMMA FlattenExists ==
  ASSUME NEW ss, NEW n \in Nat
  PROVE  \E g : IsFlatten(g, ss, n)
<1> DEFINE T == {k \in Nat : \E g : IsFlatten(g, ss, k)}
<1>1. 0 \in T
  <2>1. IsFlatten([i \in {} |-> i], ss, 0)
    BY DEF IsFlatten
  <2> QED BY <2>1
<1>2. \A k \in 0..n - 1 : k \in T => k + 1 \in T
  <2> TAKE k \in 0..n - 1
  <2>1. SUFFICES ASSUME NEW g, IsFlatten(g, ss, k) PROVE \E h : IsFlatten(h, ss, k + 1)
    OBVIOUS
  <2> DEFINE h == [i \in 1..k + 1 |-> IF i <= k THEN g[i]
                                      ELSE IF i = 1 THEN ss[i] ELSE g[i-1] \o ss[i]]
  <2>2. IsFlatten(h, ss, k + 1)
    <3>1. ASSUME NEW i \in 1..k + 1 PROVE h[i] = IF i = 1 THEN ss[i] ELSE h[i-1] \o ss[i]
      <4>1. i # 1 => i - 1 \in 1..k /\ h[i - 1] = g[i - 1]
        OBVIOUS
      <4>2. CASE i <= k
        <5>1. i \in 1..k
          BY <4>2
        <5>2. h[i] = IF i = 1 THEN ss[i] ELSE g[i-1] \o ss[i]
          BY <2>1, <4>2, <5>1 DEF IsFlatten
        <5> HIDE DEF h
        <5> QED BY <4>1, <5>2
      <4>3. CASE i = k + 1
        <5>1. h[i] = IF i = 1 THEN ss[i] ELSE g[i-1] \o ss[i]
          BY <4>3
        <5> HIDE DEF h
        <5> QED BY <4>1, <5>1
      <4> QED BY <4>2, <4>3
    <3>2. h = [i \in 1..k + 1 |-> h[i]]
      OBVIOUS
    <3> HIDE DEF h
    <3> QED BY <3>1, <3>2 DEF IsFlatten
  <2> QED BY <2>2
<1>3. n \in T
  <2> HIDE DEF T
  <2> QED BY <1>1, <1>2, UpTo
<1> QED BY <1>3

\* FlattenSeq is its last value.
LEMMA FlattenSeqIs ==
  ASSUME NEW ss, IsSeq(ss), Len(ss) # 0
  PROVE  \E g : IsFlatten(g, ss, Len(ss)) /\ SE!FlattenSeq(ss) = g[Len(ss)]
<1> DEFINE g == CHOOSE g : g = [i \in 1..Len(ss) |-> IF i = 1 THEN ss[i] ELSE g[i-1] \o ss[i]]
<1>1. SE!FlattenSeq(ss) = g[Len(ss)]
  BY DEF SE!FlattenSeq
<1>2. IsFlatten(g, ss, Len(ss))
  <2>1. \E f : IsFlatten(f, ss, Len(ss))
    BY FlattenExists DEF IsSeq
  <2> QED BY <2>1, Zenon DEF IsFlatten
<1> QED BY <1>1, <1>2

\* Two sequences behind one another have the elements of both.
LEMMA ConcatElements ==
  ASSUME NEW s, NEW t, IsSeq(s), IsSeq(t)
  PROVE  IsSeq(s \o t) /\ Elements(s \o t) = Elements(s) \cup Elements(t)
<1> DEFINE u == s \o t
<1>1. /\ IsSeq(u) /\ Len(u) = Len(s) + Len(t)
      /\ \A i \in 1..Len(s) : u[i] = s[i]
      /\ \A i \in Len(s) + 1..Len(s) + Len(t) : u[i] = t[i - Len(s)]
  BY ConcatIsSeq
<1> HIDE DEF u
<1>2. Len(s) \in Nat /\ Len(t) \in Nat
  BY DEF IsSeq
<1>3. ASSUME NEW x \in Elements(u) PROVE x \in Elements(s) \cup Elements(t)
  <2>1. PICK i \in 1..Len(s) + Len(t) : x = u[i]
    BY <1>1, <1>3 DEF Elements
  <2>2. CASE i <= Len(s)
    BY <1>1, <1>2, <2>1, <2>2 DEF Elements
  <2>3. CASE ~ (i <= Len(s))
    <3>1. i \in Len(s) + 1..Len(s) + Len(t) /\ i - Len(s) \in 1..Len(t)
      BY <1>2, <2>3
    <3>2. x = t[i - Len(s)]
      BY <1>1, <2>1, <3>1
    <3> QED BY <3>1, <3>2 DEF Elements
  <2> QED BY <2>2, <2>3
<1>4. ASSUME NEW x \in Elements(s) PROVE x \in Elements(u)
  <2>1. PICK i \in 1..Len(s) : x = s[i]
    BY DEF Elements
  <2>2. i \in 1..Len(u) /\ x = u[i]
    BY <1>1, <1>2, <2>1
  <2> QED BY <2>2 DEF Elements
<1>5. ASSUME NEW x \in Elements(t) PROVE x \in Elements(u)
  <2>1. PICK i \in 1..Len(t) : x = t[i]
    BY DEF Elements
  <2>2. i + Len(s) \in Len(s) + 1..Len(s) + Len(t) /\ (i + Len(s)) - Len(s) = i
    BY <1>2
  <2>3. u[i + Len(s)] = t[(i + Len(s)) - Len(s)]
    BY <1>1, <2>2
  <2>4. i + Len(s) \in 1..Len(u) /\ x = u[i + Len(s)]
    BY <1>1, <1>2, <2>1, <2>2, <2>3
  <2> QED BY <2>4 DEF Elements
<1>6. IsSeq(s \o t)
  BY <1>1 DEF u
<1>7. Elements(u) = Elements(s) \cup Elements(t)
  BY <1>3, <1>4, <1>5
<1> QED BY <1>6, <1>7 DEF u

\* The result is a sequence of what the sequences have.
LEMMA FlattenElements ==
  ASSUME NEW ss, IsSeq(ss), \A i \in 1..Len(ss) : IsSeq(ss[i])
  PROVE  /\ IsSeq(SE!FlattenSeq(ss))
         /\ \A x : x \in Elements(SE!FlattenSeq(ss)) <=>
                    \E i \in 1..Len(ss) : x \in Elements(ss[i])
<1>0. PICK n \in Nat : n = Len(ss)
  BY DEF IsSeq
<1>1. CASE n = 0
  <2>1. ss = <<>> /\ SE!FlattenSeq(ss) = ss
    BY <1>0, <1>1, EmptyIfNone DEF SE!FlattenSeq
  <2> QED BY <1>0, <1>1, <2>1 DEF Elements
<1>2. CASE n # 0
  <2>1. PICK g : IsFlatten(g, ss, n) /\ SE!FlattenSeq(ss) = g[n]
    BY <1>0, <1>2, FlattenSeqIs
  <2> DEFINE T == {k \in 1..n : /\ IsSeq(g[k])
                                /\ \A x : x \in Elements(g[k]) <=> \E i \in 1..k : x \in Elements(ss[i])}
  <2>2. 1 \in T
    <3>1. g[1] = ss[1] /\ 1 \in 1..n
      BY <1>2, <2>1 DEF IsFlatten
    <3> QED BY <1>0, <3>1
  <2>3. ASSUME NEW k \in 1..n - 1, k \in T PROVE k + 1 \in T
    <3>1. k + 1 \in 1..n /\ k + 1 # 1 /\ (k + 1) - 1 = k
      OBVIOUS
    <3>2. g[k + 1] = g[k] \o ss[k + 1]
      BY <2>1, <3>1 DEF IsFlatten
    <3>3. IsSeq(g[k]) /\ IsSeq(ss[k + 1])
      BY <1>0, <2>3, <3>1
    <3>4. IsSeq(g[k + 1]) /\ Elements(g[k + 1]) = Elements(g[k]) \cup Elements(ss[k + 1])
      BY <3>2, <3>3, ConcatElements
    <3>5. 1..k + 1 = 1..k \cup {k + 1}
      OBVIOUS
    <3> QED BY <2>3, <3>1, <3>4, <3>5
  <2>4. 1..n \subseteq T
    <3>1. 1 \in Nat /\ 1 \in T /\ \A k \in 1..n - 1 : k \in T => k + 1 \in T
      BY <2>2, <2>3
    <3> HIDE DEF T
    <3> QED BY <3>1, UpTo
  <2> QED BY <1>0, <1>2, <2>1, <2>4
<1> QED BY <1>1, <1>2

-----------------------------------------------------------------------------
\* A wrapper as the editor leaves it.  Level i still is the block Level(i), or
\* has become a leaf, a block of casts, one call and a yield.  The regions of
\* its scf.if are Then(i) and Level(i + 1), in either order.

\* The values that precede a position of a level, there and in the levels
\* around it.
Above(i, p) ==
  {v \in Nat \X Nat :
     \E j \in 1..i : v[1] = Level(j) /\ v[2] \in 1..(IF j = i THEN p ELSE IfPos(j)) - 1}

IsTest(op, i, p) ==
  \/ op.name = "arith.constant"
  \/ op.name = "tensor.dim" /\ op.axis \in Above(i, p) /\ \E a \in 1..NumArgs : op.src = Arg(a)
  \/ op.name \in {"arith.cmpi", "arith.andi"} /\ op.lhs \in Above(i, p) /\ op.rhs \in Above(i, p)

IsBranch(op, i) ==
  /\ op.name = "scf.if" /\ op.cond \in Above(i, IfPos(i))
  /\ \/ op.then = Then(i) /\ op.else = Level(i + 1)
     \/ op.then = Level(i + 1) /\ op.else = Then(i)

IsChainOf(block, i) ==
  /\ Len(block) = IfPos(i) + 1
  /\ \A p \in 1..IfPos(i) - 1 : IsTest(block[p], i, p)
  /\ IsBranch(block[IfPos(i)], i)
  /\ block[IfPos(i) + 1].name \in Terminators

IsChain(i) == IsChainOf(blocks[Level(i)], i)

LeafName(p, c, last) == IF p = c THEN "func.call" ELSE IF p = last THEN "scf.yield" ELSE "tensor.cast"

IsLeafOf(block, c) ==
  /\ c \in 1..Len(block) - 1 /\ IsSeq(block[c].operands)
  /\ \A p \in 1..Len(block) : block[p].name = LeafName(p, c, Len(block))

IsLeaf(b) == \E c \in 1..Len(blocks[b]) - 1 : IsLeafOf(blocks[b], c)

Shaped ==
  /\ kind \in EntryKinds /\ lengths \in LengthLists
  /\ IsSeq(blocks) /\ Len(blocks) = Fallback
  /\ \A b \in 1..Fallback : IsSeq(blocks[b])
  /\ \A i \in 1..NumLevels : IsLeaf(Then(i)) /\ (IsChain(i) \/ (i > 1 /\ IsLeaf(Level(i))))
  /\ IsLeaf(Fallback)

\* The numbers of an edited wrapper: its levels, its blocks and its arguments.
LEMMA ShapedNumbers ==
  ASSUME Shaped
  PROVE  /\ NumLevels \in Nat \ {0} /\ NumArgs \in {1, 3} /\ Fallback = 2 * NumLevels + 1
         /\ DOMAIN blocks = 1..Fallback /\ DOMAIN lengths = 1..NumLevels
         /\ \A b \in 1..Fallback : DOMAIN blocks[b] = 1..Len(blocks[b]) /\ Len(blocks[b]) \in Nat
         /\ \A i \in 1..NumLevels :
              /\ Level(i) \in 1..Fallback /\ Then(i) \in 1..Fallback
              /\ Level(i + 1) \in 1..Fallback
              /\ Then(i) > Level(i) /\ Level(i + 1) > Level(i)
              /\ IfPos(i) \in Nat \ {0}
         /\ Level(1) = 1 /\ Level(NumLevels + 1) = Fallback
         /\ \A b \in 1..Fallback : \/ \E i \in 1..NumLevels : b = Level(i) \/ b = Then(i)
                                   \/ b = Fallback
<1>1. PICK n \in Nat \ {0} : n = NumLevels
  BY LengthsType DEF Shaped
<1>2. NumArgs \in {1, 3}
  BY ArgsCount DEF Shaped
<1>3. Fallback = 2 * n + 1 /\ Fallback \in Nat
  BY <1>1 DEF Fallback
<1>4. DOMAIN blocks = 1..Fallback
  BY <1>3 DEF Shaped, IsSeq
<1>5. DOMAIN lengths = 1..NumLevels
  BY LengthsType DEF Shaped
<1>6. \A b \in 1..Fallback : DOMAIN blocks[b] = 1..Len(blocks[b]) /\ Len(blocks[b]) \in Nat
  <2> TAKE b \in 1..Fallback
  <2>1. IsSeq(blocks[b])
    BY DEF Shaped
  <2> QED BY <2>1 DEF IsSeq
<1>7. ASSUME NEW i \in 1..n
      PROVE  /\ Level(i) \in 1..Fallback /\ Then(i) \in 1..Fallback
             /\ Level(i + 1) \in 1..Fallback
             /\ Then(i) > Level(i) /\ Level(i + 1) > Level(i)
             /\ IfPos(i) \in Nat \ {0}
  BY <1>2, <1>3 DEF Level, Then, IfPos, Base
<1>8. Level(1) = 1 /\ Level(n + 1) = Fallback
  BY <1>3 DEF Level
<1>9. ASSUME NEW b \in 1..Fallback
      PROVE  (\E i \in 1..n : b = Level(i) \/ b = Then(i)) \/ b = Fallback
  <2>1. CASE b = 2 * n + 1
    BY <1>3, <2>1
  <2>2. CASE b # 2 * n + 1
    <3>1. b \in 1..2 * n
      BY <1>3, <2>2
    <3>2. PICK q \in Nat : b = 2 * q \/ b = 2 * q + 1
      <4>1. b = 2 * (b \div 2) + (b % 2) /\ b % 2 \in {0, 1} /\ b \div 2 \in Nat
        BY <3>1
      <4> QED BY <4>1
    <3>3. CASE b = 2 * q
      <4>1. q \in 1..n
        BY <3>1, <3>3
      <4> QED BY <3>3, <4>1 DEF Then
    <3>4. CASE b = 2 * q + 1
      <4>1. q + 1 \in 1..n /\ b = 2 * (q + 1) - 1
        BY <3>1, <3>4
      <4> QED BY <4>1 DEF Level
    <3> QED BY <3>2, <3>3, <3>4
  <2> QED BY <2>1, <2>2
<1> QED BY <1>1, <1>2, <1>3, <1>4, <1>5, <1>6, <1>7, <1>8, <1>9

\* Where an scf.if can be, and what it holds.
LEMMA Nested ==
  ASSUME Shaped, NEW b \in 1..Fallback, NEW p \in 1..Len(blocks[b]),
         blocks[b][p].name = "scf.if"
  PROVE  /\ \E i \in 1..NumLevels : b = Level(i) /\ p = IfPos(i) /\ IsChain(i)
         /\ blocks[b][p].then \in 1..Fallback /\ blocks[b][p].then > b
         /\ blocks[b][p].else \in 1..Fallback /\ blocks[b][p].else > b
<1>1. ~ IsLeaf(b)
  <2>1. ASSUME NEW c, IsLeafOf(blocks[b], c) PROVE FALSE
    BY <2>1 DEF IsLeafOf, LeafName
  <2> QED BY <2>1 DEF IsLeaf
<1>2. PICK i \in 1..NumLevels : b = Level(i) /\ IsChain(i)
  BY <1>1, ShapedNumbers DEF Shaped
<1>3. p = IfPos(i)
  <2>1. IfPos(i) \in Nat \ {0} /\ Len(blocks[b]) = IfPos(i) + 1
    BY <1>2, ShapedNumbers DEF IsChain, IsChainOf
  <2>2. p # IfPos(i) + 1
    BY <1>2 DEF IsChain, IsChainOf, Terminators
  <2>3. p \notin 1..IfPos(i) - 1
    BY <1>2 DEF IsChain, IsChainOf, IsTest
  <2> QED BY <2>1, <2>2, <2>3
<1>4. IsBranch(blocks[b][p], i)
  BY <1>2, <1>3 DEF IsChain, IsChainOf
<1> QED BY <1>2, <1>3, <1>4, ShapedNumbers DEF IsBranch

-----------------------------------------------------------------------------
\* The text.
Line(g, b, p) ==
  IF blocks[b][p].name = "scf.if"
    THEN <<Val(b, p)>> \o g[blocks[b][p].then] \o g[blocks[b][p].else]
    ELSE <<Val(b, p)>>

Lines(g, b) == [p \in DOMAIN blocks[b] |-> Line(g, b, p)]

IsTextFrom(g, m) == g = [b \in m..Fallback |-> SE!FlattenSeq(Lines(g, b))]

\* The recursive function that writes out the blocks exists.
LEMMA TextExists ==
  ASSUME Shaped PROVE \E g : IsTextFrom(g, 1)
<1> DEFINE T == {m \in Nat : \E g : IsTextFrom(g, m)}
<1>0. PICK n \in Nat : n = Fallback
  BY ShapedNumbers
<1>1. n + 1 \in T
  <2>1. (n + 1)..n = {}
    OBVIOUS
  <2>2. IsTextFrom([b \in {} |-> b], n + 1)
    BY <1>0, <2>1 DEF IsTextFrom
  <2> QED BY <2>2
<1>2. ASSUME NEW m \in 1..(n + 1) - 1, m + 1 \in T PROVE m \in T
  <2>1. PICK g : IsTextFrom(g, m + 1)
    BY <1>2
  <2> DEFINE h == [b \in m..n |-> IF b = m THEN SE!FlattenSeq(Lines(g, m)) ELSE g[b]]
  <2>2. \A b \in m + 1..n : h[b] = g[b]
    OBVIOUS
  <2>3. h = [b \in m..n |-> h[b]] /\ h[m] = SE!FlattenSeq(Lines(g, m))
    OBVIOUS
  <2> HIDE DEF h
  <2>4. ASSUME NEW b \in m..n PROVE Lines(h, b) = Lines(g, b)
    <3>1. b \in 1..Fallback
      BY <1>0
    <3>2. ASSUME NEW p \in DOMAIN blocks[b] PROVE Line(h, b, p) = Line(g, b, p)
      <4>1. CASE blocks[b][p].name = "scf.if"
        <5>1. p \in 1..Len(blocks[b])
          BY <3>1, ShapedNumbers
        <5>2. blocks[b][p].then \in m + 1..n /\ blocks[b][p].else \in m + 1..n
          BY <1>0, <3>1, <4>1, <5>1, Nested
        <5> QED BY <2>2, <5>2 DEF Line
      <4>2. CASE blocks[b][p].name # "scf.if"
        BY <4>2 DEF Line
      <4> QED BY <4>1, <4>2
    <3> QED BY <3>2 DEF Lines
  <2>5. ASSUME NEW b \in m..n PROVE h[b] = SE!FlattenSeq(Lines(h, b))
    <3>1. CASE b = m
      BY <2>3, <2>4, <3>1
    <3>2. CASE b # m
      <4>1. b \in m + 1..n
        BY <3>2
      <4>2. g[b] = SE!FlattenSeq(Lines(g, b))
        BY <1>0, <2>1, <4>1 DEF IsTextFrom
      <4> QED BY <2>2, <2>4, <4>1, <4>2
    <3> QED BY <3>1, <3>2
  <2>6. IsTextFrom(h, m)
    BY <1>0, <2>3, <2>5 DEF IsTextFrom
  <2>7. m \in Nat
    OBVIOUS
  <2> QED BY <2>6, <2>7
<1>3. 1..n + 1 \subseteq T
  <2>1. 1 \in Nat /\ n + 1 \in Nat /\ n + 1 \in T /\ \A m \in 1..(n + 1) - 1 : m + 1 \in T => m \in T
    BY <1>1, <1>2
  <2> HIDE DEF T
  <2> QED BY <2>1, DownTo
<1>4. 1 \in T
  BY <1>3
<1> QED BY <1>4

\* Text is that function.
LEMMA TextIs ==
  ASSUME Shaped
  PROVE  IsTextFrom(Text, 1)
<1> DEFINE text == CHOOSE g : g = [b \in DOMAIN blocks |->
        SE!FlattenSeq([p \in DOMAIN blocks[b] |->
          IF blocks[b][p].name = "scf.if"
            THEN <<Val(b, p)>> \o g[blocks[b][p].then] \o g[blocks[b][p].else]
            ELSE <<Val(b, p)>>])]
<1>1. Text = text
  BY Zenon DEF Text
<1>2. DOMAIN blocks = 1..Fallback
  BY ShapedNumbers
<1>3. \E g : g = [b \in DOMAIN blocks |->
        SE!FlattenSeq([p \in DOMAIN blocks[b] |->
          IF blocks[b][p].name = "scf.if"
            THEN <<Val(b, p)>> \o g[blocks[b][p].then] \o g[blocks[b][p].else]
            ELSE <<Val(b, p)>>])]
  BY <1>2, TextExists, Zenon DEF IsTextFrom, Lines, Line
<1>4. IsTextFrom(text, 1)
  <2>1. text = [b \in DOMAIN blocks |->
        SE!FlattenSeq([p \in DOMAIN blocks[b] |->
          IF blocks[b][p].name = "scf.if"
            THEN <<Val(b, p)>> \o text[blocks[b][p].then] \o text[blocks[b][p].else]
            ELSE <<Val(b, p)>>])]
    BY <1>3, Zenon
  <2> HIDE DEF text
  <2> QED BY <1>2, <2>1, Zenon DEF IsTextFrom, Lines, Line
<1> QED BY <1>1, <1>4, Zenon

-----------------------------------------------------------------------------
\* What the text of a block has.
LEMMA LinesAreSeqs ==
  ASSUME Shaped, NEW b \in 1..Fallback,
         \A c \in b + 1..Fallback : IsSeq(Text[c])
  PROVE  /\ IsSeq(Lines(Text, b)) /\ Len(Lines(Text, b)) = Len(blocks[b])
         /\ \A p \in 1..Len(blocks[b]) :
              /\ Lines(Text, b)[p] = Line(Text, b, p)
              /\ IsSeq(Line(Text, b, p))
              /\ Elements(Line(Text, b, p)) =
                   IF blocks[b][p].name = "scf.if"
                     THEN {Val(b, p)} \cup Elements(Text[blocks[b][p].then])
                                      \cup Elements(Text[blocks[b][p].else])
                     ELSE {Val(b, p)}
<1>1. DOMAIN blocks[b] = 1..Len(blocks[b]) /\ Len(blocks[b]) \in Nat
  BY ShapedNumbers
<1>2. Lines(Text, b) = [p \in 1..Len(blocks[b]) |-> Line(Text, b, p)]
  BY <1>1 DEF Lines
<1>3. IsSeq(Lines(Text, b)) /\ Len(Lines(Text, b)) = Len(blocks[b])
  BY <1>1, <1>2, FunctionIsSeq
<1>4. ASSUME NEW p \in 1..Len(blocks[b])
      PROVE  /\ IsSeq(Line(Text, b, p))
             /\ Elements(Line(Text, b, p)) =
                   IF blocks[b][p].name = "scf.if"
                     THEN {Val(b, p)} \cup Elements(Text[blocks[b][p].then])
                                      \cup Elements(Text[blocks[b][p].else])
                     ELSE {Val(b, p)}
  <2> DEFINE own == <<Val(b, p)>>
             t == Text[blocks[b][p].then]
             e == Text[blocks[b][p].else]
  <2>1. IsSeq(own) /\ Elements(own) = {Val(b, p)}
    BY SingletonIsSeq DEF Elements
  <2>2. CASE blocks[b][p].name = "scf.if"
    <3>1. IsSeq(t) /\ IsSeq(e)
      <4>1. /\ blocks[b][p].then \in 1..Fallback /\ blocks[b][p].then > b
            /\ blocks[b][p].else \in 1..Fallback /\ blocks[b][p].else > b
        BY <2>2, Nested
      <4>2. Fallback \in Nat
        BY ShapedNumbers
      <4>3. blocks[b][p].then \in b + 1..Fallback /\ blocks[b][p].else \in b + 1..Fallback
        BY <4>1, <4>2
      <4> QED BY <4>3
    <3>2. Line(Text, b, p) = (own \o t) \o e
      BY <2>2 DEF Line
    <3> HIDE DEF own, t, e
    <3>3. IsSeq(own \o t) /\ Elements(own \o t) = Elements(own) \cup Elements(t)
      BY <2>1, <3>1, ConcatElements
    <3>4. /\ IsSeq((own \o t) \o e)
          /\ Elements((own \o t) \o e) = Elements(own \o t) \cup Elements(e)
      BY <3>1, <3>3, ConcatElements
    <3>5. Elements((own \o t) \o e) = {Val(b, p)} \cup Elements(t) \cup Elements(e)
      BY <2>1, <3>3, <3>4
    <3>6. IsSeq(Line(Text, b, p))
          /\ Elements(Line(Text, b, p)) = {Val(b, p)} \cup Elements(t) \cup Elements(e)
      BY <3>2, <3>4, <3>5
    <3> QED BY <2>2, <3>6 DEF t, e
  <2>3. CASE blocks[b][p].name # "scf.if"
    <3>1. Line(Text, b, p) = own
      BY <2>3 DEF Line
    <3> HIDE DEF own
    <3> QED BY <2>1, <2>3, <3>1
  <2> QED BY <2>2, <2>3
<1> QED BY <1>2, <1>3, <1>4

\* The text of a block is a sequence.
LEMMA TextSeqs ==
  ASSUME Shaped
  PROVE  \A b \in 1..Fallback : IsSeq(Text[b])
<1> DEFINE T == {m \in Nat : \A c \in m..Fallback : IsSeq(Text[c])}
<1>0. PICK n \in Nat \ {0} : n = Fallback
  BY ShapedNumbers
<1>1. n + 1 \in T
  BY <1>0
<1>2. ASSUME NEW m \in 1..(n + 1) - 1, m + 1 \in T PROVE m \in T
  <2>1. m \in 1..Fallback /\ m \in Nat
    BY <1>0
  <2>2. Text[m] = SE!FlattenSeq(Lines(Text, m))
    BY <2>1, TextIs DEF IsTextFrom
  <2>3. /\ IsSeq(Lines(Text, m))
        /\ \A p \in 1..Len(Lines(Text, m)) : IsSeq(Lines(Text, m)[p])
    BY <1>2, <2>1, LinesAreSeqs
  <2>4. IsSeq(Text[m])
    BY <2>2, <2>3, FlattenElements
  <2>5. m..Fallback = {m} \cup (m + 1..Fallback)
    BY <1>0
  <2> QED BY <1>2, <2>1, <2>4, <2>5
<1>3. 1..n + 1 \subseteq T
  <2>1. 1 \in Nat /\ n + 1 \in Nat /\ n + 1 \in T /\ \A m \in 1..(n + 1) - 1 : m + 1 \in T => m \in T
    BY <1>1, <1>2
  <2> HIDE DEF T
  <2> QED BY <2>1, DownTo
<1>4. 1 \in T
  BY <1>3
<1> QED BY <1>4

\* The operations of a block.
Own(b) == {Val(b, p) : p \in 1..Len(blocks[b])}

\* The text of a leaf has its own operations, that of a level also those of its
\* two regions.
LEMMA TextElements ==
  ASSUME Shaped
  PROVE  /\ \A b \in 1..Fallback : IsLeaf(b) => Elements(Text[b]) = Own(b)
         /\ \A i \in 1..NumLevels : IsChain(i) =>
              Elements(Text[Level(i)]) = Own(Level(i)) \cup Elements(Text[Then(i)])
                                                       \cup Elements(Text[Level(i + 1)])
<1>1. ASSUME NEW b \in 1..Fallback
      PROVE  \A x : x \in Elements(Text[b]) <=>
               \E p \in 1..Len(blocks[b]) : x \in Elements(Line(Text, b, p))
  <2>1. Text[b] = SE!FlattenSeq(Lines(Text, b))
    BY TextIs DEF IsTextFrom
  <2>2. \A c \in b + 1..Fallback : IsSeq(Text[c])
    BY TextSeqs, ShapedNumbers
  <2>3. /\ IsSeq(Lines(Text, b)) /\ Len(Lines(Text, b)) = Len(blocks[b])
        /\ \A p \in 1..Len(blocks[b]) : /\ Lines(Text, b)[p] = Line(Text, b, p)
                                        /\ IsSeq(Line(Text, b, p))
    BY <2>2, LinesAreSeqs
  <2>4. \A x : x \in Elements(SE!FlattenSeq(Lines(Text, b))) <=>
          \E p \in 1..Len(Lines(Text, b)) : x \in Elements(Lines(Text, b)[p])
    BY <2>3, FlattenElements
  <2> QED BY <2>1, <2>3, <2>4
<1>2. ASSUME NEW b \in 1..Fallback, NEW p \in 1..Len(blocks[b])
      PROVE  Elements(Line(Text, b, p)) =
                   IF blocks[b][p].name = "scf.if"
                     THEN {Val(b, p)} \cup Elements(Text[blocks[b][p].then])
                                      \cup Elements(Text[blocks[b][p].else])
                     ELSE {Val(b, p)}
  <2>1. \A c \in b + 1..Fallback : IsSeq(Text[c])
    BY TextSeqs, ShapedNumbers
  <2> QED BY <2>1, LinesAreSeqs
<1>3. ASSUME NEW b \in 1..Fallback, IsLeaf(b) PROVE Elements(Text[b]) = Own(b)
  <2>1. \A p \in 1..Len(blocks[b]) : blocks[b][p].name # "scf.if"
    BY <1>3 DEF IsLeaf, IsLeafOf, LeafName
  <2>2. \A p \in 1..Len(blocks[b]) : Elements(Line(Text, b, p)) = {Val(b, p)}
    BY <1>2, <2>1
  <2>3. \A x : x \in Elements(Text[b]) <=> \E p \in 1..Len(blocks[b]) : x \in {Val(b, p)}
    BY <1>1, <2>2
  <2>4. \A x : x \in Elements(Text[b]) <=> x \in Own(b)
    BY <2>3 DEF Own
  <2> QED BY <2>4
<1>4. ASSUME NEW i \in 1..NumLevels, IsChain(i)
      PROVE  Elements(Text[Level(i)]) = Own(Level(i)) \cup Elements(Text[Then(i)])
                                                      \cup Elements(Text[Level(i + 1)])
  <2> DEFINE b == Level(i)
             q == IfPos(i)
  <2>1. b \in 1..Fallback /\ q \in 1..Len(blocks[b])
    <3>1. IfPos(i) \in Nat \ {0} /\ Level(i) \in 1..Fallback
      BY ShapedNumbers
    <3>2. Len(blocks[b]) = IfPos(i) + 1
      BY <1>4 DEF IsChain, IsChainOf
    <3> QED BY <3>1, <3>2
  <2>2. blocks[b][q].name = "scf.if" /\ IsBranch(blocks[b][q], i)
    BY <1>4 DEF IsChain, IsChainOf, IsBranch
  <2>3. ASSUME NEW p \in 1..Len(blocks[b]), p # q PROVE blocks[b][p].name # "scf.if"
    <3>1. ASSUME blocks[b][p].name = "scf.if" PROVE FALSE
      <4>1. PICK k \in 1..NumLevels : b = Level(k) /\ p = IfPos(k)
        BY <2>1, <3>1, Nested
      <4>2. k = i
        BY <4>1 DEF Level
      <4> QED BY <2>3, <4>1, <4>2
    <3> QED BY <3>1
  <2> HIDE DEF b, q
  <2>4. \A p \in 1..Len(blocks[b]) : p # q => Elements(Line(Text, b, p)) = {Val(b, p)}
    BY <1>2, <2>1, <2>3
  <2>5. Elements(Line(Text, b, q)) =
          {Val(b, q)} \cup Elements(Text[Then(i)]) \cup Elements(Text[Level(i + 1)])
    <3>1. Elements(Line(Text, b, q)) =
            {Val(b, q)} \cup Elements(Text[blocks[b][q].then]) \cup Elements(Text[blocks[b][q].else])
      BY <1>2, <2>1, <2>2
    <3> QED BY <2>2, <3>1 DEF IsBranch
  <2>6. ASSUME NEW x
        PROVE  x \in Elements(Text[b]) <=>
                 x \in Own(b) \cup Elements(Text[Then(i)]) \cup Elements(Text[Level(i + 1)])
    <3>1. x \in Elements(Text[b]) <=> \E p \in 1..Len(blocks[b]) : x \in Elements(Line(Text, b, p))
      BY <1>1, <2>1
    <3>2. (\E p \in 1..Len(blocks[b]) : x \in Elements(Line(Text, b, p))) <=>
            \/ \E p \in 1..Len(blocks[b]) : x = Val(b, p)
            \/ x \in Elements(Text[Then(i)]) \/ x \in Elements(Text[Level(i + 1)])
      BY <2>1, <2>4, <2>5
    <3> QED BY <3>1, <3>2 DEF Own
  <2>7. Elements(Text[b]) = Own(b) \cup Elements(Text[Then(i)]) \cup Elements(Text[Level(i + 1)])
    BY <2>6
  <2> QED BY <2>7 DEF b
<1> QED BY <1>3, <1>4

-----------------------------------------------------------------------------
\* Which operations the text of a block has.
Reached(i) == \A j \in 1..i - 1 : IsChain(j)

InTree(b) ==
  \/ \E i \in 1..NumLevels + 1 : b = Level(i) /\ Reached(i)
  \/ \E i \in 1..NumLevels : b = Then(i) /\ Reached(i + 1)

\* A value of a block names its block and its position.
LEMMA OwnIs ==
  ASSUME Shaped, NEW b \in 1..Fallback, NEW v \in Own(b)
  PROVE  /\ v = Val(b, v[2]) /\ v[1] = b /\ v[2] \in 1..Len(blocks[b])
         /\ OpAt(v) = blocks[b][v[2]]
  BY DEF Own, Val, OpAt

\* The text of a block has only operations of it and of the blocks behind it.
LEMMA TextPlaces ==
  ASSUME Shaped
  PROVE  \A b \in 1..Fallback : \A v \in Elements(Text[b]) : \E c \in b..Fallback : v \in Own(c)
<1> DEFINE T == {m \in Nat : \A b \in m..Fallback : \A v \in Elements(Text[b]) :
                               \E c \in b..Fallback : v \in Own(c)}
<1>0. PICK n \in Nat \ {0} : n = Fallback
  BY ShapedNumbers
<1>1. n + 1 \in T
  BY <1>0
<1>2. ASSUME NEW m \in 1..(n + 1) - 1, m + 1 \in T PROVE m \in T
  <2>1. m \in 1..Fallback /\ m \in Nat /\ m \in m..Fallback
    BY <1>0
  <2>2. \A b \in m + 1..Fallback : \A v \in Elements(Text[b]) : \E c \in b..Fallback : v \in Own(c)
    BY <1>2
  <2>3. ASSUME NEW v \in Elements(Text[m]) PROVE \E c \in m..Fallback : v \in Own(c)
    <3>1. CASE IsLeaf(m)
      BY <2>1, <2>3, <3>1, TextElements
    <3>2. CASE ~ IsLeaf(m)
      <4>1. PICK i \in 1..NumLevels : m = Level(i) /\ IsChain(i)
        BY <2>1, <3>2, ShapedNumbers DEF Shaped
      <4>2. v \in Own(m) \cup Elements(Text[Then(i)]) \cup Elements(Text[Level(i + 1)])
        BY <2>3, <4>1, TextElements
      <4>3. /\ Then(i) \in m + 1..Fallback /\ Level(i + 1) \in m + 1..Fallback
        <5>1. /\ Then(i) \in 1..Fallback /\ Level(i + 1) \in 1..Fallback
              /\ Then(i) > m /\ Level(i + 1) > m
          BY <4>1, ShapedNumbers
        <5> QED BY <1>0, <5>1
      <4>4. \A b \in m + 1..Fallback : \A c \in b..Fallback : c \in m..Fallback
        BY <1>0
      <4> QED BY <2>1, <2>2, <4>2, <4>3, <4>4
    <3> QED BY <3>1, <3>2
  <2>4. m..Fallback = {m} \cup (m + 1..Fallback)
    BY <1>0
  <2> QED BY <2>1, <2>2, <2>3, <2>4
<1>3. 1..n + 1 \subseteq T
  <2>1. 1 \in Nat /\ n + 1 \in Nat /\ n + 1 \in T /\ \A m \in 1..(n + 1) - 1 : m + 1 \in T => m \in T
    BY <1>1, <1>2
  <2> HIDE DEF T
  <2> QED BY <2>1, DownTo
<1>4. 1 \in T
  <2>1. 1 \in 1..n + 1
    BY <1>0
  <2> HIDE DEF T
  <2> QED BY <1>3, <2>1
<1> QED BY <1>4

\* The operations of the wrapper are those of the blocks that have not been cut
\* off.
LEMMA WholeText ==
  ASSUME Shaped
  PROVE  \A v : v \in Elements(Text[1]) <=> \E b \in 1..Fallback : InTree(b) /\ v \in Own(b)
<1>0. PICK n \in Nat \ {0} : n = NumLevels
  BY ShapedNumbers
<1> DEFINE D == {i \in 1..n + 1 : Reached(i) =>
                   \A v \in Elements(Text[Level(i)]) : \E b \in 1..Fallback : InTree(b) /\ v \in Own(b)}
           U == {i \in 1..n + 1 : Reached(i) => Elements(Text[Level(i)]) \subseteq Elements(Text[1])}
<1>1. /\ Level(1) = 1 /\ Level(n + 1) = Fallback /\ Level(n + 1) \in 1..Fallback
      /\ \A i \in 1..n : Level(i) \in 1..Fallback /\ Then(i) \in 1..Fallback /\ Level(i + 1) \in 1..Fallback
  <2>1. Level(1) = 1 /\ Level(NumLevels + 1) = Fallback /\ Fallback = 2 * NumLevels + 1
    BY ShapedNumbers
  <2>2. \A i \in 1..NumLevels : Level(i) \in 1..Fallback /\ Then(i) \in 1..Fallback
                                /\ Level(i + 1) \in 1..Fallback
    BY ShapedNumbers
  <2>3. Fallback \in 1..Fallback
    BY <1>0, <2>1
  <2> QED BY <1>0, <2>1, <2>2, <2>3
<1>2. \A i \in 1..n : Reached(i + 1) <=> Reached(i) /\ IsChain(i)
  BY DEF Reached
<1>3. n + 1 \in D
  <2>1. Elements(Text[Level(n + 1)]) = Own(Level(n + 1))
    BY <1>1, TextElements DEF Shaped
  <2>2. Reached(n + 1) => InTree(Level(n + 1))
    BY <1>0 DEF InTree
  <2> QED BY <1>1, <2>1, <2>2
<1>4. ASSUME NEW i \in 1..(n + 1) - 1, i + 1 \in D PROVE i \in D
  <2>1. i \in 1..n /\ i \in 1..NumLevels /\ i \in 1..n + 1 /\ i \in 1..NumLevels + 1
    BY <1>0
  <2>2. SUFFICES ASSUME Reached(i), NEW v \in Elements(Text[Level(i)])
                 PROVE \E b \in 1..Fallback : InTree(b) /\ v \in Own(b)
    BY <2>1
  <2>3. InTree(Level(i))
    BY <2>1, <2>2 DEF InTree
  <2>4. CASE IsChain(i)
    <3>1. Reached(i + 1) /\ InTree(Then(i))
      BY <1>2, <2>1, <2>2, <2>4 DEF InTree
    <3>2. v \in Own(Level(i)) \cup Elements(Text[Then(i)]) \cup Elements(Text[Level(i + 1)])
      BY <2>1, <2>2, <2>4, TextElements
    <3>3. Elements(Text[Then(i)]) = Own(Then(i))
      BY <1>1, <2>1, TextElements DEF Shaped
    <3> QED BY <1>1, <1>4, <2>1, <2>3, <3>1, <3>2, <3>3
  <2>5. CASE ~ IsChain(i)
    <3>1. IsLeaf(Level(i))
      BY <2>1, <2>5 DEF Shaped
    <3>2. Elements(Text[Level(i)]) = Own(Level(i))
      BY <1>1, <2>1, <3>1, TextElements
    <3> QED BY <1>1, <2>1, <2>2, <2>3, <3>2
  <2> QED BY <2>4, <2>5
<1>5. 1 \in D
  <2>1. 1 \in Nat /\ n + 1 \in Nat /\ n + 1 \in D /\ \A i \in 1..(n + 1) - 1 : i + 1 \in D => i \in D
    BY <1>3, <1>4
  <2> HIDE DEF D
  <2>2. 1..n + 1 \subseteq D
    BY <2>1, DownTo
  <2> QED BY <2>2
<1>6. 1 \in U
  BY <1>1
<1>7. ASSUME NEW i \in 1..(n + 1) - 1, i \in U PROVE i + 1 \in U
  <2>1. i \in 1..n /\ i \in 1..NumLevels /\ i + 1 \in 1..n + 1
    BY <1>0
  <2>2. SUFFICES ASSUME Reached(i + 1)
                 PROVE  Elements(Text[Level(i + 1)]) \subseteq Elements(Text[1])
    BY <2>1
  <2>3. Reached(i) /\ IsChain(i)
    BY <1>2, <2>1, <2>2
  <2>4. Elements(Text[Level(i + 1)]) \subseteq Elements(Text[Level(i)])
    BY <2>1, <2>3, TextElements
  <2> QED BY <1>7, <2>3, <2>4
<1>8. 1..n + 1 \subseteq U
  <2>1. 1 \in Nat /\ n + 1 \in Nat /\ 1 \in U /\ \A i \in 1..(n + 1) - 1 : i \in U => i + 1 \in U
    BY <1>6, <1>7
  <2> HIDE DEF U
  <2> QED BY <2>1, UpTo
<1>9. ASSUME NEW v, NEW b \in 1..Fallback, InTree(b), v \in Own(b) PROVE v \in Elements(Text[1])
  <2>1. CASE \E i \in 1..n + 1 : b = Level(i) /\ Reached(i)
    <3>1. PICK i \in 1..n + 1 : b = Level(i) /\ Reached(i)
      BY <2>1
    <3>2. Own(Level(i)) \subseteq Elements(Text[Level(i)])
      <4>1. CASE IsLeaf(Level(i))
        BY <3>1, <4>1, TextElements
      <4>2. CASE ~ IsLeaf(Level(i))
        <5>1. i \in 1..n /\ i \in 1..NumLevels
          <6>1. i # n + 1
            BY <1>1, <4>2 DEF Shaped
          <6> QED BY <1>0, <6>1
        <5>2. IsChain(i)
          BY <4>2, <5>1 DEF Shaped
        <5> QED BY <5>1, <5>2, TextElements
      <4> QED BY <4>1, <4>2
    <3> QED BY <1>8, <1>9, <3>1, <3>2
  <2>2. CASE \E i \in 1..n : b = Then(i) /\ Reached(i + 1)
    <3>1. PICK i \in 1..n : b = Then(i) /\ Reached(i + 1)
      BY <2>2
    <3>2. i \in 1..NumLevels /\ i \in 1..n + 1
      BY <1>0
    <3>3. Reached(i) /\ IsChain(i) /\ IsLeaf(Then(i))
      BY <1>2, <3>1, <3>2 DEF Shaped
    <3>4. Own(Then(i)) \subseteq Elements(Text[Level(i)])
      BY <1>1, <3>2, <3>3, TextElements
    <3> QED BY <1>8, <1>9, <3>1, <3>2, <3>3, <3>4
  <2> QED BY <1>0, <1>9, <2>1, <2>2 DEF InTree
<1>10. Reached(1)
  BY DEF Reached
<1> QED BY <1>1, <1>5, <1>9, <1>10

-----------------------------------------------------------------------------
\* The library's set of a sequence is its set of elements.
LEMMA ToSetIs == ASSUME NEW s, IsSeq(s) PROVE SE!ToSet(s) = Elements(s)
<1>1. DOMAIN s = 1..Len(s)
  BY DEF IsSeq
<1> QED BY <1>1, Zenon DEF SE!ToSet, Elements

\* A sequence has finitely many elements.
LEMMA SeqFinite == ASSUME NEW s, IsSeq(s) PROVE IsFiniteSet(Elements(s))
<1>1. IsFiniteSet(1..Len(s))
  <2>1. Len(s) \in Int /\ 1 \in Int
    BY DEF IsSeq
  <2> QED BY <2>1, FS_Interval
<1> DEFINE f == [i \in 1..Len(s) |-> s[i]]
<1>2. f \in Surjection(1..Len(s), Elements(s))
  BY DEF Surjection, Elements
<1> HIDE DEF f
<1> QED BY <1>1, <1>2, FS_Surjection

\* The only element of a set is chosen if the set has one element, and no match is
\* reported otherwise.
LEMMA OneOf ==
  ASSUME NEW M, IsFiniteSet(M), NEW x, x = IF Cardinality(M) = 1 THEN CHOOSE v \in M : TRUE ELSE NoMatch
  PROVE  /\ M = {x} \/ x = NoMatch
         /\ (\E y : M = {y}) => M = {x}
<1>1. Cardinality(M) = 1 <=> \E y : M = {y}
  BY FS_Singleton
<1>2. CASE Cardinality(M) = 1
  <2>1. PICK y : M = {y}
    BY <1>1, <1>2
  <2>2. x = y
    BY <1>2, <2>1
  <2> QED BY <2>1, <2>2
<1> QED BY <1>1, <1>2

\* So it is for the only line that has an operation.
LEMMA OnlyIs ==
  ASSUME NEW lines, IsSeq(lines), NEW op
  PROVE  LET M == {v \in Elements(lines) : OpAt(v) = op}
         IN /\ M = {Only(lines, op)} \/ Only(lines, op) = NoMatch
            /\ (\E y : M = {y}) => M = {Only(lines, op)}
<1> DEFINE M == {v \in Elements(lines) : OpAt(v) = op}
<1>1. IsFiniteSet(M)
  BY SeqFinite, FS_Subset
<1>2. Only(lines, op) = IF Cardinality(M) = 1 THEN CHOOSE v \in M : TRUE ELSE NoMatch
  <2>1. SE!ToSet(lines) = Elements(lines)
    BY ToSetIs
  <2> DEFINE N == {v \in SE!ToSet(lines) : OpAt(v) = op}
  <2>2. N = M
    BY <2>1
  <2>3. Only(lines, op) = IF Cardinality(N) = 1 THEN CHOOSE v \in N : TRUE ELSE NoMatch
    BY Zenon DEF Only, one_match
  <2> HIDE DEF N, M
  <2> QED BY <2>2, <2>3
<1> HIDE DEF M
<1>3. /\ M = {Only(lines, op)} \/ Only(lines, op) = NoMatch
      /\ (\E y : M = {y}) => M = {Only(lines, op)}
  BY <1>1, <1>2, OneOf, Zenon
<1> QED BY <1>3, Zenon DEF M

-----------------------------------------------------------------------------
\* A block is a leaf or a level that still tests.
LEMMA LeafOrChain ==
  ASSUME Shaped, NEW b \in 1..Fallback
  PROVE  IsLeaf(b) \/ \E i \in 1..NumLevels : b = Level(i) /\ IsChain(i)
<1>1. (\E i \in 1..NumLevels : b = Level(i) \/ b = Then(i)) \/ b = Fallback
  BY ShapedNumbers
<1> QED BY <1>1 DEF Shaped

\* What an edit may refer to comes before, in the same level or in one around.
LEMMA VisibleAbove ==
  ASSUME Shaped, NEW i \in 1..NumLevels, IsChain(i), NEW v \in Own(Level(i)), v[2] <= IfPos(i),
         NEW names, names \subseteq {"arith.constant", "tensor.dim", "arith.cmpi", "arith.andi"},
         NEW u \in Visible(Text, v, names)
  PROVE  u \in Above(i, v[2]) /\ OpAt(u).name \in names
<1>0. PICK n \in Nat \ {0} : n = NumLevels
  BY ShapedNumbers
<1>1. /\ Fallback = 2 * n + 1 /\ DOMAIN blocks = 1..Fallback
      /\ \A b \in 1..Fallback : DOMAIN blocks[b] = 1..Len(blocks[b])
      /\ 1 \in 1..Fallback
  BY <1>0, ShapedNumbers
<1>2. u \in Elements(Text[1]) /\ OpAt(u).name \in names /\ Dominates(Text, u, v)
  <2>1. IsSeq(Text[1])
    BY <1>1, TextSeqs
  <2>2. SE!ToSet(Text[1]) = Elements(Text[1])
    BY <2>1, ToSetIs
  <2> QED BY <2>2 DEF Visible
<1>3. PICK c \in 1..Fallback : u \in Own(c)
  BY <1>1, <1>2, TextPlaces
<1>4. u = Val(c, u[2]) /\ u[1] = c /\ u[2] \in 1..Len(blocks[c]) /\ OpAt(u) = blocks[c][u[2]]
  BY <1>3, OwnIs
<1>5. ~ IsLeaf(c)
  <2>1. ASSUME NEW q, IsLeafOf(blocks[c], q) PROVE FALSE
    BY <1>2, <1>4, <2>1 DEF IsLeafOf, LeafName
  <2> QED BY <2>1 DEF IsLeaf
<1>6. PICK k \in 1..n : c = Level(k) /\ IsChain(k)
  BY <1>0, <1>5, LeafOrChain
<1>7. IfPos(k) \in Nat \ {0} /\ IfPos(i) \in Nat \ {0}
  BY <1>0, ShapedNumbers
<1>8. u[2] \in 1..IfPos(k) - 1
  <2>1. Len(blocks[c]) = IfPos(k) + 1
    BY <1>6 DEF IsChain, IsChainOf
  <2>2. u[2] # IfPos(k) /\ u[2] # IfPos(k) + 1
    BY <1>2, <1>4, <1>6 DEF IsChain, IsChainOf, IsBranch, Terminators
  <2> QED BY <1>4, <1>7, <2>1, <2>2
<1>9. v[1] = Level(i) /\ v = Val(v[1], v[2]) /\ v[2] \in 1..Len(blocks[Level(i)])
  <2>1. Level(i) \in 1..Fallback
    BY ShapedNumbers
  <2> QED BY <2>1, OwnIs
<1>10. PICK p \in 1..Len(blocks[c]) :
         u[2] < p /\ (Val(c, p) = v \/ Encloses(Text, Val(c, p), v))
  BY <1>1, <1>2, <1>4 DEF Dominates
<1>11. CASE Val(c, p) = v
  <2>1. c = Level(i) /\ p = v[2]
    BY <1>9, <1>11 DEF Val
  <2>2. k = i
    BY <1>0, <1>6, <2>1 DEF Level
  <2>3. u[2] \in 1..v[2] - 1
    BY <1>8, <1>10, <2>1
  <2> QED BY <1>0, <1>2, <1>4, <1>6, <2>2, <2>3 DEF Above, Val
<1>12. CASE Encloses(Text, Val(c, p), v)
  <2>1. OpAt(Val(c, p)) = blocks[c][p]
    BY DEF OpAt, Val
  <2>2. /\ blocks[c][p].name = "scf.if"
        /\ v \in SE!ToSet(Text[blocks[c][p].then]) \cup SE!ToSet(Text[blocks[c][p].else])
    BY <1>12, <2>1 DEF Encloses
  <2>3. /\ blocks[c][p].then \in 1..Fallback /\ blocks[c][p].then > c
        /\ blocks[c][p].else \in 1..Fallback /\ blocks[c][p].else > c
    BY <2>2, Nested
  <2>4. PICK d \in 1..Fallback : d > c /\ v \in SE!ToSet(Text[d])
    BY <2>2, <2>3
  <2>5. v \in Elements(Text[d])
    BY <2>4, TextSeqs, ToSetIs
  <2>6. PICK e \in d..Fallback : v \in Own(e)
    BY <2>5, TextPlaces
  <2>7. v[1] = e /\ e > c
    <3>1. e \in 1..Fallback /\ e > c
      BY <1>1, <2>4
    <3> QED BY <2>6, <3>1, OwnIs
  <2>8. k < i
    BY <1>0, <1>6, <1>9, <2>7 DEF Level
  <2>9. k \in 1..i /\ k # i
    BY <1>0, <2>8
  <2> QED BY <1>2, <1>4, <1>6, <1>8, <1>0, <2>9 DEF Above, Val
<1> QED BY <1>10, <1>11, <1>12

-----------------------------------------------------------------------------
\* The shape is that of the blocks, each for itself.
LEMMA ReplaceShaped ==
  ASSUME Shaped, kind' = kind, lengths' = lengths,
         NEW b, b \in 1..Fallback, NEW new, IsSeq(new), blocks' = [blocks EXCEPT ![b] = new],
         \/ b # 1 /\ \E c \in 1..Len(new) - 1 : IsLeafOf(new, c)
         \/ \E i \in 1..NumLevels : b = Level(i) /\ IsChainOf(new, i)
  PROVE  Shaped'
<1>0. PICK n \in Nat \ {0} : n = NumLevels
  BY ShapedNumbers
<1>1. /\ NumArgs' = NumArgs /\ NumLevels' = NumLevels /\ Fallback' = Fallback
      /\ \A i : IfPos(i)' = IfPos(i)
  BY SameEntry
<1>2. \A i, p : Above(i, p)' = Above(i, p)
  BY <1>1 DEF Above
<1>3. \A op, i, p : IsTest(op, i, p)' <=> IsTest(op, i, p)
  BY <1>1, <1>2 DEF IsTest
<1>4. \A op, i : IsBranch(op, i)' <=> IsBranch(op, i)
  BY <1>1, <1>2 DEF IsBranch
<1>5. \A block, i : IsChainOf(block, i)' <=> IsChainOf(block, i)
  BY <1>1, <1>3, <1>4 DEF IsChainOf
<1>6. IsSeq(blocks') /\ Len(blocks') = Fallback /\ blocks'[b] = new
      /\ \A c \in 1..Fallback : c # b => blocks'[c] = blocks[c]
  <2>1. IsSeq(blocks) /\ Len(blocks) = Fallback /\ b \in 1..Len(blocks)
    BY DEF Shaped
  <2>2. Len(blocks) \in Nat /\ blocks = [c \in 1..Len(blocks) |-> blocks[c]]
    BY <2>1 DEF IsSeq
  <2>3. blocks' = [c \in 1..Len(blocks) |-> IF c = b THEN new ELSE blocks[c]]
    BY <2>2
  <2>4. blocks'[b] = new /\ \A c \in 1..Len(blocks) : c # b => blocks'[c] = blocks[c]
    BY <2>1, <2>3
  <2>5. blocks' = [c \in 1..Len(blocks) |-> blocks'[c]]
    BY <2>3
  <2>6. IsSeq(blocks') /\ Len(blocks') = Len(blocks)
    BY <2>2, <2>5, FunctionIsSeq
  <2> QED BY <2>1, <2>4, <2>6
<1>7. \A c \in 1..Fallback : IsSeq(blocks'[c])
  BY <1>6 DEF Shaped
<1>8. \A c : c # b /\ c \in 1..Fallback => (IsLeaf(c)' <=> IsLeaf(c))
  BY <1>6 DEF IsLeaf, IsLeafOf
<1>9. (\E c \in 1..Len(new) - 1 : IsLeafOf(new, c)) => IsLeaf(b)'
  BY <1>6 DEF IsLeaf, IsLeafOf
<1>10. \A i \in 1..n : Level(i) # b => (IsChain(i)' <=> IsChain(i))
  BY <1>0, <1>5, <1>6, ShapedNumbers DEF IsChain
<1>11. \A i \in 1..n : IsChainOf(new, i) /\ b = Level(i) => IsChain(i)'
  BY <1>5, <1>6 DEF IsChain
<1>12. /\ \A i, k \in 1..n + 1 : Level(i) = Level(k) => i = k
       /\ \A i \in 1..n + 1, k \in 1..n : Level(i) # Then(k)
       /\ \A i, k \in 1..n : Then(i) = Then(k) => i = k
       /\ Level(n + 1) = Fallback /\ Level(1) = 1
  BY <1>0, BlocksDiffer
<1>13. \A i \in 1..n : Then(i) \in 1..Fallback /\ Level(i) \in 1..Fallback /\ i \in 1..n + 1
  <2>1. \A i \in 1..n : i \in 1..n + 1
    OBVIOUS
  <2>2. \A i \in 1..NumLevels : Then(i) \in 1..Fallback /\ Level(i) \in 1..Fallback
    BY ShapedNumbers
  <2> QED BY <1>0, <2>1, <2>2
<1>14. n + 1 \in 1..n + 1 /\ \A i \in 1..n : i # n + 1
  OBVIOUS
<1>15. (\E i \in 1..n : b = Level(i)) => b # Fallback /\ \A i \in 1..n : b # Then(i)
  BY <1>12, <1>13, <1>14
<1>16. ASSUME NEW i \in 1..n
       PROVE  IsLeaf(Then(i))' /\ (IsChain(i)' \/ (i > 1 /\ IsLeaf(Level(i))'))
  <2>1. IsLeaf(Then(i)) /\ (IsChain(i) \/ (i > 1 /\ IsLeaf(Level(i))))
    BY <1>0 DEF Shaped
  <2>2. IsLeaf(Then(i))'
    <3>1. CASE b = Then(i)
      BY <1>0, <1>9, <1>15, <3>1
    <3>2. CASE b # Then(i)
      BY <1>8, <1>13, <2>1, <3>2
    <3> QED BY <3>1, <3>2
  <2>3. CASE b # Level(i)
    BY <1>8, <1>10, <1>13, <2>1, <2>2, <2>3
  <2>4. CASE b = Level(i) /\ \E k \in 1..n : b = Level(k) /\ IsChainOf(new, k)
    BY <1>11, <1>12, <1>13, <2>2, <2>4
  <2>5. CASE b = Level(i) /\ b # 1 /\ \E c \in 1..Len(new) - 1 : IsLeafOf(new, c)
    <3>1. i > 1
      BY <1>12, <2>5
    <3>2. IsLeaf(Level(i))'
      BY <1>9, <2>5
    <3> QED BY <2>2, <3>1, <3>2
  <2> QED BY <1>0, <2>3, <2>4, <2>5
<1>17. IsLeaf(Fallback)'
  <2>0. PICK f : f = Fallback
    OBVIOUS
  <2>1. IsLeaf(f) /\ f \in 1..Fallback
    <3>1. Fallback = 2 * n + 1
      BY <1>0, ShapedNumbers
    <3> QED BY <2>0, <3>1 DEF Shaped
  <2>2. IsLeaf(f)'
    <3>1. CASE b = f
      BY <1>0, <1>9, <1>15, <2>0, <3>1
    <3> QED BY <1>8, <2>1, <3>1
  <2> QED BY <1>1, <2>0, <2>2 DEF IsLeaf
<1> QED BY <1>0, <1>1, <1>6, <1>7, <1>16, <1>17 DEF Shaped, IsLeaf

-----------------------------------------------------------------------------
\* What is above a position of a level: the values before it, and those of the
\* first level, which has the dimensions.
LEMMA AboveHas ==
  ASSUME NEW i \in Nat \ {0}, NEW p, NEW q \in Nat
  PROVE  /\ q \in 1..p - 1 => Val(Level(i), q) \in Above(i, p)
         /\ i > 1 /\ q \in 1..IfPos(1) - 1 => Val(1, q) \in Above(i, p)
<1>1. Level(i) \in Nat /\ i \in 1..i /\ 1 \in 1..i /\ Level(1) = 1
  BY DEF Level
<1>2. ASSUME q \in 1..p - 1 PROVE Val(Level(i), q) \in Above(i, p)
  <2>1. \E j \in 1..i : Level(i) = Level(j) /\ q \in 1..(IF j = i THEN p ELSE IfPos(j)) - 1
    BY <1>1, <1>2
  <2> QED BY <1>1, <2>1 DEF Above, Val
<1>3. ASSUME i > 1, q \in 1..IfPos(1) - 1 PROVE Val(1, q) \in Above(i, p)
  <2>1. \E j \in 1..i : 1 = Level(j) /\ q \in 1..(IF j = i THEN p ELSE IfPos(j)) - 1
    BY <1>1, <1>3
  <2> QED BY <2>1 DEF Above, Val
<1> QED BY <1>2, <1>3

\* The wrapper as it is emitted has the shape.
LEMMA EmittedChain ==
  ASSUME NumArgs \in {1, 3}, NEW i \in Nat \ {0}, NEW s, IsLevel(s, i), Len(s) = IfPos(i) + 1,
         s[IfPos(i) + 1] = Terminator(i)
  PROVE  IsChainOf(s, i)
<1>1. PICK m \in {1, 3} : m = NumArgs
  OBVIOUS
<1>2. PICK base \in {0, 1 + m} : base = Base(i) /\ (i = 1 <=> base = 1 + m)
  BY <1>1 DEF Base
<1>3. IfPos(i) = base + 2 * m + 1
  BY <1>1, <1>2 DEF IfPos
<1>4. IfPos(1) = 3 * m + 2
  BY <1>1 DEF IfPos, Base
<1>6. \A a \in 1..m : \A p : p > base + 1 /\ p \in Nat => SequenceLength(a) \in Above(i, p)
  <2> TAKE a \in 1..m
  <2> TAKE p
  <2> HAVE p > base + 1 /\ p \in Nat
  <2>1. a + 1 \in Nat /\ 1 + a = a + 1
    OBVIOUS
  <2>2. CASE i = 1
    <3>1. 1 + a \in 1..p - 1 /\ Level(i) = 1
      BY <1>2, <2>2 DEF Level
    <3> QED BY AboveHas, <2>1, <3>1 DEF SequenceLength
  <2>3. CASE i # 1
    <3>1. i > 1 /\ 1 + a \in 1..IfPos(1) - 1
      BY <1>4, <2>3
    <3> QED BY AboveHas, <2>1, <3>1 DEF SequenceLength
  <2> QED BY <2>2, <2>3
<1>7. ASSUME NEW p \in 1..base PROVE IsTest(s[p], i, p)
  <2>1. i = 1 /\ IsHeader(s) /\ base = 1 + m
    BY <1>2, <1>7 DEF IsLevel
  <2>2. CASE p = 1
    BY <2>1, <2>2 DEF IsHeader, IsTest, ConstantOp
  <2>3. CASE p # 1
    <3>1. p - 1 \in 1..m /\ p = 1 + (p - 1) /\ 1 \in 1..p - 1 /\ Level(i) = 1
      BY <2>1, <2>3 DEF Level
    <3>2. s[p] = DimOp(Arg(p - 1), Val(1, 1))
      BY <1>1, <2>1, <3>1 DEF IsHeader
    <3>3. Val(1, 1) \in Above(i, p)
      BY AboveHas, <3>1
    <3> QED BY <1>1, <3>1, <3>2, <3>3 DEF IsTest, DimOp
  <2> QED BY <2>2, <2>3
<1>8. ASSUME NEW j \in 1..2 * m PROVE IsTest(s[base + j], i, base + j)
  <2>0. base + j \in Nat
    BY <1>2
  <2>1. IsTests(s, Level(i), base, lengths[i])
    BY <1>2 DEF IsLevel
  <2>2. \A k \in 1..j - 1 : Val(Level(i), base + k) \in Above(i, base + j)
    <3> TAKE k \in 1..j - 1
    <3>1. base + k \in Nat /\ base + k \in 1..(base + j) - 1
      BY <1>2
    <3> QED BY AboveHas, <3>1
  <2>3. CASE j = 1
    BY <2>1, <2>3 DEF IsTests, IsTest, ConstantOp
  <2>4. CASE j = 2
    <3>1. SequenceLength(1) \in Above(i, base + j)
      BY <1>2, <1>6, <2>0, <2>4
    <3> QED BY <2>1, <2>2, <2>4, <3>1 DEF IsTests, IsTest, CmpOp
  <2>5. CASE m = 3 /\ j = 3
    <3>1. SequenceLength(2) \in Above(i, base + j)
      BY <1>2, <1>6, <2>0, <2>5
    <3> QED BY <1>1, <2>1, <2>2, <2>5, <3>1 DEF IsTests, IsTest, CmpOp
  <2>6. CASE m = 3 /\ j = 4
    BY <1>1, <2>1, <2>2, <2>6 DEF IsTests, IsTest, AndOp
  <2>7. CASE m = 3 /\ j = 5
    <3>1. SequenceLength(3) \in Above(i, base + j)
      BY <1>2, <1>6, <2>0, <2>7
    <3> QED BY <1>1, <2>1, <2>2, <2>7, <3>1 DEF IsTests, IsTest, CmpOp
  <2>8. CASE m = 3 /\ j = 6
    BY <1>1, <2>1, <2>2, <2>8 DEF IsTests, IsTest, AndOp
  <2> QED BY <2>3, <2>4, <2>5, <2>6, <2>7, <2>8
<1>9. ASSUME NEW p \in 1..IfPos(i) - 1 PROVE IsTest(s[p], i, p)
  <2>1. CASE p <= base
    <3>1. p \in 1..base
      BY <1>2, <2>1
    <3> QED BY <1>7, <3>1
  <2>2. CASE ~ (p <= base)
    <3>1. p - base \in 1..2 * m /\ base + (p - base) = p
      BY <1>2, <1>3, <2>2
    <3>2. IsTest(s[base + (p - base)], i, base + (p - base))
      BY <1>8, <3>1
    <3> QED BY <3>1, <3>2
  <2> QED BY <2>1, <2>2
<1>10. IsBranch(s[IfPos(i)], i)
  <2>1. s[IfPos(i)] = IfOp(Val(Level(i), Base(i) + 2 * NumArgs), Then(i), Level(i + 1))
    BY DEF IsLevel
  <2>2. Base(i) + 2 * NumArgs \in Nat /\ Base(i) + 2 * NumArgs \in 1..IfPos(i) - 1
    BY <1>1, <1>2, <1>3
  <2>3. Val(Level(i), Base(i) + 2 * NumArgs) \in Above(i, IfPos(i))
    BY AboveHas, <2>2
  <2> QED BY <2>1, <2>3 DEF IsBranch, IfOp
<1>11. s[IfPos(i) + 1].name \in Terminators
  BY DEF Terminator, Terminators, ReturnOp, YieldOp
<1> QED BY <1>9, <1>10, <1>11 DEF IsChainOf

\* Such a block is a leaf.
LEMMA CallsCloneLeaf ==
  ASSUME kind \in EntryKinds, NEW b, NEW length, NEW s, CallsClone(s, b, length)
  PROVE  NumArgs + 1 \in 1..Len(s) - 1 /\ IsLeafOf(s, NumArgs + 1)
<1> DEFINE args == [j \in 1..NumInputs |-> IF j <= NumArgs THEN Val(b, j) ELSE Arg(j)]
<1>1. /\ Len(s) = ThenLen
      /\ \A a \in 1..NumArgs : s[a] = CastOp(Arg(a), length)
      /\ s[NumArgs + 1] = CallOp(Static(length), args)
      /\ ~ ResultIsStatic => s[NumArgs + 2] = CastOp(Val(b, NumArgs + 1), Dyn)
      /\ s[ThenLen] = YieldOp(Val(b, ThenLen - 1))
  BY DEF CallsClone
<1>2. IsSeq(args)
  <2>1. NumInputs \in Nat
    BY ArgsCount
  <2> QED BY <2>1, FunctionIsSeq
<1> HIDE DEF args
<1>3. PICK m \in {1, 3} : m = NumArgs
  BY ArgsCount
<1>4. ThenLen = IF ResultIsStatic THEN m + 2 ELSE m + 3
  BY <1>3 DEF ThenLen
<1>5. s[m + 1].name = "func.call" /\ s[m + 1].operands = args /\ s[ThenLen].name = "scf.yield"
  BY <1>1, <1>3 DEF CallOp, YieldOp
<1>6. ASSUME NEW p \in 1..ThenLen, p # m + 1, p # ThenLen PROVE s[p].name = "tensor.cast"
  <2>1. CASE p <= m
    <3>1. p \in 1..NumArgs
      BY <1>3, <2>1
    <3>2. s[p] = CastOp(Arg(p), length)
      BY <1>1, <3>1
    <3> QED BY <3>2 DEF CastOp
  <2>2. CASE ~ (p <= m)
    <3>1. ~ ResultIsStatic /\ p = m + 2
      BY <1>4, <1>6, <2>2
    <3> QED BY <1>1, <1>3, <3>1 DEF CastOp
  <2> QED BY <2>1, <2>2
<1>7. m + 1 \in 1..Len(s) - 1 /\ m + 1 # ThenLen
  BY <1>1, <1>4
<1>8. IsLeafOf(s, m + 1)
  BY <1>1, <1>2, <1>5, <1>6, <1>7 DEF IsLeafOf, LeafName
<1> QED BY <1>3, <1>7, <1>8

\* The wrapper as the pass emits it.
EmittedWrapper ==
  /\ Shaped
  /\ \A i \in 1..NumLevels :
       /\ IsChain(i) /\ IsLevel(blocks[Level(i)], i)
       /\ blocks[Level(i)][IfPos(i) + 1] = Terminator(i)
       /\ IsThen(blocks[Then(i)], i) /\ IsLeafOf(blocks[Then(i)], NumArgs + 1)
  /\ IsFallback(blocks[Fallback]) /\ IsLeafOf(blocks[Fallback], 1)

\* The wrapper that the pass emits, before it is edited.
LEMMA EmittedWrapperIs == ASSUME EmitInv, phase \in {"ready", "run"} PROVE EmittedWrapper
<1>1. /\ kind \in EntryKinds /\ lengths \in LengthLists
      /\ NumArgs \in {1, 3} /\ NumLevels \in Nat \ {0}
      /\ Fallback = 2 * NumLevels + 1 /\ DOMAIN blocks = 1..Fallback
      /\ \A i \in 1..NumLevels :
           /\ IsLevel(blocks[Level(i)], i)
           /\ Len(blocks[Level(i)]) = IfPos(i) + 1
           /\ blocks[Level(i)][IfPos(i) + 1] = Terminator(i)
           /\ IsThen(blocks[Then(i)], i)
      /\ IsFallback(blocks[Fallback])
  BY RunText
<1>2. IsSeq(blocks) /\ Len(blocks) = Fallback /\ \A b \in 1..Fallback : IsSeq(blocks[b])
  BY <1>1 DEF EmitInv, Blocks
<1>3. NumInputs \in Nat
  BY <1>1, ArgsCount
<1>4. ASSUME NEW i \in 1..NumLevels PROVE IsChain(i)
  <2>1. i \in Nat \ {0}
    BY <1>1
  <2> QED BY <1>1, <2>1, EmittedChain DEF IsChain
<1>5. ASSUME NEW i \in 1..NumLevels
      PROVE  NumArgs + 1 \in 1..Len(blocks[Then(i)]) - 1 /\ IsLeafOf(blocks[Then(i)], NumArgs + 1)
  <2>1. CallsClone(blocks[Then(i)], Then(i), lengths[i])
    BY <1>1 DEF IsThen, CallsClone
  <2> QED BY <1>1, <2>1, CallsCloneLeaf
<1>6. 1 \in 1..Len(blocks[Fallback]) - 1 /\ IsLeafOf(blocks[Fallback], 1)
  <2> DEFINE s == blocks[Fallback]
             args == [j \in 1..NumInputs |-> Arg(j)]
  <2>1. Len(s) = 2 /\ s[1] = CallOp(Generic, args) /\ s[2] = YieldOp(Val(Fallback, 1))
    BY <1>1 DEF IsFallback
  <2>2. IsSeq(args)
    BY <1>3, FunctionIsSeq
  <2> HIDE DEF s, args
  <2>3. s[1].name = "func.call" /\ s[1].operands = args /\ s[2].name = "scf.yield"
    BY <2>1 DEF CallOp, YieldOp
  <2>4. 1..2 = {1, 2} /\ 1 \in 1..2 - 1
    OBVIOUS
  <2>5. IsLeafOf(s, 1)
    BY <2>1, <2>2, <2>3, <2>4 DEF IsLeafOf, LeafName
  <2> QED BY <2>1, <2>4, <2>5 DEF s
<1>7. Shaped
  BY <1>1, <1>2, <1>4, <1>5, <1>6 DEF Shaped, IsLeaf
<1> QED BY <1>1, <1>4, <1>5, <1>6, <1>7 DEF EmittedWrapper

\* So it is in shape.
LEMMA EmittedShaped == ASSUME EmitInv, phase \in {"ready", "run"} PROVE Shaped
  BY EmittedWrapperIs DEF EmittedWrapper

-----------------------------------------------------------------------------
\* What an operation is edited to.
LEMMA VariantIs ==
  ASSUME NEW v, NEW op \in Variants(Text, v)
  PROVE  LET old        == OpAt(v)
             indices    == Visible(Text, v, {"arith.constant", "tensor.dim"})
             conditions == Visible(Text, v, {"arith.cmpi", "arith.andi"})
         IN /\ old.name = "arith.constant" => \E n : op = ConstantOp(n)
            /\ old.name = "tensor.dim" => \E a \in 1..NumArgs : op = DimOp(Arg(a), old.axis)
            /\ old.name = "arith.cmpi" => \E l, r \in indices : op = CmpOp(l, r)
            /\ old.name = "arith.andi" => \E l, r \in conditions : op = AndOp(l, r)
            /\ old.name = "scf.if" =>
                 \/ \E c \in conditions : op = IfOp(c, old.then, old.else)
                 \/ op = IfOp(old.cond, old.else, old.then)
            /\ old.name = "tensor.cast" => op = old
            /\ old.name = "func.call" =>
                 \/ op = CallOp(Generic, [i \in 1..NumInputs |-> Arg(i)])
                 \/ op = CallOp(old.callee, Swapped(old.operands))
            /\ old.name = "scf.yield" => \E u : op = YieldOp(u)
            /\ old.name = "func.return" => \E u : op = ReturnOp(u)
<1>1. ASSUME OpAt(v).name = "arith.constant"
      PROVE  \E n : op = ConstantOp(n)
  BY <1>1 DEF Variants
<1>2. ASSUME OpAt(v).name = "tensor.dim"
      PROVE  \E a \in 1..NumArgs : op = DimOp(Arg(a), OpAt(v).axis)
  BY <1>2 DEF Variants
<1>3. ASSUME OpAt(v).name = "arith.cmpi"
      PROVE  \E l, r \in Visible(Text, v, {"arith.constant", "tensor.dim"}) : op = CmpOp(l, r)
  BY <1>3 DEF Variants
<1>4. ASSUME OpAt(v).name = "arith.andi"
      PROVE  \E l, r \in Visible(Text, v, {"arith.cmpi", "arith.andi"}) : op = AndOp(l, r)
  BY <1>4 DEF Variants
<1>5. ASSUME OpAt(v).name = "scf.if"
      PROVE  \/ \E c \in Visible(Text, v, {"arith.cmpi", "arith.andi"}) : op = IfOp(c, OpAt(v).then, OpAt(v).else)
             \/ op = IfOp(OpAt(v).cond, OpAt(v).else, OpAt(v).then)
  BY <1>5 DEF Variants
<1>6. ASSUME OpAt(v).name = "tensor.cast"
      PROVE  op = OpAt(v)
  BY <1>6 DEF Variants
<1>7. ASSUME OpAt(v).name = "func.call"
      PROVE  \/ op = CallOp(Generic, [i \in 1..NumInputs |-> Arg(i)])
             \/ op = CallOp(OpAt(v).callee, Swapped(OpAt(v).operands))
  BY <1>7 DEF Variants
<1>8. ASSUME OpAt(v).name = "scf.yield"
      PROVE  \E u : op = YieldOp(u)
  BY <1>8 DEF Variants
<1>9. ASSUME OpAt(v).name = "func.return"
      PROVE  \E u : op = ReturnOp(u)
  BY <1>9 DEF Variants
<1> QED BY <1>1, <1>2, <1>3, <1>4, <1>5, <1>6, <1>7, <1>8, <1>9, Zenon

\* An edit of one operation keeps the shape.
LEMMA EditOpShaped ==
  ASSUME Shaped, kind' = kind, lengths' = lengths,
         NEW v \in Elements(Text[1]), NEW op \in Variants(Text, v),
         blocks' = [blocks EXCEPT ![v[1]][v[2]] = op]
  PROVE  Shaped'
<1>0. 1 \in 1..Fallback /\ IsSeq(blocks) /\ DOMAIN blocks = 1..Fallback
  <2>1. NumLevels \in Nat \ {0} /\ Fallback = 2 * NumLevels + 1 /\ DOMAIN blocks = 1..Fallback
    BY ShapedNumbers
  <2> QED BY <2>1 DEF Shaped
<1>1. PICK b \in 1..Fallback : v \in Own(b)
  BY <1>0, TextPlaces
<1>2. PICK p \in 1..Len(blocks[b]) : v = Val(b, p)
  BY <1>1 DEF Own
<1>3. v[1] = b /\ v[2] = p /\ OpAt(v) = blocks[b][p]
  BY <1>2 DEF Val, OpAt
<1> DEFINE new == [blocks[b] EXCEPT ![p] = op]
<1>4. blocks' = [blocks EXCEPT ![b] = new]
  BY <1>3
<1>5. /\ IsSeq(new) /\ Len(new) = Len(blocks[b]) /\ new[p] = op
      /\ \A q \in 1..Len(blocks[b]) : q # p => new[q] = blocks[b][q]
  <2>1. Len(blocks[b]) \in Nat /\ blocks[b] = [q \in 1..Len(blocks[b]) |-> blocks[b][q]]
    BY DEF Shaped, IsSeq
  <2>2. new = [q \in 1..Len(blocks[b]) |-> IF q = p THEN op ELSE blocks[b][q]]
    BY <2>1
  <2>3. new[p] = op /\ \A q \in 1..Len(blocks[b]) : q # p => new[q] = blocks[b][q]
    BY <2>2
  <2>4. new = [q \in 1..Len(blocks[b]) |-> new[q]]
    BY <2>2
  <2> HIDE DEF new
  <2>5. IsSeq(new) /\ Len(new) = Len(blocks[b])
    BY <2>1, <2>4, FunctionIsSeq
  <2> QED BY <2>3, <2>5
<1> HIDE DEF new
<1> DEFINE old == OpAt(v)
           indices    == Visible(Text, v, {"arith.constant", "tensor.dim"})
           conditions == Visible(Text, v, {"arith.cmpi", "arith.andi"})
<1>6. /\ old.name = "arith.constant" => \E n : op = ConstantOp(n)
      /\ old.name = "tensor.dim" => \E a \in 1..NumArgs : op = DimOp(Arg(a), old.axis)
      /\ old.name = "arith.cmpi" => \E l, r \in indices : op = CmpOp(l, r)
      /\ old.name = "arith.andi" => \E l, r \in conditions : op = AndOp(l, r)
      /\ old.name = "scf.if" =>
           \/ \E c \in conditions : op = IfOp(c, old.then, old.else)
           \/ op = IfOp(old.cond, old.else, old.then)
      /\ old.name = "tensor.cast" => op = old
      /\ old.name = "func.call" =>
           \/ op = CallOp(Generic, [i \in 1..NumInputs |-> Arg(i)])
           \/ op = CallOp(old.callee, Swapped(old.operands))
      /\ old.name = "scf.yield" => \E u : op = YieldOp(u)
      /\ old.name = "func.return" => \E u : op = ReturnOp(u)
  BY VariantIs, Zenon
<1> HIDE DEF indices, conditions, old
<1>9. old = blocks[b][p]
  BY <1>3 DEF old
<1>7. CASE IsLeaf(b)
  <2>1. PICK c \in 1..Len(blocks[b]) - 1 : IsLeafOf(blocks[b], c)
    BY <1>7 DEF IsLeaf
  <2>2. old.name = LeafName(p, c, Len(blocks[b])) /\ IsSeq(blocks[b][c].operands)
    BY <1>9, <2>1 DEF IsLeafOf
  <2>3. op.name = old.name
    BY <1>6, <2>2 DEF LeafName, CallOp, YieldOp
  <2>4. p = c => IsSeq(op.operands)
    <3>1. SUFFICES ASSUME p = c PROVE IsSeq(op.operands)
      OBVIOUS
    <3>2. old.name = "func.call"
      BY <2>2, <3>1 DEF LeafName
    <3>3. CASE op = CallOp(Generic, [i \in 1..NumInputs |-> Arg(i)])
      <4>1. NumInputs \in Nat
        BY ArgsCount DEF Shaped
      <4>2. IsSeq([i \in 1..NumInputs |-> Arg(i)])
        BY <4>1, FunctionIsSeq
      <4> QED BY <3>3, <4>2 DEF CallOp
    <3>4. CASE op = CallOp(old.callee, Swapped(old.operands))
      <4> DEFINE args == old.operands
      <4>1. IsSeq(args)
        BY <1>9, <2>2, <3>1
      <4>2. Len(args) \in Nat /\ args = [j \in 1..Len(args) |-> args[j]]
        BY <4>1 DEF IsSeq
      <4>3. Swapped(args) = [j \in 1..Len(args) |-> Swapped(args)[j]]
        BY <4>2 DEF Swapped
      <4>4. IsSeq(Swapped(args))
        BY <4>2, <4>3, FunctionIsSeq
      <4> QED BY <3>4, <4>4 DEF CallOp
    <3> QED BY <1>6, <3>2, <3>3, <3>4
  <2>5. IsLeafOf(new, c)
    <3>1. IsSeq(new[c].operands)
      BY <1>5, <2>1, <2>4 DEF IsLeafOf
    <3>2. \A q \in 1..Len(new) : new[q].name = LeafName(q, c, Len(new))
      <4>1. \A q \in 1..Len(new) : new[q].name = blocks[b][q].name
        BY <1>5, <1>9, <2>3
      <4> QED BY <1>5, <2>1, <4>1 DEF IsLeafOf
    <3> QED BY <1>5, <2>1, <3>1, <3>2 DEF IsLeafOf
  <2>6. c \in 1..Len(new) - 1
    BY <1>5
  <2>7. b # 1 \/ \E i \in 1..NumLevels : b = Level(i) /\ IsChainOf(new, i)
    <3>1. ASSUME b = 1 PROVE FALSE
      <4>1. 1 \in 1..NumLevels /\ Level(1) = 1
        BY ShapedNumbers
      <4>2. IsChain(1)
        BY <4>1 DEF Shaped
      <4>3. PICK q \in 1..Len(blocks[1]) : blocks[1][q].name = "scf.if"
        <5>1. IfPos(1) \in Nat \ {0}
          BY <4>1, ShapedNumbers
        <5>2. Len(blocks[1]) = IfPos(1) + 1 /\ blocks[1][IfPos(1)].name = "scf.if"
          BY <4>1, <4>2 DEF IsChain, IsChainOf, IsBranch
        <5> QED BY <5>1, <5>2
      <4> QED BY <2>1, <3>1, <4>3 DEF IsLeafOf, LeafName
    <3> QED BY <3>1
  <2> QED BY <1>4, <1>5, <2>5, <2>6, <2>7, ReplaceShaped
<1>8. CASE ~ IsLeaf(b)
  <2>1. PICK i \in 1..NumLevels : b = Level(i) /\ IsChain(i)
    BY <1>8, LeafOrChain
  <2>2. IfPos(i) \in Nat \ {0}
    BY ShapedNumbers
  <2>3. /\ Len(blocks[b]) = IfPos(i) + 1
        /\ \A q \in 1..IfPos(i) - 1 : IsTest(blocks[b][q], i, q)
        /\ IsBranch(blocks[b][IfPos(i)], i)
        /\ blocks[b][IfPos(i) + 1].name \in Terminators
    BY <2>1 DEF IsChain, IsChainOf
  <2>4. \A names : names \subseteq {"arith.constant", "tensor.dim", "arith.cmpi", "arith.andi"}
                   /\ p <= IfPos(i) => Visible(Text, v, names) \subseteq Above(i, p)
    BY <1>1, <1>3, <2>1, VisibleAbove
  <2>5. p <= IfPos(i) => indices \subseteq Above(i, p) /\ conditions \subseteq Above(i, p)
    <3>1. /\ {"arith.constant", "tensor.dim"} \subseteq {"arith.constant", "tensor.dim", "arith.cmpi", "arith.andi"}
          /\ {"arith.cmpi", "arith.andi"} \subseteq {"arith.constant", "tensor.dim", "arith.cmpi", "arith.andi"}
      OBVIOUS
    <3> QED BY <2>4, <3>1, Zenon DEF indices, conditions
  <2>6. p \in 1..IfPos(i) - 1 => IsTest(op, i, p)
    <3>1. SUFFICES ASSUME p \in 1..IfPos(i) - 1 PROVE IsTest(op, i, p)
      OBVIOUS
    <3>2. indices \subseteq Above(i, p) /\ conditions \subseteq Above(i, p)
      BY <2>2, <2>5, <3>1
    <3>3. IsTest(old, i, p)
      BY <1>9, <2>3, <3>1
    <3>4. CASE old.name = "arith.constant"
      BY <1>6, <3>4 DEF IsTest, ConstantOp
    <3>5. CASE old.name = "tensor.dim"
      BY <1>6, <3>3, <3>5 DEF IsTest, DimOp
    <3>6. CASE old.name = "arith.cmpi"
      BY <1>6, <3>2, <3>6 DEF IsTest, CmpOp
    <3>7. CASE old.name = "arith.andi"
      BY <1>6, <3>2, <3>7 DEF IsTest, AndOp
    <3> QED BY <3>3, <3>4, <3>5, <3>6, <3>7 DEF IsTest
  <2>7. p = IfPos(i) => IsBranch(op, i)
    <3>1. SUFFICES ASSUME p = IfPos(i) PROVE IsBranch(op, i)
      OBVIOUS
    <3>2. conditions \subseteq Above(i, IfPos(i))
      BY <2>2, <2>5, <3>1
    <3>3. IsBranch(old, i) /\ old.name = "scf.if"
      BY <1>9, <2>3, <3>1 DEF IsBranch
    <3>4. CASE op = IfOp(old.cond, old.else, old.then)
      BY <3>3, <3>4 DEF IsBranch, IfOp
    <3>5. CASE \E c \in conditions : op = IfOp(c, old.then, old.else)
      BY <3>2, <3>3, <3>5 DEF IsBranch, IfOp
    <3> QED BY <1>6, <3>3, <3>4, <3>5
  <2>8. p = IfPos(i) + 1 => op.name \in Terminators
    BY <1>6, <1>9, <2>3 DEF Terminators, YieldOp, ReturnOp
  <2>9. IsChainOf(new, i)
    <3>1. IfPos(i) \in 1..IfPos(i) + 1 /\ IfPos(i) + 1 \in 1..IfPos(i) + 1
          /\ \A q \in 1..IfPos(i) - 1 : q \in 1..IfPos(i) + 1
      BY <2>2
    <3>2. \A q \in 1..IfPos(i) - 1 : IsTest(new[q], i, q)
      <4> TAKE q \in 1..IfPos(i) - 1
      <4>1. CASE q = p
        BY <1>5, <2>6, <4>1
      <4>2. CASE q # p
        BY <1>5, <2>3, <3>1, <4>2
      <4> QED BY <4>1, <4>2
    <3>3. IsBranch(new[IfPos(i)], i)
      <4>1. CASE IfPos(i) = p
        BY <1>5, <2>7, <4>1
      <4>2. CASE IfPos(i) # p
        BY <1>5, <2>3, <3>1, <4>2
      <4> QED BY <4>1, <4>2
    <3>4. new[IfPos(i) + 1].name \in Terminators
      <4>1. CASE IfPos(i) + 1 = p
        BY <1>5, <2>8, <4>1
      <4>2. CASE IfPos(i) + 1 # p
        BY <1>5, <2>3, <3>1, <4>2
      <4> QED BY <4>1, <4>2
    <3> QED BY <1>5, <2>3, <3>2, <3>3, <3>4 DEF IsChainOf
  <2> QED BY <1>4, <1>5, <2>1, <2>9, ReplaceShaped
<1> QED BY <1>7, <1>8

-----------------------------------------------------------------------------
\* So does a branch that comes to call a clone.
LEMMA EditBranchShaped ==
  ASSUME Shaped, kind' = kind, lengths' = lengths,
         NEW v \in Elements(Text[1]), OpAt(v).name = "scf.if", NEW length,
         LET b == OpAt(v).then
             taken == emitStaticCall(b, length)
         IN blocks' = [blocks EXCEPT ![b] = taken \o <<YieldOp(Val(b, Len(taken)))>>]
  PROVE  Shaped'
<1>0. 1 \in 1..Fallback
  <2>1. NumLevels \in Nat \ {0} /\ Fallback = 2 * NumLevels + 1
    BY ShapedNumbers
  <2> QED BY <2>1
<1>1. PICK c \in 1..Fallback : v \in Own(c)
  BY <1>0, TextPlaces
<1>2. v[2] \in 1..Len(blocks[c]) /\ OpAt(v) = blocks[c][v[2]]
  BY <1>1, OwnIs
<1>3. PICK b \in 1..Fallback : b = OpAt(v).then /\ b > c
  BY <1>2, Nested
<1> DEFINE taken == emitStaticCall(b, length)
           new   == taken \o <<YieldOp(Val(b, Len(taken)))>>
<1>4. blocks' = [blocks EXCEPT ![b] = new]
  BY <1>3
<1>5. IsSeq(new) /\ CallsClone(new, b, length)
  BY BranchText DEF Shaped
<1> HIDE DEF new
<1>6. NumArgs + 1 \in 1..Len(new) - 1 /\ IsLeafOf(new, NumArgs + 1)
  BY <1>5, CallsCloneLeaf DEF Shaped
<1>7. b # 1
  BY <1>3
<1> QED BY <1>4, <1>5, <1>6, <1>7, ReplaceShaped

-----------------------------------------------------------------------------
\* The levels the checker finds, one in what remains behind the other.
LevelOk(i, b, next) ==
  LET branch == DispatchBranch(Text, Text[b], lengths[i])
  IN /\ branch # NoMatch
     /\ StaticBranchOk(Text[OpAt(branch).then], lengths[i])
     /\ OpAt(branch).else \in next

Remaining(i, next) ==
  {b \in DOMAIN blocks : IF i > Len(lengths) THEN FallbackOk(Text[b]) ELSE LevelOk(i, b, next)}

IsOkFrom(ok, m) == ok = [i \in m..Len(lengths) + 1 |-> Remaining(i, ok[i + 1])]

\* What remains behind the last level does not depend on a next one.
LEMMA RemainingLast ==
  ASSUME NumLevels \in Nat, NEW s, NEW t PROVE Remaining(NumLevels + 1, s) = Remaining(NumLevels + 1, t)
  BY DEF Remaining, NumLevels

\* The recursive function of the levels exists.
LEMMA OkExists ==
  ASSUME NumLevels \in Nat PROVE \E ok : IsOkFrom(ok, 1)
<1> DEFINE T == {m \in Nat : \E ok : IsOkFrom(ok, m)}
<1>0. PICK n \in Nat : n = NumLevels /\ n = Len(lengths)
  BY DEF NumLevels
<1>1. n + 2 \in T
  <2>1. (n + 2)..n + 1 = {}
    OBVIOUS
  <2>2. IsOkFrom([i \in {} |-> i], n + 2)
    BY <1>0, <2>1 DEF IsOkFrom
  <2> QED BY <2>2
<1>2. ASSUME NEW m \in 1..(n + 2) - 1, m + 1 \in T PROVE m \in T
  <2>1. PICK g : IsOkFrom(g, m + 1)
    BY <1>2
  <2> DEFINE h == [i \in m..n + 1 |-> IF i = m THEN Remaining(m, g[m + 1]) ELSE g[i]]
  <2>2. \A i \in m + 1..n + 1 : h[i] = g[i]
    OBVIOUS
  <2>3. h = [i \in m..n + 1 |-> h[i]] /\ h[m] = Remaining(m, g[m + 1])
    OBVIOUS
  <2> HIDE DEF h
  <2>4. ASSUME NEW i \in m..n + 1 PROVE Remaining(i, h[i + 1]) = Remaining(i, g[i + 1])
    <3>1. CASE i = n + 1
      BY <1>0, <3>1, RemainingLast
    <3>2. CASE i # n + 1
      <4>1. i + 1 \in m + 1..n + 1
        BY <3>2
      <4> QED BY <2>2, <4>1
    <3> QED BY <3>1, <3>2
  <2>5. ASSUME NEW i \in m..n + 1 PROVE h[i] = Remaining(i, h[i + 1])
    <3>1. CASE i = m
      BY <2>3, <2>4, <3>1
    <3>2. CASE i # m
      <4>1. i \in m + 1..n + 1
        BY <3>2
      <4>2. g[i] = Remaining(i, g[i + 1])
        BY <1>0, <2>1, <4>1 DEF IsOkFrom
      <4> QED BY <2>2, <2>4, <4>1, <4>2
    <3> QED BY <3>1, <3>2
  <2>6. IsOkFrom(h, m)
    BY <1>0, <2>3, <2>5 DEF IsOkFrom
  <2>7. m \in Nat
    OBVIOUS
  <2> QED BY <2>6, <2>7
<1>3. 1..n + 2 \subseteq T
  <2>1. 1 \in Nat /\ n + 2 \in Nat /\ n + 2 \in T /\ \A m \in 1..(n + 2) - 1 : m + 1 \in T => m \in T
    BY <1>1, <1>2
  <2> HIDE DEF T
  <2> QED BY <2>1, DownTo
<1>4. 1 \in T
  <2>1. 1 \in 1..n + 2
    OBVIOUS
  <2> HIDE DEF T
  <2> QED BY <1>3, <2>1
<1> QED BY <1>4

\* LevelsOk says that the first block is among those that may remain at first.
LEMMA LevelsOkIs ==
  ASSUME NumLevels \in Nat
  PROVE  \E ok : IsOkFrom(ok, 1) /\ (LevelsOk(Text) <=> 1 \in ok[1])
<1> DEFINE ok == CHOOSE ok : ok = [i \in 1..Len(lengths) + 1 |->
        {b \in DOMAIN blocks :
           IF i > Len(lengths)
             THEN FallbackOk(Text[b])
             ELSE LET branch == DispatchBranch(Text, Text[b], lengths[i])
                  IN /\ branch # NoMatch
                     /\ StaticBranchOk(Text[OpAt(branch).then], lengths[i])
                     /\ OpAt(branch).else \in ok[i + 1]}]
<1>1. LevelsOk(Text) <=> 1 \in ok[1]
  BY Zenon DEF LevelsOk
<1>2. \E f : f = [i \in 1..Len(lengths) + 1 |->
        {b \in DOMAIN blocks :
           IF i > Len(lengths)
             THEN FallbackOk(Text[b])
             ELSE LET branch == DispatchBranch(Text, Text[b], lengths[i])
                  IN /\ branch # NoMatch
                     /\ StaticBranchOk(Text[OpAt(branch).then], lengths[i])
                     /\ OpAt(branch).else \in f[i + 1]}]
  BY OkExists, Zenon DEF IsOkFrom, Remaining, LevelOk
<1>3. ok = [i \in 1..Len(lengths) + 1 |->
        {b \in DOMAIN blocks :
           IF i > Len(lengths)
             THEN FallbackOk(Text[b])
             ELSE LET branch == DispatchBranch(Text, Text[b], lengths[i])
                  IN /\ branch # NoMatch
                     /\ StaticBranchOk(Text[OpAt(branch).then], lengths[i])
                     /\ OpAt(branch).else \in ok[i + 1]}]
  BY <1>2, Zenon
<1> HIDE DEF ok
<1>4. IsOkFrom(ok, 1)
  BY <1>3, Zenon DEF IsOkFrom, Remaining, LevelOk
<1> QED BY <1>1, <1>4

-----------------------------------------------------------------------------
\* What a pattern finds.
LEMMA OnlyFound ==
  ASSUME NEW lines, IsSeq(lines), NEW op, Only(lines, op) # NoMatch
  PROVE  Only(lines, op) \in Elements(lines) /\ OpAt(Only(lines, op)) = op
<1> DEFINE M == {v \in Elements(lines) : OpAt(v) = op}
<1>1. M = {Only(lines, op)}
  BY OnlyIs
<1>2. Only(lines, op) \in M
  BY <1>1
<1> QED BY <1>2

\* The only call of a text is found.
LEMMA OnlyCallIs ==
  ASSUME NEW lines, IsSeq(lines), NEW y \in Elements(lines), OpAt(y).name = "func.call",
         \A v \in Elements(lines) : OpAt(v).name = "func.call" => v = y
  PROVE  OnlyCall(lines) = y
<1> DEFINE M == {v \in Elements(lines) : OpAt(v).name = "func.call"}
           N == {v \in SE!ToSet(lines) : OpAt(v).name = "func.call"}
<1>1. N = M
  BY ToSetIs
<1>2. OnlyCall(lines) = IF Cardinality(N) = 1 THEN CHOOSE v \in N : TRUE ELSE NoMatch
  BY Zenon DEF OnlyCall, one_match
<1>3. IsFiniteSet(M)
  BY SeqFinite, FS_Subset
<1>4. M = {y}
  OBVIOUS
<1> HIDE DEF M, N
<1>5. M = {OnlyCall(lines)}
  BY <1>1, <1>2, <1>3, <1>4, OneOf
<1> QED BY <1>4, <1>5

\* A dimension that is found reads the width of the argument it is asked for.
LEMMA DimensionFound ==
  ASSUME IsSeq(Text[1]), NEW a, Dimension(Text, a) # NoMatch
  PROVE  LET d == Dimension(Text, a)
         IN d \in Elements(Text[1]) /\ OpAt(d).name = "tensor.dim" /\ OpAt(d).src = Arg(a)
<1> DEFINE M == {v \in Elements(Text[1]) : OpAt(v).name = "tensor.dim" /\ OpAt(v).src = Arg(a)}
           N == {v \in SE!ToSet(Text[1]) : OpAt(v).name = "tensor.dim" /\ OpAt(v).src = Arg(a)}
<1>1. N = M
  BY ToSetIs
<1>2. Dimension(Text, a) = IF Cardinality(N) = 1 THEN CHOOSE v \in N : TRUE ELSE NoMatch
  BY Zenon DEF Dimension, one_match
<1>3. IsFiniteSet(M)
  BY SeqFinite, FS_Subset
<1> DEFINE d == Dimension(Text, a)
<1> HIDE DEF N
<1>4. d \in M
  <2> HIDE DEF M
  <2>1. M = {d} \/ d = NoMatch
    BY <1>1, <1>2, <1>3, OneOf
  <2> QED BY <2>1
<1> QED BY <1>4

\* A branch that is found is an scf.if on the full guard of the level.
LEMMA BranchFound ==
  ASSUME NEW lines, IsSeq(lines), NEW length, DispatchBranch(Text, lines, length) # NoMatch
  PROVE  LET branch     == DispatchBranch(Text, lines, length)
             constant   == Only(lines, ConstantOp(length))
             comparison == [a \in 1..3 |-> Only(lines, CmpOp(Dimension(Text, a), constant))]
             firstAnd   == Only(lines, AndOp(comparison[1], comparison[2]))
             fullGuard  == Only(lines, AndOp(firstAnd, comparison[3]))
         IN branch \in Elements(lines) /\ OpAt(branch).name = "scf.if" /\ OpAt(branch).cond = fullGuard
<1> DEFINE constant   == Only(lines, ConstantOp(length))
           comparison == [a \in 1..3 |-> Only(lines, CmpOp(Dimension(Text, a), constant))]
           firstAnd   == Only(lines, AndOp(comparison[1], comparison[2]))
           fullGuard  == Only(lines, AndOp(firstAnd, comparison[3]))
           branch     == DispatchBranch(Text, lines, length)
           M == {v \in Elements(lines) : OpAt(v).name = "scf.if" /\ OpAt(v).cond = fullGuard}
           N == {v \in SE!ToSet(lines) : OpAt(v).name = "scf.if" /\ OpAt(v).cond = fullGuard}
<1> HIDE DEF constant, comparison, firstAnd
<1>2. branch = IF Cardinality(N) = 1 THEN CHOOSE v \in N : TRUE ELSE NoMatch
  BY Zenon DEF DispatchBranch, one_match, constant, comparison, firstAnd
<1> HIDE DEF fullGuard, branch
<1>1. N = M
  BY ToSetIs
<1>3. IsFiniteSet(M)
  BY SeqFinite, FS_Subset
<1>5. branch # NoMatch
  BY DEF branch
<1> HIDE DEF N
<1>4. branch \in M
  <2> HIDE DEF M
  <2>1. M = {branch} \/ branch = NoMatch
    BY <1>1, <1>2, <1>3, OneOf
  <2> QED BY <1>5, <2>1
<1>6. branch \in Elements(lines) /\ OpAt(branch).name = "scf.if" /\ OpAt(branch).cond = fullGuard
  BY <1>4
<1> QED BY <1>6, Zenon DEF branch, fullGuard, firstAnd, comparison, constant

-----------------------------------------------------------------------------
If(i) == blocks[Level(i)][IfPos(i)]

\* What a level's condition is, found by the checker in some lines.
ConstantIn(lines, length)      == Only(lines, ConstantOp(length))
ComparisonIn(lines, length, a) == Only(lines, CmpOp(Dimension(Text, a), ConstantIn(lines, length)))
FirstAndIn(lines, length) ==
  Only(lines, AndOp(ComparisonIn(lines, length, 1), ComparisonIn(lines, length, 2)))
FullGuardIn(lines, length) ==
  Only(lines, AndOp(FirstAndIn(lines, length), ComparisonIn(lines, length, 3)))

\* The branch found in a block is the scf.if of a level at or behind the block,
\* and the regions are the then region and the next level, in either order.
LEMMA BranchAt ==
  ASSUME Shaped, NEW b \in 1..Fallback, NEW length,
         DispatchBranch(Text, Text[b], length) # NoMatch
  PROVE  LET branch == DispatchBranch(Text, Text[b], length)
         IN /\ ~ IsLeaf(b)
            /\ \E k \in 1..NumLevels :
                 /\ OpAt(branch) = If(k) /\ IsChain(k) /\ b <= Level(k)
                 /\ If(k).cond = FullGuardIn(Text[b], length)
                 /\ \/ If(k).then = Then(k) /\ If(k).else = Level(k + 1)
                    \/ If(k).then = Level(k + 1) /\ If(k).else = Then(k)
<1> DEFINE branch == DispatchBranch(Text, Text[b], length)
<1>1. IsSeq(Text[b])
  BY TextSeqs
<1>2. /\ branch \in Elements(Text[b]) /\ OpAt(branch).name = "scf.if"
      /\ OpAt(branch).cond = FullGuardIn(Text[b], length)
  <2> DEFINE comparison == [a \in 1..3 |-> ComparisonIn(Text[b], length, a)]
  <2>1. /\ branch \in Elements(Text[b]) /\ OpAt(branch).name = "scf.if"
        /\ OpAt(branch).cond = Only(Text[b], AndOp(Only(Text[b], AndOp(comparison[1], comparison[2])),
                                                   comparison[3]))
    BY <1>1, BranchFound, Zenon DEF ComparisonIn, ConstantIn
  <2>2. /\ comparison[1] = ComparisonIn(Text[b], length, 1)
        /\ comparison[2] = ComparisonIn(Text[b], length, 2)
        /\ comparison[3] = ComparisonIn(Text[b], length, 3)
    OBVIOUS
  <2> HIDE DEF comparison, branch
  <2> QED BY <2>1, <2>2 DEF FullGuardIn, FirstAndIn
<1> HIDE DEF branch
<1>3. PICK c \in b..Fallback : branch \in Own(c)
  BY <1>2, TextPlaces
<1>4. c \in 1..Fallback /\ b <= c
  <2>1. Fallback \in Nat
    BY ShapedNumbers
  <2> QED BY <2>1
<1>5. branch[2] \in 1..Len(blocks[c]) /\ OpAt(branch) = blocks[c][branch[2]]
  BY <1>3, <1>4, OwnIs
<1>6. PICK k \in 1..NumLevels : c = Level(k) /\ branch[2] = IfPos(k) /\ IsChain(k)
  BY <1>2, <1>4, <1>5, Nested
<1>7. OpAt(branch) = If(k)
  BY <1>5, <1>6 DEF If
<1>8. \/ If(k).then = Then(k) /\ If(k).else = Level(k + 1)
      \/ If(k).then = Level(k + 1) /\ If(k).else = Then(k)
  BY <1>6 DEF IsChain, IsChainOf, IsBranch, If
<1>9. ~ IsLeaf(b)
  <2>1. SUFFICES ASSUME IsLeaf(b) PROVE FALSE
    OBVIOUS
  <2>2. branch \in Own(b)
    BY <1>2, <2>1, TextElements
  <2>3. branch[2] \in 1..Len(blocks[b]) /\ OpAt(branch) = blocks[b][branch[2]]
    BY <2>2, OwnIs
  <2> QED BY <1>2, <2>1, <2>3 DEF IsLeaf, IsLeafOf, LeafName
<1> QED BY <1>2, <1>4, <1>6, <1>7, <1>8, <1>9 DEF branch

\* In an accepted wrapper every level is still there, behind the one before.
AcceptedLevel(i) ==
  /\ IsChain(i) /\ If(i).cond = FullGuardIn(Text[Level(i)], lengths[i])
  /\ StaticBranchOk(Text[If(i).then], lengths[i])
  /\ \/ If(i).then = Then(i) /\ If(i).else = Level(i + 1)
     \/ If(i).then = Level(i + 1) /\ If(i).else = Then(i)
  /\ i < NumLevels => If(i).else = Level(i + 1)
  /\ i = NumLevels => FallbackOk(Text[If(i).else])

\* If the levels are accepted, each is in place.
LEMMA AcceptedLevels ==
  ASSUME Shaped, LevelsOk(Text) PROVE \A i \in 1..NumLevels : AcceptedLevel(i)
<1>0. PICK n \in Nat \ {0} : n = NumLevels
  BY ShapedNumbers
<1>1. PICK ok : IsOkFrom(ok, 1) /\ 1 \in ok[1]
  BY <1>0, LevelsOkIs
<1>2. DOMAIN blocks = 1..Fallback /\ Level(1) = 1 /\ Fallback = 2 * n + 1
  BY <1>0, ShapedNumbers
<1>3. ASSUME NEW i \in 1..n, NEW b \in ok[i] PROVE b \in 1..Fallback /\ LevelOk(i, b, ok[i + 1])
  <2>1. ok[i] = Remaining(i, ok[i + 1])
    BY <1>0, <1>1 DEF IsOkFrom, NumLevels
  <2>2. ~ (i > Len(lengths))
    BY <1>0 DEF NumLevels
  <2> QED BY <1>2, <1>3, <2>1, <2>2 DEF Remaining
<1>4. ASSUME NEW b \in ok[n + 1] PROVE b \in 1..Fallback /\ FallbackOk(Text[b])
  <2>1. ok[n + 1] = Remaining(n + 1, ok[n + 2])
    BY <1>0, <1>1 DEF IsOkFrom, NumLevels
  <2>2. n + 1 > Len(lengths)
    BY <1>0 DEF NumLevels
  <2> QED BY <1>2, <1>4, <2>1, <2>2 DEF Remaining
<1> DEFINE At(i, b, k) ==
      /\ IsChain(k) /\ b <= Level(k)
      /\ If(k).cond = FullGuardIn(Text[b], lengths[i])
      /\ StaticBranchOk(Text[If(k).then], lengths[i])
      /\ If(k).else \in ok[i + 1]
      /\ \/ If(k).then = Then(k) /\ If(k).else = Level(k + 1)
         \/ If(k).then = Level(k + 1) /\ If(k).else = Then(k)
<1>5. ASSUME NEW i \in 1..n, NEW b \in ok[i] PROVE ~ IsLeaf(b) /\ \E k \in 1..n : At(i, b, k)
  <2> DEFINE branch == DispatchBranch(Text, Text[b], lengths[i])
  <2>1. /\ b \in 1..Fallback /\ branch # NoMatch
        /\ StaticBranchOk(Text[OpAt(branch).then], lengths[i])
        /\ OpAt(branch).else \in ok[i + 1]
    BY <1>3 DEF LevelOk
  <2>2. /\ ~ IsLeaf(b)
        /\ \E k \in 1..NumLevels :
             /\ OpAt(branch) = If(k) /\ IsChain(k) /\ b <= Level(k)
             /\ If(k).cond = FullGuardIn(Text[b], lengths[i])
             /\ \/ If(k).then = Then(k) /\ If(k).else = Level(k + 1)
                \/ If(k).then = Level(k + 1) /\ If(k).else = Then(k)
    BY <2>1, BranchAt
  <2> HIDE DEF branch
  <2> QED BY <1>0, <2>1, <2>2
<1> DEFINE D == {i \in 1..n : \A b \in ok[i] : \A k \in 1..n : At(i, b, k) => k <= i}
           U == {i \in 1..n : Level(i) \in ok[i]}
<1>6. n \in D
  OBVIOUS
<1>7. ASSUME NEW i \in 1..n - 1, i + 1 \in D PROVE i \in D
  <2>1. SUFFICES ASSUME NEW b \in ok[i], NEW k \in 1..n, At(i, b, k) PROVE k <= i
    OBVIOUS
  <2>2. PICK c : c = If(k).else
    OBVIOUS
  <2>3. c \in ok[i + 1] /\ (c = Then(k) \/ c = Level(k + 1))
    BY <2>1, <2>2
  <2>4. i + 1 \in 1..n
    OBVIOUS
  <2>5. PICK j \in 1..n : At(i + 1, c, j)
    BY <1>5, <2>3, <2>4
  <2>6. j <= i + 1
    BY <1>7, <2>3, <2>4, <2>5
  <2>7. c <= Level(j)
    BY <2>5
  <2> QED BY <2>3, <2>6, <2>7 DEF Then, Level
<1>8. 1..n \subseteq D
  <2>1. 1 \in Nat /\ n \in Nat /\ n \in D /\ \A i \in 1..n - 1 : i + 1 \in D => i \in D
    BY <1>6, <1>7
  <2> HIDE DEF D
  <2> QED BY <2>1, DownTo
<1>9. ASSUME NEW i \in 1..n, Level(i) \in ok[i] PROVE At(i, Level(i), i)
  <2>1. PICK k \in 1..n : At(i, Level(i), k)
    BY <1>5, <1>9
  <2>2. i \in D
    BY <1>8
  <2>3. k <= i
    BY <1>9, <2>1, <2>2
  <2>4. Level(i) <= Level(k)
    BY <2>1
  <2>5. k = i
    BY <2>3, <2>4 DEF Level
  <2> HIDE DEF At
  <2> QED BY <2>1, <2>5
<1>10. ASSUME NEW i \in 1..n - 1, Level(i) \in ok[i]
       PROVE  If(i).else = Level(i + 1) /\ Level(i + 1) \in ok[i + 1]
  <2>1. i \in 1..n /\ i + 1 \in 1..n
    OBVIOUS
  <2>2. At(i, Level(i), i)
    BY <1>9, <1>10, <2>1
  <2>3. ~ IsLeaf(If(i).else)
    BY <1>5, <2>1, <2>2
  <2>4. IsLeaf(Then(i))
    BY <1>0, <2>1 DEF Shaped
  <2> QED BY <2>2, <2>3, <2>4
<1>11. 1..n \subseteq U
  <2>1. 1 \in Nat /\ n \in Nat /\ 1 \in U /\ \A i \in 1..n - 1 : i \in U => i + 1 \in U
    BY <1>1, <1>2, <1>10
  <2> HIDE DEF U
  <2> QED BY <2>1, UpTo
<1>12. ASSUME NEW i \in 1..n PROVE AcceptedLevel(i)
  <2>1. Level(i) \in ok[i]
    BY <1>11
  <2>2. At(i, Level(i), i)
    BY <1>9, <2>1
  <2>3. i < n => If(i).else = Level(i + 1)
    <3>1. i < n => i \in 1..n - 1
      OBVIOUS
    <3> QED BY <1>10, <2>1, <3>1
  <2>4. i = n => FallbackOk(Text[If(i).else])
    BY <1>4, <2>2
  <2> QED BY <1>0, <2>2, <2>3, <2>4 DEF AcceptedLevel
<1> QED BY <1>0, <1>12

-----------------------------------------------------------------------------
\* The calls of some lines.
LEMMA CallsElements ==
  ASSUME NEW lines, IsSeq(lines)
  PROVE  \A f : f \in Elements(Calls(lines)) <=>
           \E v \in Elements(lines) : OpAt(v).name = "func.call" /\ OpAt(v).callee = f
<1> DEFINE ss == [i \in DOMAIN lines |->
                    IF OpAt(lines[i]).name = "func.call" THEN <<OpAt(lines[i]).callee>> ELSE <<>>]
<1>1. Calls(lines) = SE!FlattenSeq(ss)
  BY DEF Calls
<1>2. DOMAIN lines = 1..Len(lines) /\ Len(lines) \in Nat
  BY DEF IsSeq
<1>3. IsSeq(ss) /\ Len(ss) = Len(lines)
  BY <1>2, FunctionIsSeq
<1>4. ASSUME NEW i \in 1..Len(lines)
      PROVE  /\ IsSeq(ss[i])
             /\ \A f : f \in Elements(ss[i]) <=>
                         OpAt(lines[i]).name = "func.call" /\ OpAt(lines[i]).callee = f
  <2>1. CASE OpAt(lines[i]).name = "func.call"
    <3>1. ss[i] = <<OpAt(lines[i]).callee>>
      BY <1>2, <2>1
    <3> HIDE DEF ss
    <3>2. IsSeq(ss[i]) /\ Len(ss[i]) = 1 /\ ss[i][1] = OpAt(lines[i]).callee
      BY <3>1, SingletonIsSeq
    <3> QED BY <2>1, <3>2 DEF Elements
  <2>2. CASE OpAt(lines[i]).name # "func.call"
    <3>1. ss[i] = <<>>
      BY <1>2, <2>2
    <3> HIDE DEF ss
    <3>2. IsSeq(ss[i]) /\ Len(ss[i]) = 0
      BY <3>1, EmptyIsSeq
    <3> QED BY <2>2, <3>2 DEF Elements
  <2> QED BY <2>1, <2>2
<1> HIDE DEF ss
<1>5. \A f : f \in Elements(SE!FlattenSeq(ss)) <=> \E i \in 1..Len(ss) : f \in Elements(ss[i])
  BY <1>3, <1>4, FlattenElements
<1>6. ASSUME NEW f
      PROVE  f \in Elements(Calls(lines)) <=>
               \E i \in 1..Len(lines) : OpAt(lines[i]).name = "func.call" /\ OpAt(lines[i]).callee = f
  BY <1>1, <1>3, <1>4, <1>5
<1>7. ASSUME NEW f
      PROVE  (\E i \in 1..Len(lines) : OpAt(lines[i]).name = "func.call" /\ OpAt(lines[i]).callee = f)
             <=> \E v \in {lines[i] : i \in 1..Len(lines)} :
                   OpAt(v).name = "func.call" /\ OpAt(v).callee = f
  OBVIOUS
<1>8. Elements(lines) = {lines[i] : i \in 1..Len(lines)}
  BY DEF Elements
<1> QED BY <1>6, <1>7, <1>8

\* What a block without a level calls.
LEMMA LeafCall ==
  ASSUME Shaped, NEW b \in 1..Fallback, NEW c \in 1..Len(blocks[b]) - 1, IsLeafOf(blocks[b], c)
  PROVE  /\ Val(b, c) \in Elements(Text[b]) /\ OpAt(Val(b, c)) = blocks[b][c]
         /\ \A v : v \in Elements(Text[b]) /\ OpAt(v).name = "func.call" <=> v = Val(b, c)
<1>1. Elements(Text[b]) = Own(b) /\ c \in 1..Len(blocks[b])
  <2>1. IsLeaf(b)
    BY DEF IsLeaf
  <2>2. Len(blocks[b]) \in Nat
    BY ShapedNumbers
  <2> QED BY <2>1, <2>2, TextElements
<1>2. Val(b, c) \in Own(b) /\ OpAt(Val(b, c)) = blocks[b][c]
  BY <1>1 DEF Own, OpAt, Val
<1>3. blocks[b][c].name = "func.call"
  BY <1>1 DEF IsLeafOf, LeafName
<1>4. ASSUME NEW v \in Own(b), OpAt(v).name = "func.call" PROVE v = Val(b, c)
  <2>1. v = Val(b, v[2]) /\ v[2] \in 1..Len(blocks[b]) /\ OpAt(v) = blocks[b][v[2]]
    BY OwnIs
  <2>2. v[2] = c
    BY <1>4, <2>1 DEF IsLeafOf, LeafName
  <2> QED BY <2>1, <2>2
<1> QED BY <1>1, <1>2, <1>3, <1>4

\* If the text of a leaf calls one function, the leaf's call is of it.
LEMMA LeafCallee ==
  ASSUME Shaped, NEW b \in 1..Fallback, NEW c \in 1..Len(blocks[b]) - 1, IsLeafOf(blocks[b], c),
         NEW f, Calls(Text[b]) = <<f>>
  PROVE  blocks[b][c].callee = f
<1>1. Val(b, c) \in Elements(Text[b]) /\ OpAt(Val(b, c)) = blocks[b][c]
      /\ OpAt(Val(b, c)).name = "func.call"
  BY LeafCall
<1>2. blocks[b][c].callee \in Elements(Calls(Text[b]))
  BY <1>1, TextSeqs, CallsElements
<1>3. Elements(<<f>>) = {f}
  BY SingletonIsSeq DEF Elements
<1> QED BY <1>2, <1>3

\* A leaf accepted as the fallback calls the generic function with the arguments.
LEMMA FallbackLeaf ==
  ASSUME Shaped, NEW b \in 1..Fallback, NEW c \in 1..Len(blocks[b]) - 1, IsLeafOf(blocks[b], c),
         FallbackOk(Text[b])
  PROVE  blocks[b][c].callee = Generic /\ blocks[b][c].operands = [a \in 1..NumArgs |-> Arg(a)]
<1>1. blocks[b][c].callee = Generic
  BY LeafCallee DEF FallbackOk
<1>2. OnlyCall(Text[b]) = Val(b, c)
  <2>1. \A v : v \in Elements(Text[b]) /\ OpAt(v).name = "func.call" <=> v = Val(b, c)
    BY LeafCall
  <2>2. IsSeq(Text[b])
    BY TextSeqs
  <2> QED BY <2>1, <2>2, OnlyCallIs
<1>3. OpAt(Val(b, c)) = blocks[b][c]
  BY LeafCall
<1> QED BY <1>1, <1>2, <1>3 DEF FallbackOk

-----------------------------------------------------------------------------
\* What acceptance says of an E5 wrapper, block by block.

\* The condition of level i compares each width with the level's length.
Asks(above, cond, length) ==
  \E axis, constant, firstAnd \in above : \E d, c \in [1..3 -> above] :
    /\ OpAt(axis) = ConstantOp(kSequenceAxis) /\ OpAt(constant) = ConstantOp(length)
    /\ \A a \in 1..3 : /\ OpAt(d[a]).name = "tensor.dim" /\ OpAt(d[a]).src = Arg(a)
                       /\ OpAt(d[a]).axis = axis
                       /\ OpAt(c[a]) = CmpOp(d[a], constant)
    /\ OpAt(firstAnd) = AndOp(c[1], c[2])
    /\ cond \in above /\ OpAt(cond) = AndOp(firstAnd, c[3])

AsksFor(i) == Asks(Above(i, IfPos(i)), If(i).cond, lengths[i])

CallsOnly(b, f) ==
  IsLeaf(b) /\ \A c \in 1..Len(blocks[b]) - 1 : IsLeafOf(blocks[b], c) => blocks[b][c].callee = f

FallsBack(b) ==
  CallsOnly(b, Generic)
  /\ \A c \in 1..Len(blocks[b]) - 1 :
       IsLeafOf(blocks[b], c) => blocks[b][c].operands = [a \in 1..NumArgs |-> Arg(a)]

DispatchesByWidth ==
  \A i \in 1..NumLevels :
    /\ IsChain(i) /\ AsksFor(i) /\ CallsOnly(If(i).then, Static(lengths[i]))
    /\ i < NumLevels => If(i).else = Level(i + 1)
    /\ i = NumLevels => FallsBack(If(i).else)

\* The values above a level are those of tests, which use values above them.
LEMMA AboveTests ==
  ASSUME NEW n \in Nat, NEW i \in 1..n, \A j \in 1..i : IsChain(j) /\ IfPos(j) \in Nat,
         NEW p \in 1..IfPos(i), NEW v \in Above(i, p)
  PROVE  \E j \in 1..i : /\ v[1] = Level(j) /\ v[2] \in 1..IfPos(j) - 1
                         /\ IsTest(OpAt(v), j, v[2]) /\ Above(j, v[2]) \subseteq Above(i, p)
<1>1. PICK j \in 1..i : v[1] = Level(j) /\ v[2] \in 1..(IF j = i THEN p ELSE IfPos(j)) - 1
  BY DEF Above
<1>2. IsChain(j) /\ IfPos(j) \in Nat /\ IfPos(i) \in Nat
  OBVIOUS
<1>3. v[2] \in 1..IfPos(j) - 1
  BY <1>1, <1>2
<1>4. IsTest(OpAt(v), j, v[2])
  BY <1>1, <1>2, <1>3 DEF IsChain, IsChainOf, OpAt
<1>5. ASSUME NEW u \in Above(j, v[2]) PROVE u \in Above(i, p)
  <2>1. PICK k \in 1..j : u[1] = Level(k) /\ u[2] \in 1..(IF k = j THEN v[2] ELSE IfPos(k)) - 1
    BY DEF Above
  <2>2. k \in 1..i /\ IfPos(k) \in Nat
    OBVIOUS
  <2>3. u[2] \in 1..(IF k = i THEN p ELSE IfPos(k)) - 1
    <3>1. CASE k = j
      BY <1>1, <1>3, <2>1, <2>2, <3>1
    <3>2. CASE k # j
      BY <2>1, <2>2, <3>2
    <3> QED BY <3>1, <3>2
  <2>4. u \in Nat \X Nat
    BY DEF Above
  <2> QED BY <2>1, <2>2, <2>3, <2>4 DEF Above
<1> QED BY <1>1, <1>3, <1>4, <1>5

\* An accepted level asks for its own length.
LEMMA AcceptedAsks ==
  ASSUME Shaped, kind = "E5", DimensionsReadAxis(Text), LevelsOk(Text), NEW i \in 1..NumLevels
  PROVE  AsksFor(i)
<1>0. PICK n \in Nat \ {0} : n = NumLevels
  BY ShapedNumbers
<1> DEFINE A        == Above(i, IfPos(i))
           lines    == Text[Level(i)]
           constant == ConstantIn(lines, lengths[i])
           firstAnd == FirstAndIn(lines, lengths[i])
           full     == FullGuardIn(lines, lengths[i])
           C(a)     == ComparisonIn(lines, lengths[i], a)
           D(a)     == Dimension(Text, a)
<1>1. /\ \A j \in 1..i : IsChain(j) /\ IfPos(j) \in Nat
      /\ i \in 1..n /\ IfPos(i) \in 1..IfPos(i)
      /\ Level(i) \in 1..Fallback /\ 1 \in 1..Fallback
  <2>1. /\ \A j \in 1..NumLevels : IsChain(j) /\ IfPos(j) \in Nat \ {0} /\ Level(j) \in 1..Fallback
        /\ Fallback = 2 * NumLevels + 1
    BY AcceptedLevels, ShapedNumbers DEF AcceptedLevel
  <2> QED BY <1>0, <2>1
<1>2. IsSeq(lines) /\ IsSeq(Text[1])
  BY <1>1, TextSeqs
<1>3. \A v \in A : /\ v # NoMatch
                   /\ OpAt(v).name \in {"arith.cmpi", "arith.andi"} => OpAt(v).lhs \in A /\ OpAt(v).rhs \in A
                   /\ OpAt(v).name = "tensor.dim" => OpAt(v).axis \in A
  <2> TAKE v \in A
  <2>1. v # NoMatch
    BY DEF Above, NoMatch
  <2>2. PICK j \in 1..i : IsTest(OpAt(v), j, v[2]) /\ Above(j, v[2]) \subseteq A
    BY <1>1, AboveTests
  <2> HIDE DEF A
  <2> QED BY <2>1, <2>2 DEF IsTest
<1>4. If(i).cond = full /\ full \in A
  BY AcceptedLevels DEF AcceptedLevel, IsChain, IsChainOf, IsBranch, If
<1> HIDE DEF A, lines
<1>5. OpAt(full) = AndOp(firstAnd, C(3)) /\ firstAnd \in A /\ C(3) \in A
  <2>1. full # NoMatch
    BY <1>3, <1>4
  <2>2. OpAt(full) = AndOp(firstAnd, C(3))
    BY <1>2, <2>1, OnlyFound DEF FullGuardIn
  <2> HIDE DEF full, firstAnd, C
  <2> QED BY <1>3, <1>4, <2>2 DEF AndOp
<1>6. OpAt(firstAnd) = AndOp(C(1), C(2)) /\ C(1) \in A /\ C(2) \in A
  <2>1. firstAnd # NoMatch
    BY <1>3, <1>5
  <2>2. OpAt(firstAnd) = AndOp(C(1), C(2))
    BY <1>2, <2>1, OnlyFound DEF FirstAndIn
  <2> HIDE DEF firstAnd, C
  <2> QED BY <1>3, <1>5, <2>2 DEF AndOp
<1>7. ASSUME NEW a \in 1..3 PROVE C(a) \in A
  <2>1. a = 1 \/ a = 2 \/ a = 3
    OBVIOUS
  <2> QED BY <1>5, <1>6, <2>1
<1>8. ASSUME NEW a \in 1..3 PROVE OpAt(C(a)) = CmpOp(D(a), constant) /\ D(a) \in A /\ constant \in A
  <2>1. C(a) # NoMatch
    BY <1>3, <1>7
  <2>2. OpAt(C(a)) = CmpOp(D(a), constant)
    BY <1>2, <2>1, OnlyFound DEF ComparisonIn
  <2> HIDE DEF constant, C, D
  <2> QED BY <1>3, <1>7, <2>2 DEF CmpOp
<1>9. constant \in A /\ OpAt(constant) = ConstantOp(lengths[i])
  <2>1. constant \in A /\ constant # NoMatch
    <3>1. 1 \in 1..3
      OBVIOUS
    <3> QED BY <1>3, <1>8, <3>1
  <2> QED BY <1>2, <2>1, OnlyFound DEF ConstantIn
<1>10. NumArgs = 3
  BY ArgsCount DEF Shaped
<1>11. PICK axis \in SE!ToSet(Text[1]) :
         OpAt(axis) = ConstantOp(kSequenceAxis) /\ \A a \in 1..3 : OpAt(D(a)).axis = axis
  BY <1>10 DEF DimensionsReadAxis
<1>12. \A a \in 1..3 : D(a) # NoMatch
  BY <1>10 DEF DimensionsReadAxis
<1>13. ASSUME NEW a \in 1..3
       PROVE  OpAt(D(a)).name = "tensor.dim" /\ OpAt(D(a)).src = Arg(a) /\ OpAt(D(a)).axis = axis
  BY <1>2, <1>11, <1>12, DimensionFound
<1>14. axis \in A
  <2>1. 1 \in 1..3
    OBVIOUS
  <2>2. D(1) \in A
    BY <1>8, <2>1
  <2> HIDE DEF D
  <2> QED BY <1>3, <1>13, <2>1, <2>2
<1> DEFINE c == [a \in 1..3 |-> C(a)]
           d == [a \in 1..3 |-> D(a)]
<1> HIDE DEF C, D, constant, firstAnd, full
<1>15. c \in [1..3 -> A] /\ d \in [1..3 -> A]
  BY <1>7, <1>8
<1>16. c[1] = C(1) /\ c[2] = C(2) /\ c[3] = C(3) /\ \A a \in 1..3 : c[a] = C(a) /\ d[a] = D(a)
  OBVIOUS
<1> HIDE DEF c, d
<1>17. /\ OpAt(axis) = ConstantOp(kSequenceAxis) /\ OpAt(constant) = ConstantOp(lengths[i])
       /\ \A a \in 1..3 : /\ OpAt(d[a]).name = "tensor.dim" /\ OpAt(d[a]).src = Arg(a)
                          /\ OpAt(d[a]).axis = axis
                          /\ OpAt(c[a]) = CmpOp(d[a], constant)
       /\ OpAt(firstAnd) = AndOp(c[1], c[2])
       /\ If(i).cond \in A /\ OpAt(If(i).cond) = AndOp(firstAnd, c[3])
  BY <1>4, <1>5, <1>6, <1>8, <1>9, <1>11, <1>13, <1>16
<1> QED BY <1>5, <1>9, <1>14, <1>15, <1>17, Zenon DEF AsksFor, Asks, A

\* An accepted E5 wrapper dispatches by width.
LEMMA AcceptedDispatches ==
  ASSUME Shaped, kind = "E5", WrapperOk(Text) PROVE DispatchesByWidth
<1>1. DimensionsReadAxis(Text) /\ LevelsOk(Text)
  BY DEF WrapperOk
<1>2. \A i \in 1..NumLevels : AcceptedLevel(i)
  BY <1>1, AcceptedLevels
<1>3. ASSUME NEW i \in 1..NumLevels
      PROVE  /\ IsChain(i) /\ AsksFor(i) /\ CallsOnly(If(i).then, Static(lengths[i]))
             /\ i < NumLevels => If(i).else = Level(i + 1)
             /\ i = NumLevels => FallsBack(If(i).else)
  <2>1. AcceptedLevel(i) /\ AsksFor(i)
    BY <1>1, <1>2, AcceptedAsks
  <2>2. NumLevels \in Nat \ {0} /\ Then(i) \in 1..Fallback /\ Level(i + 1) \in 1..Fallback
        /\ Level(NumLevels + 1) = Fallback
    BY ShapedNumbers
  <2>3. IsLeaf(Then(i)) /\ IsLeaf(Fallback)
    BY DEF Shaped
  <2>4. i < NumLevels => If(i).then = Then(i)
    <3>1. ASSUME i < NumLevels, If(i).then = Level(i + 1) PROVE If(i).then = Then(i)
      <4>1. If(i).else = Then(i) /\ If(i).else = Level(i + 1)
        <5>1. If(i).else = Level(i + 1)
          BY <2>1, <3>1 DEF AcceptedLevel
        <5> QED BY <2>1, <3>1, <5>1 DEF AcceptedLevel
      <4> QED BY <3>1, <4>1
    <3> QED BY <2>1, <3>1 DEF AcceptedLevel
  <2>5. IsLeaf(If(i).then) /\ If(i).then \in 1..Fallback
    <3>1. CASE i < NumLevels
      BY <2>2, <2>3, <2>4, <3>1
    <3>2. CASE i = NumLevels
      BY <2>1, <2>2, <2>3, <3>2 DEF AcceptedLevel
    <3> QED BY <2>2, <3>1, <3>2
  <2>6. CallsOnly(If(i).then, Static(lengths[i]))
    BY <2>1, <2>5, LeafCallee DEF CallsOnly, AcceptedLevel, StaticBranchOk
  <2>7. ASSUME i = NumLevels PROVE FallsBack(If(i).else)
    <3>1. IsLeaf(If(i).else) /\ If(i).else \in 1..Fallback
      BY <2>1, <2>2, <2>3, <2>7 DEF AcceptedLevel
    <3>2. FallbackOk(Text[If(i).else])
      BY <2>1, <2>7 DEF AcceptedLevel
    <3> QED BY <3>1, <3>2, FallbackLeaf DEF FallsBack, CallsOnly
  <2> QED BY <2>1, <2>6, <2>7 DEF AcceptedLevel
<1> QED BY <1>3 DEF DispatchesByWidth

-----------------------------------------------------------------------------
\* What acceptance says of the wrapper of another contract: its last calls are
\* all its calls.

\* What a call forwards.
Forwarding(op) ==
  /\ \A i \in NumArgs + 1..NumInputs : i \in DOMAIN op.operands /\ op.operands[i] = Arg(i)
  /\ op.callee = Generic => \A i \in 1..NumInputs : i \in DOMAIN op.operands /\ op.operands[i] = Arg(i)

AllForward ==
  \A b \in 1..Fallback : InTree(b) =>
    \A c \in 1..Len(blocks[b]) - 1 : IsLeafOf(blocks[b], c) => Forwarding(blocks[b][c])

\* The greatest of finitely many numbers is one of them.
LEMMA Greatest ==
  ASSUME NEW n \in Nat, NEW S \in SUBSET (1..n), S # {}
  PROVE  SE!Max(S) \in S
<1> DEFINE T == {n - x : x \in S}
<1>1. T \in SUBSET Nat /\ T # {}
  <2>1. \A x \in S : n - x \in Nat
    OBVIOUS
  <2>2. PICK x \in S : TRUE
    OBVIOUS
  <2>3. n - x \in T
    OBVIOUS
  <2> QED BY <2>1, <2>3
<1>2. PICK m \in T : \A k \in T : m <= k
  <2> HIDE DEF T
  <2> QED BY <1>1, LeastNumber
<1>3. PICK x \in S : m = n - x
  BY <1>2
<1>4. \A y \in S : x >= y
  <2> TAKE y \in S
  <2>1. n - y \in T
    OBVIOUS
  <2>2. n - x <= n - y
    BY <1>2, <1>3, <2>1
  <2>3. x \in Nat /\ y \in Nat
    OBVIOUS
  <2> QED BY <2>2, <2>3
<1>5. SE!Max(S) = CHOOSE z \in S : \A y \in S : z >= y
  BY DEF SE!Max
<1> QED BY <1>4, <1>5

\* What parse_call_args returns are the operands of a call in the text, or nothing
\* if there is none.
LEMMA LastCall ==
  ASSUME IsSeq(Text[1]), NEW f
  PROVE  IF \E v \in Elements(Text[1]) : OpAt(v).name = "func.call" /\ OpAt(v).callee = f
           THEN \E v \in Elements(Text[1]) :
                  /\ OpAt(v).name = "func.call" /\ OpAt(v).callee = f
                  /\ OpAt(v).operands = parse_call_args(Text, f)
           ELSE parse_call_args(Text, f) = <<>>
<1> DEFINE calls == {i \in DOMAIN Text[1] : /\ OpAt(Text[1][i]).name = "func.call"
                                            /\ OpAt(Text[1][i]).callee = f}
<1>1. parse_call_args(Text, f) = IF calls = {} THEN <<>> ELSE OpAt(Text[1][SE!Max(calls)]).operands
  BY DEF parse_call_args
<1>2. DOMAIN Text[1] = 1..Len(Text[1]) /\ Len(Text[1]) \in Nat
  BY DEF IsSeq
<1>3. calls = {} <=> ~ \E v \in Elements(Text[1]) : OpAt(v).name = "func.call" /\ OpAt(v).callee = f
  BY <1>2 DEF Elements
<1>4. ASSUME calls # {}
      PROVE  \E v \in Elements(Text[1]) :
               /\ OpAt(v).name = "func.call" /\ OpAt(v).callee = f
               /\ OpAt(v).operands = parse_call_args(Text, f)
  <2>1. calls \in SUBSET (1..Len(Text[1]))
    BY <1>2
  <2>2. PICK m : m = SE!Max(calls) /\ m \in calls
    <3> HIDE DEF calls
    <3> QED BY <1>2, <1>4, <2>1, Greatest
  <2>3. m \in 1..Len(Text[1]) /\ Text[1][m] \in Elements(Text[1])
    BY <1>2, <2>2 DEF Elements
  <2>4. OpAt(Text[1][m]).operands = parse_call_args(Text, f)
    <3> HIDE DEF calls
    <3> QED BY <1>1, <1>4, <2>2
  <2> QED BY <2>2, <2>3, <2>4
<1> HIDE DEF calls
<1> QED BY <1>1, <1>3, <1>4

\* The call of a leaf is one.
LEMMA OneCall ==
  ASSUME NEW block, NEW c, IsLeafOf(block, c), NEW d \in 1..Len(block), block[d].name = "func.call"
  PROVE  d = c
  BY DEF IsLeafOf, LeafName

\* A call of the text is the call of a leaf that is not cut off.
LEMMA CallInLeaf ==
  ASSUME Shaped, NEW v \in Elements(Text[1]), OpAt(v).name = "func.call"
  PROVE  \E b \in 1..Fallback : /\ InTree(b) /\ v[2] \in 1..Len(blocks[b]) - 1
                                /\ IsLeafOf(blocks[b], v[2]) /\ OpAt(v) = blocks[b][v[2]]
<1>1. PICK b \in 1..Fallback : InTree(b) /\ v \in Own(b)
  BY WholeText
<1>2. v[2] \in 1..Len(blocks[b]) /\ OpAt(v) = blocks[b][v[2]]
  BY <1>1, OwnIs
<1>3. IsLeaf(b)
  <2>1. ASSUME NEW i \in 1..NumLevels, b = Level(i), IsChain(i) PROVE FALSE
    <3>1. /\ Len(blocks[b]) = IfPos(i) + 1 /\ IfPos(i) \in Nat \ {0}
          /\ \A p \in 1..IfPos(i) - 1 : IsTest(blocks[b][p], i, p)
          /\ IsBranch(blocks[b][IfPos(i)], i)
          /\ blocks[b][IfPos(i) + 1].name \in Terminators
      BY <2>1, ShapedNumbers DEF IsChain, IsChainOf
    <3>2. v[2] \in 1..IfPos(i) - 1 \/ v[2] = IfPos(i) \/ v[2] = IfPos(i) + 1
      BY <1>2, <3>1
    <3> QED BY <1>2, <3>1, <3>2 DEF IsTest, IsBranch, Terminators
  <2> QED BY <2>1, LeafOrChain
<1>4. PICK c \in 1..Len(blocks[b]) - 1 : IsLeafOf(blocks[b], c)
  BY <1>3 DEF IsLeaf
<1>5. v[2] = c
  BY <1>2, <1>4, OneCall
<1> QED BY <1>1, <1>2, <1>4, <1>5

\* There are as many leaves in the wrapper as functions.
Leaf(k) == IF k <= NumLevels /\ IsChain(k) THEN Then(k) ELSE Level(k)

\* The leaves that are not cut off are at most one for each level, and one.
LEMMA InTreeLeaf ==
  ASSUME Shaped, NEW b \in 1..Fallback, InTree(b), IsLeaf(b)
  PROVE  \E k \in 1..NumLevels + 1 : b = Leaf(k)
<1>0. PICK n \in Nat \ {0} : n = NumLevels
  BY ShapedNumbers
<1>1. ASSUME NEW i \in 1..n, IsChain(i), b = Level(i) PROVE FALSE
  <2>0. i \in 1..NumLevels
    BY <1>0
  <2>2. Len(blocks[b]) = IfPos(i) + 1 /\ blocks[b][IfPos(i)].name = "scf.if"
    BY <1>1 DEF IsChain, IsChainOf, IsBranch
  <2>3. IfPos(i) \in Nat \ {0}
    BY <2>0, ShapedNumbers
  <2>1. IfPos(i) \in 1..Len(blocks[b]) /\ blocks[b][IfPos(i)].name = "scf.if"
    BY <2>2, <2>3
  <2> QED BY <2>1 DEF IsLeaf, IsLeafOf, LeafName
<1>2. CASE \E i \in 1..n + 1 : b = Level(i)
  <2>1. PICK i \in 1..n + 1 : b = Level(i)
    BY <1>2
  <2>2. b = Leaf(i)
    BY <1>0, <1>1, <2>1 DEF Leaf
  <2> QED BY <1>0, <2>1, <2>2
<1>3. CASE \E i \in 1..n : b = Then(i) /\ Reached(i + 1)
  <2>1. PICK i \in 1..n : b = Then(i) /\ Reached(i + 1)
    BY <1>3
  <2>2. IsChain(i) /\ i <= n /\ i \in 1..n + 1
    BY <2>1 DEF Reached
  <2>3. b = Leaf(i)
    BY <1>0, <2>1, <2>2 DEF Leaf
  <2> QED BY <1>0, <2>2, <2>3
<1> QED BY <1>0, <1>2, <1>3 DEF InTree

Name(k) == IF k <= NumLevels THEN Static(lengths[k]) ELSE Generic

\* There are as many functions to call, each with a name of its own.
LEMMA NamesDiffer ==
  ASSUME lengths \in LengthLists
  PROVE  \A j, k \in 1..NumLevels + 1 : Name(j) = Name(k) => j = k
<1>1. /\ NumLevels \in Nat \ {0}
      /\ \A i \in 1..NumLevels : lengths[i] \in Nat \ {0}
      /\ \A i, j \in 1..NumLevels : i < j => lengths[i] < lengths[j]
  BY LengthsType
<1>2. \A i, j \in 1..NumLevels : lengths[i] = lengths[j] => i = j
  BY <1>1
<1>3. \A x, y : Static(x) = Static(y) => x = y
  BY Callees
<1>4. \A x : Static(x) # Generic
  BY Callees
<1>5. ASSUME NEW j \in 1..NumLevels + 1, NEW k \in 1..NumLevels + 1, Name(j) = Name(k) PROVE j = k
  <2>1. (j \in 1..NumLevels \/ j = NumLevels + 1) /\ (k \in 1..NumLevels \/ k = NumLevels + 1)
    BY <1>1
  <2>2. CASE j \in 1..NumLevels /\ k \in 1..NumLevels
    <3>1. Name(j) = Static(lengths[j]) /\ Name(k) = Static(lengths[k])
      BY <1>1, <2>2 DEF Name
    <3> QED BY <1>2, <1>3, <1>5, <2>2, <3>1
  <2>3. CASE j \in 1..NumLevels /\ k = NumLevels + 1
    BY <1>1, <1>4, <1>5, <2>3 DEF Name
  <2>4. CASE k \in 1..NumLevels /\ j = NumLevels + 1
    BY <1>1, <1>4, <1>5, <2>4 DEF Name
  <2> QED BY <2>1, <2>2, <2>3, <2>4
<1> QED BY <1>5

\* If every function is called, every leaf is the last call of some function.
LEMMA LastCalls ==
  ASSUME Shaped, \A k \in 1..NumLevels + 1 : parse_call_args(Text, Name(k)) # <<>>,
         NEW b \in 1..Fallback, InTree(b), NEW c \in 1..Len(blocks[b]) - 1, IsLeafOf(blocks[b], c)
  PROVE  \E k \in 1..NumLevels + 1 : /\ blocks[b][c].callee = Name(k)
                                     /\ blocks[b][c].operands = parse_call_args(Text, Name(k))
<1>0. PICK m \in Nat \ {0} : m = NumLevels + 1
  BY ShapedNumbers
<1> DEFINE Calls1(j, k) == \E d \in 1..Len(blocks[Leaf(j)]) - 1 :
                            /\ IsLeafOf(blocks[Leaf(j)], d)
                            /\ blocks[Leaf(j)][d].callee = Name(k)
                            /\ blocks[Leaf(j)][d].operands = parse_call_args(Text, Name(k))
           g == [k \in 1..m |-> CHOOSE j \in 1..m : Calls1(j, k)]
<1>1. ASSUME NEW k \in 1..m PROVE \E j \in 1..m : Calls1(j, k)
  <2>1. 1 \in 1..Fallback /\ IsSeq(Text[1])
    <3>1. NumLevels \in Nat \ {0} /\ Fallback = 2 * NumLevels + 1
      BY ShapedNumbers
    <3>2. 1 \in 1..Fallback
      BY <3>1
    <3> QED BY <3>2, TextSeqs
  <2>2. PICK v \in Elements(Text[1]) : /\ OpAt(v).name = "func.call" /\ OpAt(v).callee = Name(k)
                                       /\ OpAt(v).operands = parse_call_args(Text, Name(k))
    BY <1>0, <2>1, LastCall
  <2>3. PICK e \in 1..Fallback : /\ InTree(e) /\ v[2] \in 1..Len(blocks[e]) - 1
                                 /\ IsLeafOf(blocks[e], v[2]) /\ OpAt(v) = blocks[e][v[2]]
    BY <2>2, CallInLeaf
  <2>4. PICK j \in 1..m : e = Leaf(j)
    <3>1. IsLeaf(e)
      BY <2>3 DEF IsLeaf
    <3> QED BY <1>0, <2>3, <3>1, InTreeLeaf
  <2> QED BY <2>2, <2>3, <2>4
<1>2. \A k \in 1..m : g[k] \in 1..m /\ Calls1(g[k], k)
  BY <1>1
<1>3. ASSUME NEW j \in 1..m, NEW k \in 1..m, g[j] = g[k] PROVE j = k
  <2>1. Calls1(g[j], j) /\ Calls1(g[j], k)
    <3> HIDE DEF Calls1, g
    <3>1. Calls1(g[j], j) /\ Calls1(g[k], k)
      BY <1>2
    <3> QED BY <1>3, <3>1
  <2> HIDE DEF g
  <2>2. Name(j) = Name(k)
    <3>1. PICK d \in 1..Len(blocks[Leaf(g[j])]) - 1 :
            IsLeafOf(blocks[Leaf(g[j])], d) /\ blocks[Leaf(g[j])][d].callee = Name(j)
      BY <2>1
    <3>2. PICK e \in 1..Len(blocks[Leaf(g[j])]) - 1 :
            IsLeafOf(blocks[Leaf(g[j])], e) /\ blocks[Leaf(g[j])][e].callee = Name(k)
      BY <2>1
    <3>3. e \in 1..Len(blocks[Leaf(g[j])]) /\ blocks[Leaf(g[j])][e].name = "func.call"
      <4> DEFINE block == blocks[Leaf(g[j])]
      <4> HIDE DEF block
      <4>1. e \in 1..Len(block) - 1 /\ IsLeafOf(block, e)
        BY <3>2 DEF block
      <4>2. g[j] \in 1..m
        BY <1>2
      <4>3. Len(block) \in Nat
        <5>1. Leaf(g[j]) \in 1..Fallback
          <6>1. /\ NumLevels \in Nat \ {0} /\ Fallback = 2 * NumLevels + 1
                /\ \A i \in 1..NumLevels : Level(i) \in 1..Fallback /\ Then(i) \in 1..Fallback
                /\ Level(NumLevels + 1) = Fallback
            BY ShapedNumbers
          <6> QED BY <1>0, <4>2, <6>1 DEF Leaf
        <5> QED BY <5>1, ShapedNumbers DEF block
      <4>4. e \in 1..Len(block)
        BY <4>1, <4>3
      <4> QED BY <4>1, <4>4 DEF IsLeafOf, LeafName, block
    <3>4. e = d
      BY <3>1, <3>3, OneCall
    <3> QED BY <3>1, <3>2, <3>4
  <2> QED BY <1>0, <2>2, NamesDiffer DEF Shaped
<1>4. g \in Injection(1..m, 1..m)
  <2>1. g \in [1..m -> 1..m]
    <3>1. g = [k \in 1..m |-> g[k]]
      <4> HIDE DEF Calls1
      <4> QED OBVIOUS
    <3> HIDE DEF g
    <3> QED BY <1>2, <3>1
  <2> HIDE DEF g
  <2>2. \A j, k \in 1..m : g[j] = g[k] => j = k
    BY <1>3
  <2> QED BY <2>1, <2>2, Zenon DEF Injection, IsInjective
<1>5. g \in Surjection(1..m, 1..m)
  <2> HIDE DEF g
  <2>1. IsFiniteSet(1..m)
    BY FS_Interval
  <2> QED BY <1>4, <2>1, FS_Injection
<1>6. PICK j \in 1..m : b = Leaf(j)
  <2>1. IsLeaf(b)
    BY DEF IsLeaf
  <2> QED BY <1>0, <2>1, InTreeLeaf
<1>7. PICK k \in 1..m : g[k] = j
  <2> HIDE DEF g
  <2> QED BY <1>5 DEF Surjection
<1>8. Calls1(j, k)
  <2> HIDE DEF Calls1
  <2> QED BY <1>2, <1>7
<1>9. PICK d \in 1..Len(blocks[b]) - 1 : /\ IsLeafOf(blocks[b], d)
                                         /\ blocks[b][d].callee = Name(k)
                                         /\ blocks[b][d].operands = parse_call_args(Text, Name(k))
  BY <1>6, <1>8
<1>10. d \in 1..Len(blocks[b]) /\ blocks[b][d].name = "func.call"
  <2>1. Len(blocks[b]) \in Nat
    BY ShapedNumbers
  <2>2. d \in 1..Len(blocks[b])
    BY <2>1
  <2> QED BY <1>9, <2>2 DEF IsLeafOf, LeafName
<1>11. d = c
  BY <1>10, OneCall
<1> QED BY <1>0, <1>9, <1>11

\* So every call of an accepted wrapper forwards the parameters.
LEMMA AcceptedForwards ==
  ASSUME Shaped, kind # "E5", Forwards(Text) PROVE AllForward
<1>0. /\ NumLevels \in Nat \ {0} /\ DOMAIN lengths = 1..NumLevels /\ NumArgs = 1
      /\ NumInputs \in Nat \ {0}
  <2>1. NumArgs = 1 /\ NumInputs \in Nat /\ NumArgs <= NumInputs
    BY ArgsCount DEF Shaped
  <2> QED BY <2>1, LengthsType DEF Shaped
<1>1. \A k \in 1..NumLevels + 1 : parse_call_args(Text, Name(k)) # <<>>
  <2> TAKE k \in 1..NumLevels + 1
  <2>1. CASE k \in 1..NumLevels
    BY <1>0, <2>1 DEF Forwards, Name
  <2>2. CASE k = NumLevels + 1
    <3>1. parse_call_args(Text, Name(k)) = [a \in 1..NumInputs |-> Arg(a)]
      BY <1>0, <2>2 DEF Forwards, Name
    <3>2. PICK t : t = [a \in 1..NumInputs |-> Arg(a)]
      OBVIOUS
    <3>3. t = [a \in 1..NumInputs |-> t[a]]
      BY <3>2
    <3>4. IsSeq(t) /\ Len(t) = NumInputs
      BY <1>0, <3>3, FunctionIsSeq
    <3> QED BY <1>0, <3>1, <3>2, <3>4, EmptyIfNone
  <2> QED BY <1>0, <2>1, <2>2
<1>2. ASSUME NEW b \in 1..Fallback, InTree(b), NEW c \in 1..Len(blocks[b]) - 1, IsLeafOf(blocks[b], c)
      PROVE  Forwarding(blocks[b][c])
  <2>1. PICK k \in 1..NumLevels + 1 : /\ blocks[b][c].callee = Name(k)
                                      /\ blocks[b][c].operands = parse_call_args(Text, Name(k))
    BY <1>1, <1>2, LastCalls
  <2> DEFINE args == blocks[b][c].operands
  <2>2. IsSeq(args)
    BY <1>2 DEF IsLeafOf
  <2> HIDE DEF args
  <2>3. CASE k = NumLevels + 1
    <3>1. args = [a \in 1..NumInputs |-> Arg(a)]
      BY <1>0, <2>1, <2>3 DEF Forwards, Name, args
    <3>2. \A i \in 1..NumInputs : i \in DOMAIN args /\ args[i] = Arg(i)
      BY <3>1
    <3>3. NumArgs + 1..NumInputs \subseteq 1..NumInputs
      BY <1>0
    <3> QED BY <3>2, <3>3 DEF Forwarding, args
  <2>4. CASE k \in 1..NumLevels
    <3>0. k \in DOMAIN lengths /\ args = parse_call_args(Text, Static(lengths[k]))
      <4>1. Name(k) = Static(lengths[k])
        BY <1>0, <2>4 DEF Name
      <4> QED BY <1>0, <2>1, <2>4, <4>1 DEF args
    <3>1. args # <<>> /\ Tail(args) = [a \in 1..(NumInputs - 1) |-> Arg(a + 1)]
      BY <3>0, Zenon DEF Forwards
    <3>2. Len(args) \in Nat \ {0} /\ DOMAIN args = 1..Len(args)
      BY <2>2, <3>1, EmptyIfNone DEF IsSeq
    <3>3. /\ Len(Tail(args)) = Len(args) - 1
          /\ \A i \in 1..Len(args) - 1 : Tail(args)[i] = args[i + 1]
      BY <2>2, <3>2, TailIsSeq
    <3>4. Len(Tail(args)) = NumInputs - 1
      <4>1. PICK t : t = [a \in 1..(NumInputs - 1) |-> Arg(a + 1)]
        OBVIOUS
      <4>2. NumInputs - 1 \in Nat /\ t = [a \in 1..(NumInputs - 1) |-> t[a]]
        BY <1>0, <4>1
      <4>3. Len(t) = NumInputs - 1
        BY <4>2, FunctionIsSeq
      <4> QED BY <3>1, <4>1, <4>3
    <3>5. ASSUME NEW i \in 2..NumInputs PROVE i \in DOMAIN args /\ args[i] = Arg(i)
      <4>1. i - 1 \in 1..NumInputs - 1 /\ (i - 1) + 1 = i
        BY <1>0
      <4>2. Tail(args)[i - 1] = Arg(i)
        BY <3>1, <4>1
      <4>3. Tail(args)[i - 1] = args[i]
        BY <3>2, <3>3, <3>4, <4>1
      <4>4. i \in DOMAIN args
        BY <1>0, <3>2, <3>3, <3>4
      <4> QED BY <4>2, <4>3, <4>4
    <3>6. blocks[b][c].callee # Generic
      <4>1. Name(k) = Static(lengths[k])
        BY <1>0, <2>4 DEF Name
      <4> QED BY <2>1, <4>1, Callees
    <3> QED BY <1>0, <3>5, <3>6 DEF Forwarding, args
  <2> QED BY <1>0, <2>3, <2>4
<1> QED BY <1>2, Zenon DEF AllForward

-----------------------------------------------------------------------------
\* A run of an edited wrapper.

\* Where it is.
Placed ==
  /\ pc = Val(pc[1], pc[2])
  /\ pc[1] \in 1..Fallback /\ InTree(pc[1]) /\ pc[2] \in 1..Len(blocks[pc[1]])

\* A test's value is what the operation computes from the values it uses.
Computes(op, x) ==
  /\ op.name = "arith.constant" => x = op.value
  /\ op.name = "tensor.dim" =>
       x = IF env[op.axis] = kSequenceAxis THEN widths[op.src[2]] ELSE kBatch
  /\ op.name = "arith.cmpi" => Says(x, env[op.lhs] = env[op.rhs])
  /\ op.name = "arith.andi" => Says(x, env[op.lhs] /\ env[op.rhs])

Means(v) == v \in DOMAIN env /\ Computes(OpAt(v), env[v])

\* On its way down an accepted E5 wrapper, or in the function's region it has
\* chosen, or on its way up.
AsksAt(i, p) == p \in 1..IfPos(i) /\ Missed(i) /\ \A v \in Above(i, p) : Means(v)

Asking   == \E i \in 1..NumLevels : pc[1] = Level(i) /\ AsksAt(i, pc[2])
Answered == \E i \in 1..NumLevels : pc[1] = Level(i) /\ pc[2] = IfPos(i) + 1
Chosen   == \E i \in 1..NumLevels : pc[1] = If(i).then /\ Matches(i)
Refused  == pc[1] = If(NumLevels).else /\ Missed(NumLevels + 1)

Choosing == Asking \/ Answered \/ Chosen \/ Refused

\* What is known of the wrapper once it is accepted.
Accepted ==
  /\ kind = "E5" => DispatchesByWidth
  /\ kind # "E5" => AllForward

CheckerInv ==
  /\ phase \in {"clones", "chain", "unwind", "ready", "run"}
  /\ phase \notin {"ready", "run"} => EmitInv /\ verdict = "none"
  /\ phase \in {"ready", "run"} => Shaped
  /\ verdict = "accepted" => phase \in {"ready", "run"} /\ Accepted
  /\ phase = "run" => verdict = "accepted" /\ Placed /\ (kind = "E5" => Choosing)
  /\ phase # "run" => callee = NoCallee
  /\ AcceptedRoutes /\ AcceptedFallback /\ AccountedForwards

-----------------------------------------------------------------------------
\* What is said of the wrapper is so after a step that keeps it.
LEMMA SameWrapper ==
  ASSUME UNCHANGED <<kind, lengths, blocks>>
  PROVE  /\ NumLevels' = NumLevels /\ NumArgs' = NumArgs /\ NumInputs' = NumInputs
         /\ Fallback' = Fallback /\ \A i : IfPos(i)' = IfPos(i)
         /\ \A i, p : Above(i, p)' = Above(i, p)
         /\ \A i : IsChain(i)' <=> IsChain(i)
         /\ \A b : IsLeaf(b)' <=> IsLeaf(b)
         /\ \A i : If(i)' = If(i)
         /\ \A v : OpAt(v)' = OpAt(v)
         /\ \A b : InTree(b)' <=> InTree(b)
         /\ Shaped' <=> Shaped
         /\ DispatchesByWidth' <=> DispatchesByWidth
         /\ AllForward' <=> AllForward
         /\ Accepted' <=> Accepted
<1>1. /\ NumArgs' = NumArgs /\ NumInputs' = NumInputs /\ NumLevels' = NumLevels
      /\ Fallback' = Fallback /\ \A i : IfPos(i)' = IfPos(i)
  BY SameEntry
<1>2. \A i, p : Above(i, p)' = Above(i, p)
  BY <1>1 DEF Above
<1>3. \A op, i, p : IsTest(op, i, p)' <=> IsTest(op, i, p)
  BY <1>1, <1>2 DEF IsTest
<1>4. \A op, i : IsBranch(op, i)' <=> IsBranch(op, i)
  BY <1>1, <1>2 DEF IsBranch
<1>5. \A block, i : IsChainOf(block, i)' <=> IsChainOf(block, i)
  BY <1>1, <1>3, <1>4 DEF IsChainOf
<1>6. \A i : IsChain(i)' <=> IsChain(i)
  BY <1>5 DEF IsChain
<1>7. \A b : IsLeaf(b)' <=> IsLeaf(b)
  BY DEF IsLeaf
<1>8. \A i : If(i)' = If(i)
  BY <1>1 DEF If
<1>9. \A v : OpAt(v)' = OpAt(v)
  BY DEF OpAt
<1>10. \A b : InTree(b)' <=> InTree(b)
  BY <1>1, <1>6 DEF InTree, Reached
<1>11. Shaped' <=> Shaped
  BY <1>1, <1>6, <1>7 DEF Shaped
<1>12. \A i : AsksFor(i)' <=> AsksFor(i)
  <2>1. \A above, cond, length : Asks(above, cond, length)' <=> Asks(above, cond, length)
    BY DEF Asks, OpAt
  <2> QED BY <1>1, <1>2, <1>8, <2>1 DEF AsksFor
<1>13. \A b, f : CallsOnly(b, f)' <=> CallsOnly(b, f)
  BY <1>7 DEF CallsOnly
<1>14. \A b : FallsBack(b)' <=> FallsBack(b)
  BY <1>1, <1>13 DEF FallsBack, Generic, R!Generic
<1>15. DispatchesByWidth' <=> DispatchesByWidth
  BY <1>1, <1>6, <1>8, <1>12, <1>13, <1>14 DEF DispatchesByWidth, Static, R!Static
<1>16. \A op : Forwarding(op)' <=> Forwarding(op)
  BY <1>1 DEF Forwarding, Generic, R!Generic
<1>17. AllForward' <=> AllForward
  BY <1>1, <1>10, <1>16 DEF AllForward
<1>18. Accepted' <=> Accepted
  BY <1>15, <1>17 DEF Accepted
<1> QED BY <1>1, <1>2, <1>6, <1>7, <1>8, <1>9, <1>10, <1>11, <1>15, <1>17, <1>18

-----------------------------------------------------------------------------
\* The operation a run has reached.
LeafPoint ==
  /\ IsLeaf(pc[1]) /\ Current.name \in {"tensor.cast", "func.call", "scf.yield"}
  /\ Current.name # "scf.yield" => pc[2] + 1 \in 1..Len(blocks[pc[1]])
  /\ \A c \in 1..Len(blocks[pc[1]]) - 1 :
       IsLeafOf(blocks[pc[1]], c) /\ Current.name = "func.call" => pc[2] = c

ChainPoint(i) ==
  /\ pc[1] = Level(i) /\ IsChain(i) /\ Reached(i) /\ Len(blocks[pc[1]]) = IfPos(i) + 1
  /\ IfPos(i) \in Nat \ {0}
  /\ \/ pc[2] \in 1..IfPos(i) - 1 /\ IsTest(Current, i, pc[2])
     \/ pc[2] = IfPos(i) /\ IsBranch(Current, i) /\ Current = If(i)
     \/ pc[2] = IfPos(i) + 1 /\ Current.name \in Terminators

\* A block is not cut off only if the levels before it still test.
LEMMA InTreeReached ==
  ASSUME NEW n \in Nat \ {0}, n = NumLevels
  PROVE  /\ \A i \in 1..n + 1 : InTree(Level(i)) => Reached(i)
         /\ \A i \in 1..n : InTree(Then(i)) => Reached(i + 1)
<1>1. /\ \A i, k \in 1..n + 1 : Level(i) = Level(k) => i = k
      /\ \A i \in 1..n + 1, k \in 1..n : Level(i) # Then(k)
      /\ \A i, k \in 1..n : Then(i) = Then(k) => i = k
  BY BlocksDiffer
<1> QED BY <1>1 DEF InTree

\* A run is in a leaf or at an operation of a level that still tests.
LEMMA Points ==
  ASSUME Shaped, Placed PROVE LeafPoint \/ \E i \in 1..NumLevels : ChainPoint(i)
<1>0. PICK n \in Nat \ {0} : n = NumLevels
  BY ShapedNumbers
<1>1. pc[1] \in 1..Fallback /\ InTree(pc[1]) /\ pc[2] \in 1..Len(blocks[pc[1]])
      /\ Len(blocks[pc[1]]) \in Nat /\ Current = blocks[pc[1]][pc[2]]
  BY ShapedNumbers DEF Placed, Current
<1>2. CASE IsLeaf(pc[1])
  <2>1. PICK c \in 1..Len(blocks[pc[1]]) - 1 : IsLeafOf(blocks[pc[1]], c)
    BY <1>2 DEF IsLeaf
  <2>2. Current.name = LeafName(pc[2], c, Len(blocks[pc[1]]))
    BY <1>1, <2>1 DEF IsLeafOf
  <2>3. Current.name # "scf.yield" => pc[2] + 1 \in 1..Len(blocks[pc[1]])
    BY <1>1, <2>2 DEF LeafName
  <2>4. \A d \in 1..Len(blocks[pc[1]]) - 1 :
          IsLeafOf(blocks[pc[1]], d) /\ Current.name = "func.call" => pc[2] = d
    BY <1>1, OneCall
  <2> QED BY <1>2, <2>2, <2>3, <2>4 DEF LeafPoint, LeafName
<1>3. CASE ~ IsLeaf(pc[1])
  <2>1. PICK i \in 1..NumLevels : pc[1] = Level(i) /\ IsChain(i)
    BY <1>1, <1>3, LeafOrChain
  <2>2. Reached(i)
    <3>1. i \in 1..n + 1
      BY <1>0
    <3> QED BY <1>0, <1>1, <2>1, <3>1, InTreeReached
  <2>3. IfPos(i) \in Nat \ {0} /\ Len(blocks[pc[1]]) = IfPos(i) + 1
    BY <2>1, ShapedNumbers DEF IsChain, IsChainOf
  <2>4. pc[2] \in 1..IfPos(i) - 1 \/ pc[2] = IfPos(i) \/ pc[2] = IfPos(i) + 1
    BY <1>1, <2>3
  <2>5. \/ pc[2] \in 1..IfPos(i) - 1 /\ IsTest(Current, i, pc[2])
        \/ pc[2] = IfPos(i) /\ IsBranch(Current, i) /\ Current = If(i)
        \/ pc[2] = IfPos(i) + 1 /\ Current.name \in Terminators
    BY <1>1, <2>1, <2>4 DEF IsChain, IsChainOf, If
  <2> QED BY <2>1, <2>2, <2>3, <2>5 DEF ChainPoint
<1> QED BY <1>2, <1>3

\* What a run's steps do to where it is.
LEMMA ForwardPlaced ==
  ASSUME Shaped, Placed, UNCHANGED <<kind, lengths, blocks>>, Forward,
         Current.name \notin Terminators \cup {"scf.if"}
  PROVE  Placed'
<1>1. pc[2] + 1 \in 1..Len(blocks[pc[1]])
  <2>1. CASE LeafPoint
    BY <2>1 DEF LeafPoint, Terminators
  <2>2. ASSUME NEW i \in 1..NumLevels, ChainPoint(i) PROVE pc[2] + 1 \in 1..Len(blocks[pc[1]])
    BY <2>2 DEF ChainPoint, IsBranch
  <2> QED BY <2>1, <2>2, Points
<1>2. pc' = Val(pc[1], pc[2] + 1)
  BY DEF Forward
<1>3. pc'[1] = pc[1] /\ pc'[2] = pc[2] + 1 /\ pc' = Val(pc'[1], pc'[2])
  BY <1>2 DEF Val
<1>4. InTree(pc[1])' <=> InTree(pc'[1])
  BY <1>3, SameWrapper
<1> QED BY <1>1, <1>3, SameWrapper DEF Placed

\* An scf.if enters a region that is not cut off.
LEMMA BranchPlaced ==
  ASSUME Shaped, Placed, UNCHANGED <<kind, lengths, blocks>>, Branch
  PROVE  Placed'
<1>0. PICK n \in Nat \ {0} : n = NumLevels
  BY ShapedNumbers
<1>1. Current.name = "scf.if"
  BY DEF Branch
<1>2. PICK i \in 1..NumLevels : ChainPoint(i)
  <2>1. ~ LeafPoint
    BY <1>1 DEF LeafPoint
  <2> QED BY <2>1, Points
<1>3. IsBranch(Current, i) /\ IsChain(i) /\ Reached(i)
  BY <1>1, <1>2 DEF ChainPoint, IsTest, Terminators
<1>4. Reached(i + 1) /\ i \in 1..n
  BY <1>0, <1>3 DEF Reached
<1>5. PICK b : pc' = Val(b, 1) /\ (b = Then(i) \/ b = Level(i + 1))
  <2>1. pc' = Val(IF Read(Current.cond) THEN Current.then ELSE Current.else, 1)
    BY DEF Branch
  <2> QED BY <1>3, <2>1 DEF IsBranch
<1>6. InTree(b) /\ b \in 1..Fallback
  <2>1. i + 1 \in 1..NumLevels + 1
    BY <1>0, <1>4
  <2> QED BY <1>4, <1>5, <2>1, ShapedNumbers DEF InTree
<1>7. 1 \in 1..Len(blocks[b])
  <2>0. Len(blocks[b]) \in Nat
    BY <1>6, ShapedNumbers
  <2>1. CASE IsLeaf(b)
    BY <2>0, <2>1 DEF IsLeaf
  <2>2. ASSUME NEW k \in 1..NumLevels, b = Level(k), IsChain(k) PROVE 1 \in 1..Len(blocks[b])
    <3>1. IfPos(k) \in Nat /\ Len(blocks[b]) = IfPos(k) + 1
      BY <2>2, ShapedNumbers DEF IsChain, IsChainOf
    <3> QED BY <3>1
  <2> QED BY <1>6, <2>1, <2>2, LeafOrChain
<1>8. pc'[1] = b /\ pc'[2] = 1 /\ pc' = Val(pc'[1], pc'[2])
  BY <1>5 DEF Val
<1> QED BY <1>6, <1>7, <1>8, SameWrapper DEF Placed

\* A yield goes behind the scf.if of the level around.
LEMMA YieldPlaced ==
  ASSUME Shaped, Placed, UNCHANGED <<kind, lengths, blocks>>, Yield
  PROVE  Placed' /\ \E i \in 1..NumLevels : pc' = Val(Level(i), IfPos(i) + 1)
<1>0. PICK n \in Nat \ {0} : n = NumLevels
  BY ShapedNumbers
<1>1. PICK b \in DOMAIN blocks : \E p \in DOMAIN blocks[b] :
        IsParent(Val(b, p)) /\ pc' = Val(b, p + 1)
  BY DEF Yield
<1>2. PICK p \in DOMAIN blocks[b] : IsParent(Val(b, p)) /\ pc' = Val(b, p + 1)
  BY <1>1
<1>3. b \in 1..Fallback /\ p \in 1..Len(blocks[b])
  BY ShapedNumbers
<1>4. /\ blocks[b][p].name = "scf.if"
      /\ pc[1] \in {blocks[b][p].then, blocks[b][p].else}
  BY <1>2 DEF IsParent, Val
<1>5. PICK i \in 1..NumLevels : b = Level(i) /\ p = IfPos(i) /\ IsChain(i)
  BY <1>3, <1>4, Nested
<1>6. pc[1] = Then(i) \/ pc[1] = Level(i + 1)
  BY <1>4, <1>5 DEF IsChain, IsChainOf, IsBranch
<1>7. Reached(i) /\ i \in 1..n + 1
  <2>1. i \in 1..n /\ i + 1 \in 1..n + 1 /\ i \in 1..n + 1
    BY <1>0
  <2>2. Reached(i + 1)
    BY <1>0, <1>6, <2>1, InTreeReached DEF Placed
  <2> QED BY <2>1, <2>2 DEF Reached
<1>8. InTree(b) /\ p + 1 \in 1..Len(blocks[b])
  <2>1. IfPos(i) \in Nat \ {0} /\ Len(blocks[b]) = IfPos(i) + 1
    BY <1>5, ShapedNumbers DEF IsChain, IsChainOf
  <2> QED BY <1>0, <1>5, <1>7, <2>1 DEF InTree
<1>9. pc'[1] = b /\ pc'[2] = p + 1 /\ pc' = Val(pc'[1], pc'[2])
  BY <1>2 DEF Val
<1> QED BY <1>2, <1>3, <1>5, <1>8, <1>9, SameWrapper DEF Placed

\* An invocation starts in the first block.
LEMMA InvokePlaced ==
  ASSUME Shaped, UNCHANGED <<kind, lengths, blocks>>, Invoke
  PROVE  Placed'
<1>0. PICK n \in Nat \ {0} : n = NumLevels
  BY ShapedNumbers
<1>1. Level(1) = 1 /\ 1 \in 1..Fallback /\ 1 \in 1..n + 1
  <2>1. Level(1) = 1 /\ Fallback = 2 * n + 1
    BY <1>0, ShapedNumbers
  <2> QED BY <2>1
<1>2. IsChain(1)
  BY <1>0 DEF Shaped
<1>3. 1 \in 1..Len(blocks[1])
  <2>1. IfPos(1) \in Nat \ {0}
    BY <1>0, ShapedNumbers
  <2>2. Len(blocks[1]) = IfPos(1) + 1
    BY <1>1, <1>2 DEF IsChain, IsChainOf
  <2> QED BY <2>1, <2>2
<1>4. InTree(1)
  BY <1>0, <1>1 DEF InTree, Reached
<1>5. pc'[1] = 1 /\ pc'[2] = 1 /\ pc' = Val(pc'[1], pc'[2])
  BY DEF Invoke, Val
<1> QED BY <1>1, <1>3, <1>4, <1>5, SameWrapper DEF Placed

-----------------------------------------------------------------------------
\* A run of an accepted E5 wrapper.
TestNames == {"arith.constant", "tensor.dim", "arith.cmpi", "arith.andi"}

AtATest(i) ==
  /\ pc[1] = Level(i) /\ IsChain(i) /\ AsksAt(i, pc[2]) /\ pc[2] \in 1..IfPos(i) - 1
  /\ IsTest(Current, i, pc[2]) /\ IfPos(i) \in Nat

AtAnIf(i) ==
  /\ pc[1] = Level(i) /\ AsksAt(i, IfPos(i)) /\ Current = If(i) /\ Current.name = "scf.if"

\* Where a run of an accepted E5 wrapper is: at a test, at an scf.if, behind one,
\* or in the leaf it has chosen.
LEMMA ChoosingPoints ==
  ASSUME Shaped, DispatchesByWidth, Placed, Choosing
  PROVE  \/ \E i \in 1..NumLevels : AtATest(i)
         \/ \E i \in 1..NumLevels : AtAnIf(i)
         \/ Answered /\ Current.name \in Terminators
         \/ (Chosen \/ Refused) /\ LeafPoint
<1>0. PICK n \in Nat \ {0} : n = NumLevels
  BY ShapedNumbers
<1>1. \A i, k \in 1..NumLevels : Level(i) = Level(k) => i = k
  BY <1>0 DEF Level
<1>2. ASSUME NEW i \in 1..NumLevels, pc[1] = Level(i), ~ LeafPoint PROVE ChainPoint(i)
  <2>1. PICK k \in 1..NumLevels : ChainPoint(k)
    BY <1>2, Points
  <2>2. k = i
    BY <1>1, <1>2, <2>1 DEF ChainPoint
  <2> QED BY <2>1, <2>2
<1>3. ASSUME NEW i \in 1..NumLevels, IsChain(i), pc[1] = Level(i) PROVE ~ LeafPoint
  <2>1. IfPos(i) \in Nat \ {0}
    BY ShapedNumbers
  <2>2. Len(blocks[pc[1]]) = IfPos(i) + 1 /\ blocks[pc[1]][IfPos(i)].name = "scf.if"
    BY <1>3 DEF IsChain, IsChainOf, IsBranch
  <2>3. IfPos(i) \in 1..Len(blocks[pc[1]])
    BY <2>1, <2>2
  <2> QED BY <2>2, <2>3 DEF LeafPoint, IsLeaf, IsLeafOf, LeafName
<1>4. ASSUME NEW i \in 1..NumLevels, pc[1] = Level(i) PROVE ChainPoint(i)
  BY <1>2, <1>3, <1>4 DEF DispatchesByWidth
<1>5. CASE Asking
  <2>1. PICK i \in 1..NumLevels : pc[1] = Level(i) /\ AsksAt(i, pc[2])
    BY <1>5 DEF Asking
  <2>2. ChainPoint(i)
    BY <1>4, <2>1
  <2>3. pc[2] # IfPos(i) + 1
    BY <2>1, <2>2 DEF AsksAt, ChainPoint
  <2>4. CASE pc[2] \in 1..IfPos(i) - 1 /\ IsTest(Current, i, pc[2])
    BY <2>1, <2>2, <2>4 DEF AtATest, ChainPoint
  <2>5. CASE pc[2] = IfPos(i) /\ IsBranch(Current, i) /\ Current = If(i)
    BY <2>1, <2>5 DEF AtAnIf, IsBranch
  <2> QED BY <2>2, <2>3, <2>4, <2>5 DEF ChainPoint
<1>6. CASE Answered
  <2>1. PICK i \in 1..NumLevels : pc[1] = Level(i) /\ pc[2] = IfPos(i) + 1
    BY <1>6 DEF Answered
  <2>2. ChainPoint(i)
    BY <1>4, <2>1
  <2>3. Current.name \in Terminators
    BY <2>1, <2>2 DEF ChainPoint
  <2> QED BY <1>6, <2>3
<1>7. ASSUME IsLeaf(pc[1]) PROVE LeafPoint
  <2>1. ASSUME NEW i \in 1..NumLevels, ChainPoint(i) PROVE FALSE
    <3>1. IfPos(i) \in Nat \ {0} /\ Len(blocks[pc[1]]) = IfPos(i) + 1
      BY <2>1 DEF ChainPoint
    <3>2. blocks[pc[1]][IfPos(i)].name = "scf.if"
      BY <2>1 DEF ChainPoint, IsChain, IsChainOf, IsBranch
    <3>3. IfPos(i) \in 1..Len(blocks[pc[1]])
      BY <3>1
    <3> QED BY <1>7, <3>2, <3>3 DEF IsLeaf, IsLeafOf, LeafName
  <2> QED BY <2>1, Points
<1>8. CASE Chosen
  <2>1. PICK i \in 1..NumLevels : pc[1] = If(i).then
    BY <1>8 DEF Chosen
  <2>2. IsLeaf(pc[1])
    BY <2>1 DEF DispatchesByWidth, CallsOnly
  <2> QED BY <1>7, <1>8, <2>2
<1>9. CASE Refused
  <2>1. n \in 1..NumLevels
    BY <1>0
  <2>2. IsLeaf(pc[1])
    BY <1>0, <1>9, <2>1 DEF DispatchesByWidth, FallsBack, CallsOnly, Refused
  <2> QED BY <1>7, <1>9, <2>2
<1> QED BY <1>5, <1>6, <1>8, <1>9 DEF Choosing

\* A value above is not an argument.
LEMMA AboveRead ==
  ASSUME NEW i \in Nat, NEW p, NEW v \in Above(i, p) PROVE Read(v) = env[v]
<1>1. PICK j \in 1..i : v[1] = Level(j)
  BY DEF Above
<1>2. v[1] # 0
  BY <1>1 DEF Level
<1> QED BY <1>2 DEF Read

\* A test adds its value to those it may use.
LEMMA TestAdds ==
  ASSUME Shaped, DispatchesByWidth, Placed, UNCHANGED <<kind, lengths, blocks, widths>>, Forward,
         NEW i \in 1..NumLevels, AtATest(i), NEW x, Define(pc, x), Computes(Current, x)
  PROVE  Choosing'
<1>0. PICK n \in Nat \ {0} : n = NumLevels
  BY ShapedNumbers
<1> DEFINE p == pc[2]
<1>1. /\ pc = Val(Level(i), p) /\ p \in 1..IfPos(i) - 1 /\ IfPos(i) \in Nat
      /\ Missed(i) /\ \A v \in Above(i, p) : Means(v)
  BY DEF AtATest, AsksAt, Placed
<1>2. Current = OpAt(pc) /\ IsTest(OpAt(pc), i, p)
  BY DEF Current, OpAt, AtATest
<1>3. /\ DOMAIN env' = DOMAIN env \cup {pc} /\ env'[pc] = x
      /\ \A u \in DOMAIN env : u # pc => env'[u] = env[u]
  BY DEF Define
<1>4. pc \notin Above(i, p)
  <2>1. \A j \in 1..i : Level(i) = Level(j) => j = i
    BY <1>0 DEF Level
  <2>2. pc[1] = Level(i) /\ pc[2] = p
    BY <1>1 DEF Val
  <2> QED BY <1>1, <2>1, <2>2 DEF Above
<1>5. \A v \in Above(i, p) : v \in DOMAIN env /\ env'[v] = env[v]
  BY <1>1, <1>3, <1>4 DEF Means
<1>6. \A j \in 1..i : IsChain(j) /\ IfPos(j) \in Nat
  <2>1. \A j \in 1..i : j \in 1..NumLevels
    BY <1>0
  <2> QED BY <2>1, ShapedNumbers DEF DispatchesByWidth
<1>8. ASSUME NEW op, \/ op.name = "arith.constant"
                     \/ op.name = "tensor.dim" /\ op.axis \in Above(i, p)
                     \/ op.name \in {"arith.cmpi", "arith.andi"} /\ op.lhs \in Above(i, p)
                                                                  /\ op.rhs \in Above(i, p),
             NEW y, Computes(op, y)
      PROVE  Computes(op, y)'
  BY <1>5, <1>8 DEF Computes, Says
<1>9. ASSUME NEW v \in Above(i, p) PROVE Means(v)'
  <2>1. PICK j \in 1..i : IsTest(OpAt(v), j, v[2]) /\ Above(j, v[2]) \subseteq Above(i, p)
    <3>1. i \in 1..n /\ p \in 1..IfPos(i)
      BY <1>0, <1>1
    <3> HIDE DEF p
    <3> QED BY <1>6, <3>1, AboveTests
  <2>2. Computes(OpAt(v), env[v])
    BY <1>1, <1>9 DEF Means
  <2>3. Computes(OpAt(v), env[v])'
    <3>1. PICK op, y : op = OpAt(v) /\ y = env[v]
      OBVIOUS
    <3>2. Computes(op, y)'
      BY <1>8, <2>1, <2>2, <3>1 DEF IsTest
    <3>3. OpAt(v)' = op /\ env'[v] = y
      BY <1>5, <1>9, <3>1, SameWrapper
    <3> QED BY <3>2, <3>3 DEF Computes
  <2> QED BY <1>3, <1>5, <1>9, <2>3 DEF Means
<1>10. PICK w : w = pc
  OBVIOUS
<1>11. Means(w)'
  <2>1. PICK op : op = OpAt(w)
    OBVIOUS
  <2>2. Computes(op, x)'
    BY <1>2, <1>8, <1>10, <2>1 DEF IsTest
  <2>3. OpAt(w)' = op
    BY <2>1, SameWrapper
  <2>4. w \in DOMAIN env' /\ env'[w] = x
    BY <1>3, <1>10
  <2> QED BY <2>2, <2>3, <2>4 DEF Means
<1>12. p + 1 \in 1..IfPos(i) /\ pc'[1] = Level(i) /\ pc'[2] = p + 1
  BY <1>1 DEF Forward, Val
<1>13. ASSUME NEW v \in Above(i, p + 1) PROVE v \in Above(i, p) \/ v = w
  <2>1. PICK j \in 1..i : v[1] = Level(j) /\ v[2] \in 1..(IF j = i THEN p + 1 ELSE IfPos(j)) - 1
    BY DEF Above
  <2>2. v \in Nat \X Nat /\ v = <<v[1], v[2]>>
    BY DEF Above
  <2>3. CASE j = i /\ v[2] = p
    BY <1>1, <1>10, <2>1, <2>2, <2>3 DEF Val
  <2>4. CASE j = i /\ v[2] # p
    <3>1. v[2] \in 1..p - 1
      BY <1>1, <2>1, <2>4
    <3>2. v[2] \in 1..(IF j = i THEN p ELSE IfPos(j)) - 1
      BY <2>4, <3>1
    <3> QED BY <2>1, <2>2, <3>2 DEF Above
  <2>5. CASE j # i
    <3>1. v[2] \in 1..(IF j = i THEN p ELSE IfPos(j)) - 1
      BY <2>1, <2>5
    <3> QED BY <2>1, <2>2, <3>1 DEF Above
  <2> QED BY <2>3, <2>4, <2>5
<1>14. \A v \in Above(i, p + 1) : Means(v)'
  BY <1>9, <1>11, <1>13
<1>15. Missed(i)'
  BY <1>1, SameMeaning
<1> HIDE DEF p
<1>16. PICK q : q = p + 1
  OBVIOUS
<1>17. AsksAt(i, q)'
  BY <1>12, <1>14, <1>15, <1>16, SameWrapper DEF AsksAt
<1>18. AsksAt(i, pc[2])'
  BY <1>12, <1>16, <1>17 DEF AsksAt
<1> QED BY <1>12, <1>18, SameWrapper DEF Choosing, Asking

-----------------------------------------------------------------------------
\* A test keeps the run on its way down, with one more value known.
LEMMA TestChooses ==
  ASSUME Shaped, DispatchesByWidth, Placed, Choosing, Constant \/ Dim \/ Compare \/ And
  PROVE  Choosing'
<1>1. Current.name \in TestNames
  BY DEF Constant, Dim, Compare, And, TestNames
<1>2. PICK i \in 1..NumLevels : AtATest(i)
  BY <1>1, ChoosingPoints DEF TestNames, Terminators, AtAnIf, LeafPoint
<1>3. /\ UNCHANGED <<kind, lengths, blocks, widths>> /\ Forward
  BY DEF Constant, Dim, Compare, And, emitted
<1>4. IsTest(Current, i, pc[2]) /\ i \in Nat
  <2>1. NumLevels \in Nat
    BY ShapedNumbers
  <2> QED BY <1>2, <2>1 DEF AtATest
<1>5. \A v \in Above(i, pc[2]) : Read(v) = env[v]
  BY <1>4, AboveRead
<1>6. CASE Constant
  <2>1. Define(pc, Current.value) /\ Current.name = "arith.constant"
    BY <1>6 DEF Constant
  <2>2. Computes(Current, Current.value)
    BY <2>1 DEF Computes
  <2> QED BY <1>2, <1>3, <2>1, <2>2, TestAdds
<1>7. CASE Dim
  <2> DEFINE x == IF Read(Current.axis) = kSequenceAxis THEN widths[Read(Current.src).from] ELSE kBatch
  <2>1. Define(pc, x) /\ Current.name = "tensor.dim"
    BY <1>7 DEF Dim
  <2>2. PICK a \in 1..NumArgs : Current.axis \in Above(i, pc[2]) /\ Current.src = Arg(a)
    BY <1>4, <2>1 DEF IsTest
  <2>3. Read(Current.src).from = a /\ Current.src[2] = a
    BY <2>2 DEF Read, Arg
  <2>4. Read(Current.axis) = env[Current.axis]
    BY <1>5, <2>2
  <2>5. Computes(Current, x)
    BY <2>1, <2>3, <2>4 DEF Computes
  <2> HIDE DEF x
  <2> QED BY <1>2, <1>3, <2>1, <2>5, TestAdds
<1>8. CASE Compare
  <2> DEFINE x == (Read(Current.lhs) = Read(Current.rhs))
  <2>1. Define(pc, x) /\ Current.name = "arith.cmpi"
    BY <1>8 DEF Compare
  <2>2. Current.lhs \in Above(i, pc[2]) /\ Current.rhs \in Above(i, pc[2])
    BY <1>4, <2>1 DEF IsTest
  <2>3. Read(Current.lhs) = env[Current.lhs] /\ Read(Current.rhs) = env[Current.rhs]
    BY <1>5, <2>2
  <2>4. Says(x, env[Current.lhs] = env[Current.rhs])
    BY <2>3 DEF Says
  <2> HIDE DEF x
  <2>5. Computes(Current, x)
    BY <2>1, <2>4 DEF Computes
  <2> QED BY <1>2, <1>3, <2>1, <2>5, TestAdds
<1>9. CASE And
  <2> DEFINE x == (Read(Current.lhs) /\ Read(Current.rhs))
  <2>1. Define(pc, x) /\ Current.name = "arith.andi"
    BY <1>9 DEF And
  <2>2. Current.lhs \in Above(i, pc[2]) /\ Current.rhs \in Above(i, pc[2])
    BY <1>4, <2>1 DEF IsTest
  <2>3. Read(Current.lhs) = env[Current.lhs] /\ Read(Current.rhs) = env[Current.rhs]
    BY <1>5, <2>2
  <2>4. Says(x, env[Current.lhs] /\ env[Current.rhs])
    BY <2>3 DEF Says
  <2> HIDE DEF x
  <2>5. Computes(Current, x)
    BY <2>1, <2>4 DEF Computes
  <2> QED BY <1>2, <1>3, <2>1, <2>5, TestAdds
<1> QED BY <1>6, <1>7, <1>8, <1>9

\* The condition of a level.
LEMMA ConditionIs ==
  ASSUME kind \in EntryKinds, kind = "E5", NEW i \in Nat, AsksFor(i), \A v \in Above(i, IfPos(i)) : Means(v)
  PROVE  Read(If(i).cond) <=> Matches(i)
<1> DEFINE A == Above(i, IfPos(i))
<1>1. PICK axis \in A, constant \in A, firstAnd \in A :
        \E d, c \in [1..3 -> A] :
          /\ OpAt(axis) = ConstantOp(kSequenceAxis) /\ OpAt(constant) = ConstantOp(lengths[i])
          /\ \A a \in 1..3 : /\ OpAt(d[a]).name = "tensor.dim" /\ OpAt(d[a]).src = Arg(a)
                             /\ OpAt(d[a]).axis = axis
                             /\ OpAt(c[a]) = CmpOp(d[a], constant)
          /\ OpAt(firstAnd) = AndOp(c[1], c[2])
          /\ If(i).cond \in A /\ OpAt(If(i).cond) = AndOp(firstAnd, c[3])
  BY Zenon DEF AsksFor, Asks
<1>2. PICK d \in [1..3 -> A], c \in [1..3 -> A] :
          /\ OpAt(axis) = ConstantOp(kSequenceAxis) /\ OpAt(constant) = ConstantOp(lengths[i])
          /\ \A a \in 1..3 : /\ OpAt(d[a]).name = "tensor.dim" /\ OpAt(d[a]).src = Arg(a)
                             /\ OpAt(d[a]).axis = axis
                             /\ OpAt(c[a]) = CmpOp(d[a], constant)
          /\ OpAt(firstAnd) = AndOp(c[1], c[2])
          /\ If(i).cond \in A /\ OpAt(If(i).cond) = AndOp(firstAnd, c[3])
  BY <1>1, Zenon
<1>3. \A v \in A : Computes(OpAt(v), env[v])
  BY DEF Means
<1>4. Read(If(i).cond) = env[If(i).cond]
  BY <1>2, AboveRead
<1> HIDE DEF A
<1>5. env[axis] = kSequenceAxis /\ env[constant] = lengths[i]
  BY <1>2, <1>3 DEF Computes, ConstantOp
<1>6. ASSUME NEW a \in 1..3 PROVE c[a] \in A /\ Says(env[c[a]], widths[a] = lengths[i])
  <2>1. c[a] \in A /\ d[a] \in A
    BY <1>2
  <2>2. Computes(OpAt(d[a]), env[d[a]]) /\ Computes(OpAt(c[a]), env[c[a]])
    BY <1>3, <2>1
  <2>3. Arg(a)[2] = a
    BY DEF Arg
  <2>4. env[d[a]] = widths[a]
    BY <1>2, <1>5, <2>2, <2>3 DEF Computes
  <2>5. OpAt(c[a]).name = "arith.cmpi" /\ OpAt(c[a]).lhs = d[a] /\ OpAt(c[a]).rhs = constant
    BY <1>2 DEF CmpOp
  <2> QED BY <1>5, <2>1, <2>2, <2>4, <2>5 DEF Computes
<1>7. Says(env[firstAnd], env[c[1]] /\ env[c[2]])
  <2>1. Computes(OpAt(firstAnd), env[firstAnd])
    BY <1>3
  <2>2. OpAt(firstAnd).name = "arith.andi" /\ OpAt(firstAnd).lhs = c[1] /\ OpAt(firstAnd).rhs = c[2]
    BY <1>2 DEF AndOp
  <2> QED BY <2>1, <2>2 DEF Computes
<1>8. Says(env[If(i).cond], env[firstAnd] /\ env[c[3]])
  <2>1. PICK v \in A : v = If(i).cond
    BY <1>2
  <2>2. Computes(OpAt(v), env[v])
    BY <1>3
  <2>3. OpAt(v).name = "arith.andi" /\ OpAt(v).lhs = firstAnd /\ OpAt(v).rhs = c[3]
    BY <1>2, <2>1 DEF AndOp
  <2> QED BY <2>1, <2>2, <2>3 DEF Computes
<1>9. NumArgs = 3
  BY ArgsCount
<1>10. 1 \in 1..3 /\ 2 \in 1..3 /\ 3 \in 1..3 /\ \A a \in 1..3 : a = 1 \/ a = 2 \/ a = 3
  OBVIOUS
<1>11. /\ Says(env[c[1]], widths[1] = lengths[i]) /\ Says(env[c[2]], widths[2] = lengths[i])
       /\ Says(env[c[3]], widths[3] = lengths[i])
  BY <1>6, <1>10
<1>12. Matches(i) <=> widths[1] = lengths[i] /\ widths[2] = lengths[i] /\ widths[3] = lengths[i]
  BY <1>9, <1>10 DEF Matches
<1>13. env[If(i).cond] <=> Matches(i)
  BY <1>7, <1>8, <1>11, <1>12, Zenon DEF Says
<1> QED BY <1>4, <1>13

-----------------------------------------------------------------------------
\* An scf.if takes the region of the clone if the widths are the level's length,
\* and goes on to the next level otherwise.
LEMMA BranchChooses ==
  ASSUME Shaped, kind = "E5", DispatchesByWidth, Placed, Choosing, Branch
  PROVE  Choosing'
<1>0. PICK n \in Nat \ {0} : n = NumLevels
  BY ShapedNumbers
<1>1. Current.name = "scf.if" /\ UNCHANGED <<kind, lengths, blocks, widths, env>>
  BY DEF Branch, emitted
<1>2. PICK i \in 1..NumLevels : AtAnIf(i)
  BY <1>1, ChoosingPoints DEF Terminators, AtATest, IsTest, LeafPoint
<1>3. /\ pc[1] = Level(i) /\ Missed(i) /\ \A v \in Above(i, IfPos(i)) : Means(v)
      /\ Current = If(i)
  BY <1>2 DEF AtAnIf, AsksAt
<1>4. i \in 1..n /\ i \in Nat
  BY <1>0
<1>5. Read(If(i).cond) <=> Matches(i)
  BY <1>3, <1>4, ConditionIs DEF DispatchesByWidth, Shaped
<1>6. pc' = Val(IF Read(If(i).cond) THEN If(i).then ELSE If(i).else, 1)
  BY <1>3 DEF Branch
<1>7. CASE Matches(i)
  <2>1. pc'[1] = If(i).then
    BY <1>5, <1>6, <1>7 DEF Val
  <2>2. Matches(i)'
    BY <1>1, <1>7, SameMeaning
  <2>3. If(i)' = If(i) /\ NumLevels' = NumLevels
    BY <1>1, SameWrapper
  <2> QED BY <2>1, <2>2, <2>3 DEF Choosing, Chosen
<1>8. CASE ~ Matches(i)
  <2>1. pc'[1] = If(i).else /\ pc'[2] = 1
    BY <1>5, <1>6, <1>8 DEF Val
  <2>2. Missed(i + 1)
    <3>1. \A l \in 1..(i + 1) - 1 : l \in 1..i - 1 \/ l = i
      BY <1>4
    <3> QED BY <1>3, <1>8, <3>1 DEF Missed
  <2>3. Missed(i + 1)'
    BY <1>1, <2>2, SameMeaning
  <2>4. CASE i = n
    <3>1. If(NumLevels)' = If(n) /\ NumLevels' = n
      <4>1. If(n)' = If(n) /\ NumLevels' = NumLevels
        BY <1>1, SameWrapper
      <4> QED BY <1>0, <4>1 DEF If
    <3> QED BY <2>1, <2>3, <2>4, <3>1 DEF Choosing, Refused
  <2>5. CASE i # n
    <3>1. i + 1 \in 1..NumLevels /\ i < NumLevels
      BY <1>0, <1>4, <2>5
    <3>2. pc'[1] = Level(i + 1)
      BY <2>1, <3>1 DEF DispatchesByWidth
    <3>3. ASSUME NEW v \in Above(i + 1, 1) PROVE v \in Above(i, IfPos(i))
      <4>1. PICK j \in 1..i + 1 : v[1] = Level(j) /\ v[2] \in 1..(IF j = i + 1 THEN 1 ELSE IfPos(j)) - 1
        BY <3>3 DEF Above
      <4>2. j # i + 1
        BY <4>1
      <4>3. j \in 1..i
        BY <1>4, <4>2
      <4>4. v \in Nat \X Nat
        BY <3>3 DEF Above
      <4>5. v[2] \in 1..(IF j = i THEN IfPos(i) ELSE IfPos(j)) - 1
        BY <4>1, <4>2
      <4> QED BY <4>1, <4>3, <4>4, <4>5 DEF Above
    <3>4. 1 \in 1..IfPos(i + 1)
      <4>1. IfPos(i + 1) \in Nat \ {0}
        BY <3>1, ShapedNumbers
      <4> QED BY <4>1
    <3>5. ASSUME NEW v \in Above(i + 1, 1) PROVE Means(v)'
      <4>1. Means(v)
        BY <1>3, <3>3
      <4>2. OpAt(v)' = OpAt(v)
        BY <1>1, SameWrapper
      <4> QED BY <1>1, <4>1, <4>2 DEF Means, Computes
    <3>6. PICK k, q : k = i + 1 /\ q = 1
      OBVIOUS
    <3>7. AsksAt(k, q)'
      <4>1. Above(k, q)' = Above(k, q) /\ IfPos(k)' = IfPos(k)
        BY <1>1, SameWrapper
      <4>2. Missed(k)'
        BY <2>3, <3>6
      <4> QED BY <3>4, <3>5, <3>6, <4>1, <4>2 DEF AsksAt
    <3>8. AsksAt(k, pc[2])'
      BY <2>1, <3>6, <3>7 DEF AsksAt
    <3>9. k \in 1..NumLevels' /\ pc'[1] = Level(k)
      <4>1. NumLevels' = NumLevels
        BY <1>1, SameWrapper
      <4> QED BY <3>1, <3>2, <3>6, <4>1
    <3> QED BY <3>8, <3>9 DEF Choosing, Asking
  <2> QED BY <2>4, <2>5
<1> QED BY <1>7, <1>8

\* In a leaf the run has chosen, or has refused every length.
LEMMA LeafChooses ==
  ASSUME Shaped, DispatchesByWidth, Placed, Choosing, Cast \/ Call
  PROVE  Choosing' /\ (Chosen \/ Refused) /\ LeafPoint
<1>1. Current.name \in {"tensor.cast", "func.call"}
  BY DEF Cast, Call
<1>2. UNCHANGED <<kind, lengths, blocks, widths>> /\ Forward
  BY DEF Cast, Call, emitted
<1>3. (Chosen \/ Refused) /\ LeafPoint
  BY <1>1, ChoosingPoints DEF Terminators, AtATest, AtAnIf, IsTest
<1>4. pc'[1] = pc[1]
  BY <1>2 DEF Forward, Val
<1>5. Chosen => Chosen'
  BY <1>2, <1>4, SameWrapper, SameMeaning DEF Chosen
<1>6. Refused => Refused'
  <2>1. PICK n : n = NumLevels
    OBVIOUS
  <2>2. If(n)' = If(n) /\ NumLevels' = n
    BY <1>2, <2>1, SameWrapper
  <2>5. Missed(n + 1)' <=> Missed(n + 1)
    BY <1>2, SameMeaning
  <2>3. If(NumLevels)' = If(n)'
    BY <2>2 DEF If
  <2>4. Missed(NumLevels + 1)' <=> Missed(n + 1)'
    BY <2>2 DEF Missed
  <2> QED BY <1>4, <2>1, <2>2, <2>3, <2>4, <2>5 DEF Refused
<1> QED BY <1>3, <1>5, <1>6 DEF Choosing

\* A yield puts the run on its way up.
LEMMA YieldChooses ==
  ASSUME Shaped, Placed, Yield
  PROVE  Choosing'
<1>1. UNCHANGED <<kind, lengths, blocks>>
  BY DEF Yield, emitted
<1>2. PICK i \in 1..NumLevels : pc' = Val(Level(i), IfPos(i) + 1)
  BY <1>1, YieldPlaced
<1>3. pc'[1] = Level(i) /\ pc'[2] = IfPos(i) + 1
  BY <1>2 DEF Val
<1> QED BY <1>1, <1>3, SameWrapper DEF Choosing, Answered

\* An invocation has read no value and has missed no level.
LEMMA InvokeChooses ==
  ASSUME Shaped, Invoke
  PROVE  Choosing'
<1>0. PICK n \in Nat \ {0} : n = NumLevels
  BY ShapedNumbers
<1>1. UNCHANGED <<kind, lengths, blocks>> /\ pc'[1] = 1 /\ pc'[2] = 1
  BY DEF Invoke, emitted, Val
<1>2. Level(1) = 1 /\ 1 \in 1..NumLevels
  BY <1>0 DEF Level
<1>3. 1 \in 1..IfPos(1)
  <2>1. IfPos(1) \in Nat \ {0}
    BY <1>2, ShapedNumbers
  <2> QED BY <2>1
<1>4. Above(1, 1) = {}
  <2>1. ASSUME NEW v \in Above(1, 1) PROVE FALSE
    <3>1. PICK j \in 1..1 : v[2] \in 1..(IF j = 1 THEN 1 ELSE IfPos(j)) - 1
      BY <2>1 DEF Above
    <3> QED BY <3>1
  <2> QED BY <2>1
<1>5. PICK k : k = 1
  OBVIOUS
<1>6. AsksAt(k, k)'
  <2>1. Above(k, k)' = {} /\ IfPos(k)' = IfPos(k)
    BY <1>1, <1>4, <1>5, SameWrapper
  <2>2. Missed(k)'
    BY <1>5 DEF Missed
  <2> QED BY <1>3, <1>5, <2>1, <2>2 DEF AsksAt
<1>7. AsksAt(k, pc[2])'
  BY <1>1, <1>5, <1>6 DEF AsksAt
<1>8. k \in 1..NumLevels' /\ pc'[1] = Level(k)
  <2>1. NumLevels' = NumLevels
    BY <1>1, SameWrapper
  <2> QED BY <1>1, <1>2, <1>5, <2>1
<1> QED BY <1>7, <1>8 DEF Choosing, Asking

-----------------------------------------------------------------------------
Judged == AcceptedRoutes /\ AcceptedFallback /\ AccountedForwards

\* What is read of an argument.
LEMMA ReadArg == \A a : Read(Arg(a)) = [from |-> a, width |-> Dyn]
  BY DEF Read, Arg

\* An operand that is an argument is read as the caller gave it.
LEMMA ReadOperands ==
  ASSUME Call, NEW S, \A i \in S : i \in DOMAIN Current.operands /\ Current.operands[i] = Arg(i)
  PROVE  \A i \in S : operands'[i] = [from |-> i, width |-> Dyn]
<1> TAKE i \in S
<1>1. operands' = [j \in DOMAIN Current.operands |-> Read(Current.operands[j])]
  BY DEF Call
<1>2. i \in DOMAIN Current.operands /\ Current.operands[i] = Arg(i)
  OBVIOUS
<1>3. operands'[i] = Read(Arg(i))
  BY <1>1, <1>2
<1> QED BY <1>3, ReadArg

\* The call of an accepted E5 wrapper reaches the clone of the widths, or the
\* generic function with the original inputs.
LEMMA CallOfE5 ==
  ASSUME Shaped, kind = "E5", DispatchesByWidth, Placed, Choosing, Call
  PROVE  Judged'
<1>0. PICK n \in Nat \ {0} : n = NumLevels
  BY ShapedNumbers
<1>1. UNCHANGED <<kind, lengths, blocks, widths>> /\ callee' = Current.callee
      /\ Current.name = "func.call" /\ Current = blocks[pc[1]][pc[2]]
  BY DEF Call, emitted, Current
<1>2. (Chosen \/ Refused) /\ LeafPoint
  BY LeafChooses
<1>3. PICK c \in 1..Len(blocks[pc[1]]) - 1 : IsLeafOf(blocks[pc[1]], c) /\ pc[2] = c
  BY <1>1, <1>2 DEF LeafPoint, IsLeaf
<1>4. /\ \A i \in 1..NumLevels : Matches(i) => R!CalleeFor(widths) = Static(lengths[i])
      /\ Missed(NumLevels + 1) => R!CalleeFor(widths) = Generic
  BY Routed DEF Shaped
<1>5. /\ R!CalleeFor(widths)' = R!CalleeFor(widths) /\ NumInputs' = NumInputs
      /\ Generic' = Generic /\ NoCallee' = NoCallee
  BY <1>1, SameMeaning DEF Generic, R!Generic, NoCallee, R!NoCallee
<1>6. CASE Chosen
  <2>1. PICK i \in 1..NumLevels : pc[1] = If(i).then /\ Matches(i)
    BY <1>6 DEF Chosen
  <2>2. Current.callee = Static(lengths[i])
    BY <1>1, <1>3, <2>1 DEF DispatchesByWidth, CallsOnly
  <2>3. callee' = R!CalleeFor(widths) /\ callee' # Generic
    BY <1>1, <1>4, <2>1, <2>2, Callees
  <2> QED BY <1>1, <1>5, <2>3 DEF Judged, AcceptedRoutes, AcceptedFallback, AccountedForwards
<1>7. CASE Refused
  <2>1. n \in 1..NumLevels /\ pc[1] = If(n).else /\ Missed(NumLevels + 1)
    BY <1>0, <1>7 DEF Refused
  <2>2. Current.callee = Generic /\ Current.operands = [a \in 1..NumArgs |-> Arg(a)]
    <3>1. FallsBack(pc[1])
      BY <1>0, <2>1 DEF DispatchesByWidth
    <3> QED BY <1>1, <1>3, <3>1 DEF FallsBack, CallsOnly
  <2>3. callee' = R!CalleeFor(widths)
    BY <1>1, <1>4, <2>1, <2>2
  <2>4. NumInputs = NumArgs
    BY ArgsCount DEF Shaped, NumInputs
  <2>5. \A i \in 1..NumInputs : operands'[i] = [from |-> i, width |-> Dyn]
    <3>1. \A i \in 1..NumInputs : i \in DOMAIN Current.operands /\ Current.operands[i] = Arg(i)
      BY <2>2, <2>4
    <3> QED BY <3>1, ReadOperands
  <2> QED BY <1>1, <1>5, <2>3, <2>5 DEF Judged, AcceptedRoutes, AcceptedFallback, AccountedForwards
<1> QED BY <1>2, <1>6, <1>7

\* The call of another wrapper that is accepted forwards the parameters.
LEMMA CallOfOthers ==
  ASSUME Shaped, kind # "E5", AllForward, Placed, Call
  PROVE  Judged'
<1>1. UNCHANGED <<kind, lengths, blocks, widths>> /\ callee' = Current.callee
      /\ Current.name = "func.call" /\ Current = blocks[pc[1]][pc[2]]
  BY DEF Call, emitted, Current
<1>2. LeafPoint
  BY <1>1, Points DEF ChainPoint, IsTest, IsBranch, Terminators
<1>3. PICK c \in 1..Len(blocks[pc[1]]) - 1 : IsLeafOf(blocks[pc[1]], c) /\ pc[2] = c
  BY <1>1, <1>2 DEF LeafPoint, IsLeaf
<1>4. Forwarding(Current)
  BY <1>1, <1>3 DEF AllForward, Placed
<1>5. /\ NumInputs' = NumInputs /\ NumArgs' = NumArgs /\ Generic' = Generic
  BY <1>1, SameMeaning DEF Generic, R!Generic
<1>6. \A i \in NumArgs + 1..NumInputs : operands'[i] = [from |-> i, width |-> Dyn]
  <2>1. \A i \in NumArgs + 1..NumInputs : i \in DOMAIN Current.operands /\ Current.operands[i] = Arg(i)
    BY <1>4 DEF Forwarding
  <2> QED BY <2>1, ReadOperands
<1>7. callee' = Generic => \A i \in 1..NumInputs : operands'[i] = [from |-> i, width |-> Dyn]
  <2>1. SUFFICES ASSUME callee' = Generic
                 PROVE  \A i \in 1..NumInputs : operands'[i] = [from |-> i, width |-> Dyn]
    OBVIOUS
  <2>2. \A i \in 1..NumInputs : i \in DOMAIN Current.operands /\ Current.operands[i] = Arg(i)
    BY <1>1, <1>4, <2>1 DEF Forwarding
  <2> QED BY <2>2, ReadOperands
<1> QED BY <1>1, <1>5, <1>6, <1>7 DEF Judged, AcceptedRoutes, AcceptedFallback, AccountedForwards

\* What is said of the call is so after a step that keeps it.
LEMMA JudgedSame ==
  ASSUME Judged, UNCHANGED <<kind, lengths, blocks, widths, callee, operands>> PROVE Judged'
<1>1. /\ R!CalleeFor(widths)' = R!CalleeFor(widths) /\ NumInputs' = NumInputs /\ NumArgs' = NumArgs
      /\ Generic' = Generic /\ NoCallee' = NoCallee
  BY SameMeaning DEF Generic, R!Generic, NoCallee, R!NoCallee
<1> QED BY <1>1 DEF Judged, AcceptedRoutes, AcceptedFallback, AccountedForwards

\* Nothing is said before the call.
LEMMA JudgedNone == ASSUME callee' = NoCallee PROVE Judged'
<1>1. Generic' = Generic /\ NoCallee' = NoCallee /\ Generic # NoCallee
  BY Callees DEF Generic, R!Generic, NoCallee, R!NoCallee
<1> QED BY <1>1 DEF Judged, AcceptedRoutes, AcceptedFallback, AccountedForwards

-----------------------------------------------------------------------------
\* The invariant holds initially.
LEMMA CheckerInitInv == CheckerInit => CheckerInv
<1> SUFFICES ASSUME CheckerInit PROVE CheckerInv
  OBVIOUS
<1>1. EmitInv
  BY InitIInv DEF CheckerInit, IInv
<1>2. callee = NoCallee /\ Generic # NoCallee
  BY Callees DEF CheckerInit, Init
<1> QED BY <1>1, <1>2 DEF CheckerInit, Init, CheckerInv, AcceptedRoutes, AcceptedFallback, AccountedForwards

\* The shape of the emitted wrapper, after a step.
LEMMA EmittedShapedNext == (EmitInv /\ phase \in {"ready", "run"} => Shaped)'
<1>1. EmitInv /\ phase \in {"ready", "run"} => Shaped
  BY EmittedShaped
<1> QED BY <1>1, PTL

\* The emission ends with a wrapper in shape.
LEMMA EmitChecker ==
  CheckerInv /\ Emit /\ UNCHANGED <<edits, verdict>> => CheckerInv'
<1> SUFFICES ASSUME CheckerInv, Emit, UNCHANGED <<edits, verdict>> PROVE CheckerInv'
  OBVIOUS
<1>1. phase \notin {"ready", "run"} /\ UNCHANGED runState
  BY DEF Emit, EmitClone, emitDispatchWrapper, emitDispatchChain, EmitGenericCall, ReturnFromChain
<1>2. EmitInv'
  BY <1>1, NextEmitInv DEF CheckerInv, Next
<1>3. phase' \in {"ready", "run"} => Shaped'
  BY <1>2, EmittedShapedNext
<1>4. phase' # "run"
  BY DEF Emit, EmitClone, emitDispatchWrapper, emitDispatchChain, EmitGenericCall, ReturnFromChain
<1>5. callee' = NoCallee /\ verdict' = "none" /\ NoCallee' = NoCallee
  BY <1>1 DEF CheckerInv, runState, NoCallee, R!NoCallee
<1>6. Judged'
  BY <1>5, JudgedNone
<1>7. phase' \in {"clones", "chain", "unwind", "ready", "run"}
  BY <1>2 DEF EmitInv
<1> QED BY <1>2, <1>3, <1>4, <1>5, <1>6, <1>7 DEF CheckerInv, Judged

\* An edit keeps the shape.
LEMMA EditChecker == CheckerInv /\ (EditOp \/ EditBranch) => CheckerInv'
<1> SUFFICES ASSUME CheckerInv, EditOp \/ EditBranch PROVE CheckerInv'
  OBVIOUS
<1>1. MayEdit
  BY DEF EditOp, EditBranch
<1>2. phase = "ready" /\ verdict = "none" /\ Shaped /\ callee = NoCallee
  BY <1>1 DEF MayEdit, CheckerInv
<1>3. SE!ToSet(Text[1]) = Elements(Text[1])
  <2>1. NumLevels \in Nat \ {0} /\ Fallback = 2 * NumLevels + 1
    BY <1>2, ShapedNumbers
  <2>2. 1 \in 1..Fallback
    BY <2>1
  <2> QED BY <1>2, <2>2, TextSeqs, ToSetIs
<1>4. /\ UNCHANGED <<phase, kind, lengths, verdict, callee>>
      /\ Shaped'
  <2>1. CASE EditOp
    <3>1. PICK v \in SE!ToSet(Text[1]) : \E op \in Variants(Text, v) :
            Edit([blocks EXCEPT ![v[1]][v[2]] = op])
      BY <2>1, Zenon DEF EditOp
    <3>2. PICK op \in Variants(Text, v) : Edit([blocks EXCEPT ![v[1]][v[2]] = op])
      BY <3>1
    <3>3. UNCHANGED <<phase, kind, lengths, verdict, callee>>
          /\ blocks' = [blocks EXCEPT ![v[1]][v[2]] = op]
      BY <3>2 DEF Edit, runState
    <3> QED BY <1>2, <1>3, <3>3, EditOpShaped
  <2>2. CASE EditBranch
    <3>1. PICK v \in SE!ToSet(Text[1]), i \in DOMAIN lengths :
             /\ OpAt(v).name = "scf.if"
             /\ LET b     == OpAt(v).then
                    taken == emitStaticCall(b, lengths[i])
                IN Edit([blocks EXCEPT ![b] = taken \o <<YieldOp(Val(b, Len(taken)))>>])
      BY <2>2, Zenon DEF EditBranch
    <3>2. UNCHANGED <<phase, kind, lengths, verdict, callee>>
          /\ LET b     == OpAt(v).then
                 taken == emitStaticCall(b, lengths[i])
             IN blocks' = [blocks EXCEPT ![b] = taken \o <<YieldOp(Val(b, Len(taken)))>>]
      BY <3>1 DEF Edit, runState
    <3> QED BY <1>2, <1>3, <3>1, <3>2, EditBranchShaped
  <2> QED BY <2>1, <2>2
<1>5. callee' = NoCallee /\ NoCallee' = NoCallee
  BY <1>2, <1>4 DEF NoCallee, R!NoCallee
<1>6. Judged'
  BY <1>5, JudgedNone
<1> QED BY <1>2, <1>4, <1>5, <1>6 DEF CheckerInv, Judged

\* A verdict says of the wrapper what the checker has found.
LEMMA VerdictChecker ==
  CheckerInv /\ (check_dispatch_wrapper \/ check_parameter_forwarding) => CheckerInv'
<1> SUFFICES ASSUME CheckerInv, check_dispatch_wrapper \/ check_parameter_forwarding PROVE CheckerInv'
  OBVIOUS
<1>1. phase = "ready" /\ UNCHANGED vars
  BY DEF check_dispatch_wrapper, check_parameter_forwarding
<1>2. UNCHANGED <<phase, kind, lengths, blocks, widths, callee, operands>>
  BY <1>1 DEF vars, emitted, runState
<1>3. Shaped /\ callee = NoCallee
  BY <1>1 DEF CheckerInv
<1>4. verdict' = "accepted" => Accepted
  <2>1. CASE check_dispatch_wrapper
    <3>1. kind = "E5" /\ verdict' = IF WrapperOk(Text) THEN "accepted" ELSE "rejected"
      BY <2>1 DEF check_dispatch_wrapper
    <3>2. verdict' = "accepted" => WrapperOk(Text)
      BY <3>1
    <3> QED BY <1>3, <3>1, <3>2, AcceptedDispatches DEF Accepted
  <2>2. CASE check_parameter_forwarding
    <3>1. kind # "E5" /\ verdict' = IF Forwards(Text) THEN "accepted" ELSE "rejected"
      BY <2>2 DEF check_parameter_forwarding
    <3>2. verdict' = "accepted" => Forwards(Text)
      BY <3>1
    <3> QED BY <1>3, <3>1, <3>2, AcceptedForwards DEF Accepted
  <2> QED BY <2>1, <2>2
<1>5. Shaped' /\ (Accepted' <=> Accepted)
  BY <1>2, <1>3, SameWrapper
<1>6. NoCallee' = NoCallee /\ Judged'
  BY <1>2, <1>3, JudgedNone DEF NoCallee, R!NoCallee
<1> QED BY <1>1, <1>2, <1>3, <1>4, <1>5, <1>6 DEF CheckerInv, Judged

\* A run stays where it may be, and reaches what it should.
LEMMA InvokeChecker ==
  CheckerInv /\ verdict = "accepted" /\ Invoke /\ UNCHANGED <<edits, verdict>> => CheckerInv'
<1> SUFFICES ASSUME CheckerInv, verdict = "accepted", Invoke, UNCHANGED <<edits, verdict>>
             PROVE  CheckerInv'
  OBVIOUS
<1>1. /\ phase = "ready" /\ phase' = "run" /\ UNCHANGED <<kind, lengths, blocks, callee, verdict>>
  BY DEF Invoke, emitted
<1>2. Shaped /\ Accepted /\ callee = NoCallee
  BY <1>1 DEF CheckerInv
<1>3. Shaped' /\ Accepted'
  BY <1>1, <1>2, SameWrapper
<1>4. Placed' /\ Choosing'
  BY <1>1, <1>2, InvokePlaced, InvokeChooses
<1>5. Judged'
  BY <1>1, <1>2, JudgedNone
<1> QED BY <1>1, <1>3, <1>4, <1>5 DEF CheckerInv, Judged

\* Every operation of the run keeps the invariant.
LEMMA ExecuteChecker ==
  CheckerInv /\ Execute /\ UNCHANGED <<edits, verdict>> => CheckerInv'
<1> SUFFICES ASSUME CheckerInv, Execute, UNCHANGED <<edits, verdict>> PROVE CheckerInv'
  OBVIOUS
<1>1. phase = "run" /\ UNCHANGED <<kind, lengths, blocks, verdict>>
  BY DEF Execute, Constant, Dim, Compare, And, Branch, Cast, Call, Yield, Return, emitted
<1>2. Shaped /\ verdict = "accepted" /\ Accepted /\ Placed /\ (kind = "E5" => Choosing) /\ Judged
  BY <1>1 DEF CheckerInv, Judged
<1>3. Shaped' /\ Accepted'
  BY <1>1, <1>2, SameWrapper
<1>4. CASE Return
  <2>1. phase' = "ready" /\ callee' = NoCallee /\ NoCallee' = NoCallee
    BY <1>4 DEF Return, NoCallee, R!NoCallee
  <2>2. Judged'
    BY <2>1, JudgedNone
  <2> QED BY <1>1, <1>2, <1>3, <2>1, <2>2 DEF CheckerInv, Judged
<1>5. CASE ~ Return
  <2>1. phase' = "run" /\ UNCHANGED widths
    BY <1>1, <1>5 DEF Execute, Constant, Dim, Compare, And, Branch, Cast, Call, Yield
  <2>2. Placed'
    <3>1. CASE Branch
      BY <1>1, <1>2, <3>1, BranchPlaced
    <3>2. CASE Yield
      BY <1>1, <1>2, <3>2, YieldPlaced
    <3>3. CASE Constant \/ Dim \/ Compare \/ And \/ Cast \/ Call
      <4>1. Forward /\ Current.name \notin Terminators \cup {"scf.if"}
        BY <3>3 DEF Constant, Dim, Compare, And, Cast, Call, Terminators
      <4> QED BY <1>1, <1>2, <4>1, ForwardPlaced
    <3> QED BY <1>5, <3>1, <3>2, <3>3 DEF Execute
  <2>3. ASSUME kind = "E5" PROVE Choosing'
    <3>1. DispatchesByWidth /\ Choosing
      BY <1>2, <2>3 DEF Accepted
    <3>2. CASE Constant \/ Dim \/ Compare \/ And
      BY <1>2, <3>1, <3>2, TestChooses
    <3>3. CASE Branch
      BY <1>2, <2>3, <3>1, <3>3, BranchChooses
    <3>4. CASE Cast \/ Call
      BY <1>2, <3>1, <3>4, LeafChooses
    <3>5. CASE Yield
      BY <1>2, <3>5, YieldChooses
    <3> QED BY <1>5, <3>2, <3>3, <3>4, <3>5 DEF Execute
  <2>4. Judged'
    <3>1. CASE Call
      <4>1. CASE kind = "E5"
        BY <1>2, <3>1, <4>1, CallOfE5 DEF Accepted
      <4>2. CASE kind # "E5"
        BY <1>2, <3>1, <4>2, CallOfOthers DEF Accepted
      <4> QED BY <4>1, <4>2
    <3>2. CASE ~ Call
      <4>1. UNCHANGED <<callee, operands>>
        BY <1>5, <3>2 DEF Execute, Constant, Dim, Compare, And, Branch, Cast, Yield
      <4> QED BY <1>1, <1>2, <2>1, <4>1, JudgedSame
    <3> QED BY <3>1, <3>2
  <2> QED BY <1>1, <1>2, <1>3, <2>1, <2>2, <2>3, <2>4 DEF CheckerInv, Judged
<1> QED BY <1>4, <1>5

\* So does a step that changes nothing.
LEMMA StutterChecker == CheckerInv /\ UNCHANGED checkerVars => CheckerInv'
<1> SUFFICES ASSUME CheckerInv, UNCHANGED checkerVars PROVE CheckerInv'
  OBVIOUS
<1>1. UNCHANGED <<vars, edits, verdict>>
  BY DEF checkerVars
<1>2. UNCHANGED <<phase, kind, lengths, statics, blocks, ip, frames, widths, pc, env, callee, operands, verdict>>
  BY <1>1 DEF vars, emitted, runState
<1>3. phase \notin {"ready", "run"} => EmitInv'
  BY <1>1, NextEmitInv DEF CheckerInv
<1>4. (Shaped' <=> Shaped) /\ (Accepted' <=> Accepted)
  BY <1>2, SameWrapper
<1>5. Placed' <=> Placed
  BY <1>2, SameWrapper DEF Placed
<1>6. Choosing' <=> Choosing
  <2>1. /\ NumLevels' = NumLevels /\ \A i : IfPos(i)' = IfPos(i) /\ If(i)' = If(i)
        /\ \A i, p : Above(i, p)' = Above(i, p) /\ \A v : OpAt(v)' = OpAt(v)
    BY <1>2, SameWrapper
  <2>2. \A i : (Matches(i)' <=> Matches(i)) /\ (Missed(i)' <=> Missed(i))
    BY <1>2, SameMeaning
  <2>3. \A v : Means(v)' <=> Means(v)
    BY <1>2, <2>1 DEF Means, Computes
  <2>4. \A i, p : AsksAt(i, p)' <=> AsksAt(i, p)
    BY <2>1, <2>2, <2>3 DEF AsksAt
  <2> QED BY <1>2, <2>1, <2>2, <2>4 DEF Choosing, Asking, Answered, Chosen, Refused
<1>7. Judged'
  BY <1>2, JudgedSame DEF CheckerInv, Judged
<1>8. NoCallee' = NoCallee
  BY DEF NoCallee, R!NoCallee
<1> QED BY <1>2, <1>3, <1>4, <1>5, <1>6, <1>7, <1>8 DEF CheckerInv, Judged

\* Whatever is edited after the emission, the wrapper keeps its shape, a verdict
\* of check_e5_bridge.py or check_parameter_accounting.py says of the wrapper what
\* Accepted says, and a run of an accepted wrapper is where its widths lead it.
THEOREM CheckerInvariant == CheckerSpec => []CheckerInv
<1>1. CheckerInv /\ [CheckerNext]_checkerVars => CheckerInv'
  BY EmitChecker, EditChecker, VerdictChecker, InvokeChecker, ExecuteChecker, StutterChecker
  DEF CheckerNext
<1> QED BY <1>1, CheckerInitInv, PTL DEF CheckerSpec

\* For every list of lengths, all widths and any number of edits: a wrapper that
\* check_dispatch_wrapper of check_e5_bridge.py accepts calls the clone of the
\* widths, or the generic function if there is none.
THEOREM RoutesWhatIsAccepted == CheckerSpec => []AcceptedRoutes
<1>1. CheckerInv => AcceptedRoutes
  BY DEF CheckerInv
<1> QED BY <1>1, CheckerInvariant, PTL

\* What either checker accepts gives the generic function the original inputs.
THEOREM FallsBackIfAccepted == CheckerSpec => []AcceptedFallback
<1>1. CheckerInv => AcceptedFallback
  BY DEF CheckerInv
<1> QED BY <1>1, CheckerInvariant, PTL

\* A wrapper that check_parameter_accounting.py accepts gives whatever it calls
\* the caller's parameters, each in its place.
THEOREM ForwardsIfAccounted == CheckerSpec => []AccountedForwards
<1>1. CheckerInv => AccountedForwards
  BY DEF CheckerInv
<1> QED BY <1>1, CheckerInvariant, PTL

-----------------------------------------------------------------------------
\* The order of the calls in a text.

\* Nothing in front of or behind a sequence leaves it as it is.
LEMMA ConcatNothing ==
  ASSUME NEW s, IsSeq(s)
  PROVE  <<>> \o s = s /\ s \o <<>> = s
<1>1. PICK e : e = <<>> /\ IsSeq(e) /\ Len(e) = 0
  BY EmptyIsSeq
<1>2. Len(s) \in Nat
  BY DEF IsSeq
<1>3. e \o s = s
  <2> DEFINE u == e \o s
  <2>1. IsSeq(u) /\ Len(u) = Len(e) + Len(s) /\ \A i \in Len(e) + 1..Len(e) + Len(s) : u[i] = s[i - Len(e)]
    BY <1>1, ConcatIsSeq
  <2> HIDE DEF u
  <2>2. Len(u) = Len(s) /\ \A i \in 1..Len(u) : u[i] = s[i]
    BY <1>1, <1>2, <2>1
  <2>3. u = s
    BY <2>1, <2>2, EqualSeqs
  <2> QED BY <2>3 DEF u
<1>4. s \o e = s
  <2> DEFINE u == s \o e
  <2>1. IsSeq(u) /\ Len(u) = Len(s) + Len(e) /\ \A i \in 1..Len(s) : u[i] = s[i]
    BY <1>1, ConcatIsSeq
  <2> HIDE DEF u
  <2>2. Len(u) = Len(s) /\ \A i \in 1..Len(u) : u[i] = s[i]
    BY <1>1, <1>2, <2>1
  <2>3. u = s
    BY <2>1, <2>2, EqualSeqs
  <2> QED BY <2>3 DEF u
<1> QED BY <1>1, <1>3, <1>4

\* It does not matter in which order sequences are put together.
LEMMA ConcatTwice ==
  ASSUME NEW s, NEW t, NEW u, IsSeq(s), IsSeq(t), IsSeq(u)
  PROVE  s \o (t \o u) = (s \o t) \o u
<1> DEFINE S == Elements(s) \cup Elements(t) \cup Elements(u)
<1>1. s \in Seq(S) /\ t \in Seq(S) /\ u \in Seq(S)
  <2>1. /\ s \in Seq(Elements(s)) /\ t \in Seq(Elements(t)) /\ u \in Seq(Elements(u))
    BY IsSeqSeq
  <2> QED BY <2>1
<1> HIDE DEF S
<1> QED BY <1>1, ConcatAssociative

\* No sequences flatten to the empty one.
LEMMA FlattenNone == SE!FlattenSeq(<<>>) = <<>>
<1>1. Len(<<>>) = 0
  BY EmptyIsSeq
<1> QED BY <1>1 DEF SE!FlattenSeq

\* One sequence flattens to itself.
LEMMA FlattenSingleton ==
  ASSUME NEW s PROVE SE!FlattenSeq(<<s>>) = s
<1>1. PICK ss : ss = <<s>> /\ IsSeq(ss) /\ Len(ss) = 1 /\ ss[1] = s
  BY SingletonIsSeq
<1>2. PICK g : IsFlatten(g, ss, 1) /\ SE!FlattenSeq(ss) = g[1]
  <2>1. Len(ss) # 0
    BY <1>1
  <2>2. \E g : IsFlatten(g, ss, Len(ss)) /\ SE!FlattenSeq(ss) = g[Len(ss)]
    BY <1>1, <2>1, FlattenSeqIs
  <2> QED BY <1>1, <2>2
<1>3. g[1] = ss[1]
  BY <1>2 DEF IsFlatten
<1> QED BY <1>1, <1>2, <1>3

\* Sequences of sequences behind one another.
LEMMA FlattenConcat ==
  ASSUME NEW ss, NEW tt, IsSeq(ss), IsSeq(tt),
         \A i \in 1..Len(ss) : IsSeq(ss[i]), \A i \in 1..Len(tt) : IsSeq(tt[i])
  PROVE  SE!FlattenSeq(ss \o tt) = SE!FlattenSeq(ss) \o SE!FlattenSeq(tt)
<1>0. PICK m \in Nat, k \in Nat : m = Len(ss) /\ k = Len(tt)
  BY DEF IsSeq
<1>1. IsSeq(SE!FlattenSeq(ss)) /\ IsSeq(SE!FlattenSeq(tt))
  BY FlattenElements
<1>2. CASE m = 0
  <2>1. ss = <<>>
    BY <1>0, <1>2, EmptyIfNone
  <2> QED BY <1>1, <2>1, FlattenNone, ConcatNothing
<1>3. CASE k = 0
  <2>1. tt = <<>>
    BY <1>0, <1>3, EmptyIfNone
  <2> QED BY <1>1, <2>1, FlattenNone, ConcatNothing
<1>4. CASE m # 0 /\ k # 0
  <2>1. PICK g : IsFlatten(g, ss, m) /\ SE!FlattenSeq(ss) = g[m]
    BY <1>0, <1>4, FlattenSeqIs
  <2>2. PICK h : IsFlatten(h, tt, k) /\ SE!FlattenSeq(tt) = h[k]
    BY <1>0, <1>4, FlattenSeqIs
  <2>3. PICK uu : /\ uu = ss \o tt /\ IsSeq(uu) /\ Len(uu) = m + k
                  /\ \A i \in 1..m : uu[i] = ss[i]
                  /\ \A i \in m + 1..m + k : uu[i] = tt[i - m]
    <3> DEFINE vv == ss \o tt
    <3>1. /\ IsSeq(vv) /\ Len(vv) = Len(ss) + Len(tt)
          /\ \A i \in 1..Len(ss) : vv[i] = ss[i]
          /\ \A i \in Len(ss) + 1..Len(ss) + Len(tt) : vv[i] = tt[i - Len(ss)]
      BY ConcatIsSeq
    <3> QED BY <1>0, <3>1
  <2>4. PICK f : IsFlatten(f, uu, m + k) /\ SE!FlattenSeq(uu) = f[m + k]
    <3>1. Len(uu) # 0
      BY <1>4, <2>3
    <3>2. \E f : IsFlatten(f, uu, Len(uu)) /\ SE!FlattenSeq(uu) = f[Len(uu)]
      BY <2>3, <3>1, FlattenSeqIs
    <3> QED BY <2>3, <3>2
  <2>5. m \in 1..m /\ k \in 1..k /\ 1 \in 1..m /\ 1 \in 1..k
    BY <1>4
  <2> DEFINE T == {i \in 1..m : f[i] = g[i]}
             U == {i \in 1..k : f[m + i] = g[m] \o h[i] /\ IsSeq(h[i])}
  <2>6. 1 \in T
    <3>1. 1 \in 1..m + k
      BY <1>4
    <3>2. f[1] = uu[1] /\ g[1] = ss[1]
      BY <2>1, <2>4, <2>5, <3>1 DEF IsFlatten
    <3> QED BY <2>3, <2>5, <3>2
  <2>7. ASSUME NEW i \in 1..m - 1, i \in T PROVE i + 1 \in T
    <3>1. i + 1 \in 1..m /\ i + 1 \in 1..m + k /\ i + 1 # 1 /\ (i + 1) - 1 = i
      OBVIOUS
    <3>2. f[i + 1] = f[i] \o uu[i + 1] /\ g[i + 1] = g[i] \o ss[i + 1]
      BY <2>1, <2>4, <3>1 DEF IsFlatten
    <3> QED BY <2>3, <2>7, <3>1, <3>2
  <2>8. 1..m \subseteq T
    <3>1. 1 \in Nat /\ 1 \in T /\ \A i \in 1..m - 1 : i \in T => i + 1 \in T
      BY <2>6, <2>7
    <3> HIDE DEF T
    <3> QED BY <3>1, UpTo
  <2>9. f[m] = g[m]
    <3>1. m \in T
      BY <2>5, <2>8
    <3> QED BY <3>1
  <2>10. 1 \in U
    <3>1. m + 1 \in m + 1..m + k /\ m + 1 \in 1..m + k /\ m + 1 # 1 /\ (m + 1) - 1 = m /\ (m + 1) - m = 1
      BY <1>4
    <3>2. f[m + 1] = f[m] \o uu[m + 1] /\ h[1] = tt[1]
      BY <2>2, <2>4, <2>5, <3>1 DEF IsFlatten
    <3>3. uu[m + 1] = tt[1] /\ IsSeq(tt[1])
      BY <1>0, <2>3, <2>5, <3>1
    <3> QED BY <2>5, <2>9, <3>2, <3>3
  <2>11. ASSUME NEW i \in 1..k - 1, i \in U PROVE i + 1 \in U
    <3>1. /\ i + 1 \in 1..k /\ i + 1 # 1 /\ (i + 1) - 1 = i
          /\ m + (i + 1) \in 1..m + k /\ m + (i + 1) \in m + 1..m + k /\ m + (i + 1) # 1
          /\ (m + (i + 1)) - 1 = m + i /\ (m + (i + 1)) - m = i + 1
      OBVIOUS
    <3>2. f[m + (i + 1)] = f[m + i] \o uu[m + (i + 1)] /\ h[i + 1] = h[i] \o tt[i + 1]
      BY <2>2, <2>4, <3>1 DEF IsFlatten
    <3>3. uu[m + (i + 1)] = tt[i + 1] /\ IsSeq(tt[i + 1])
      BY <1>0, <2>3, <3>1
    <3>4. f[m + i] = g[m] \o h[i] /\ IsSeq(h[i]) /\ IsSeq(g[m])
      BY <1>1, <2>1, <2>11
    <3>5. IsSeq(h[i + 1])
      BY <3>2, <3>3, <3>4, ConcatIsSeq
    <3>6. f[m + (i + 1)] = g[m] \o (h[i] \o tt[i + 1])
      <4> DEFINE a == g[m]
                 b == h[i]
                 c == tt[i + 1]
      <4>0. IsSeq(a) /\ IsSeq(b) /\ IsSeq(c)
        BY <3>3, <3>4
      <4> HIDE DEF a, b, c
      <4>1. a \o (b \o c) = (a \o b) \o c
        BY <4>0, ConcatTwice
      <4> QED BY <3>2, <3>3, <3>4, <4>1 DEF a, b, c
    <3> QED BY <3>1, <3>2, <3>5, <3>6
  <2>12. 1..k \subseteq U
    <3>1. 1 \in Nat /\ 1 \in U /\ \A i \in 1..k - 1 : i \in U => i + 1 \in U
      BY <2>10, <2>11
    <3> HIDE DEF U
    <3> QED BY <3>1, UpTo
  <2>13. f[m + k] = g[m] \o h[k]
    <3>1. k \in U
      BY <2>5, <2>12
    <3> QED BY <3>1
  <2> QED BY <2>1, <2>2, <2>3, <2>4, <2>13
<1> QED BY <1>2, <1>3, <1>4

-----------------------------------------------------------------------------
\* What each line calls.
LineCalls(v) == IF OpAt(v).name = "func.call" THEN <<OpAt(v).callee>> ELSE <<>>

CallsByLine(lines) == [i \in DOMAIN lines |-> LineCalls(lines[i])]

\* The calls of a text are those of its lines, behind one another.
LEMMA CallsByLineIs ==
  ASSUME NEW lines, IsSeq(lines)
  PROVE  /\ Calls(lines) = SE!FlattenSeq(CallsByLine(lines)) /\ IsSeq(Calls(lines))
         /\ IsSeq(CallsByLine(lines)) /\ Len(CallsByLine(lines)) = Len(lines)
         /\ \A i \in 1..Len(lines) :
              CallsByLine(lines)[i] = LineCalls(lines[i]) /\ IsSeq(CallsByLine(lines)[i])
<1>1. Calls(lines) = SE!FlattenSeq(CallsByLine(lines))
  BY DEF Calls, CallsByLine, LineCalls
<1>2. DOMAIN lines = 1..Len(lines) /\ Len(lines) \in Nat
  BY DEF IsSeq
<1>3. CallsByLine(lines) = [i \in 1..Len(lines) |-> LineCalls(lines[i])]
  BY <1>2 DEF CallsByLine
<1>4. IsSeq(CallsByLine(lines)) /\ Len(CallsByLine(lines)) = Len(lines)
  BY <1>2, <1>3, FunctionIsSeq
<1>5. ASSUME NEW v PROVE IsSeq(LineCalls(v))
  BY EmptyIsSeq, SingletonIsSeq DEF LineCalls
<1>6. \A i \in 1..Len(lines) : CallsByLine(lines)[i] = LineCalls(lines[i]) /\ IsSeq(CallsByLine(lines)[i])
  BY <1>3, <1>5
<1>7. IsSeq(SE!FlattenSeq(CallsByLine(lines)))
  BY <1>4, <1>6, FlattenElements
<1> QED BY <1>1, <1>4, <1>6, <1>7

\* The calls of two texts behind one another.
LEMMA CallsConcat ==
  ASSUME NEW s, NEW t, IsSeq(s), IsSeq(t)
  PROVE  Calls(s \o t) = Calls(s) \o Calls(t)
<1>0. PICK m \in Nat, k \in Nat : m = Len(s) /\ k = Len(t)
  BY DEF IsSeq
<1>1. PICK u : /\ u = s \o t /\ IsSeq(u) /\ Len(u) = m + k
               /\ \A i \in 1..m : u[i] = s[i]
               /\ \A i \in m + 1..m + k : u[i] = t[i - m]
  <2> DEFINE v == s \o t
  <2>1. /\ IsSeq(v) /\ Len(v) = Len(s) + Len(t)
        /\ \A i \in 1..Len(s) : v[i] = s[i]
        /\ \A i \in Len(s) + 1..Len(s) + Len(t) : v[i] = t[i - Len(s)]
    BY ConcatIsSeq
  <2> QED BY <1>0, <2>1
<1> DEFINE ss == CallsByLine(s)
           tt == CallsByLine(t)
           uu == CallsByLine(u)
           vv == ss \o tt
<1>2. /\ Calls(s) = SE!FlattenSeq(ss) /\ IsSeq(ss) /\ Len(ss) = m
      /\ \A i \in 1..m : ss[i] = LineCalls(s[i]) /\ IsSeq(ss[i])
  BY <1>0, CallsByLineIs
<1>3. /\ Calls(t) = SE!FlattenSeq(tt) /\ IsSeq(tt) /\ Len(tt) = k
      /\ \A i \in 1..k : tt[i] = LineCalls(t[i]) /\ IsSeq(tt[i])
  BY <1>0, CallsByLineIs
<1>4. /\ Calls(u) = SE!FlattenSeq(uu) /\ IsSeq(uu) /\ Len(uu) = m + k
      /\ \A i \in 1..m + k : uu[i] = LineCalls(u[i]) /\ IsSeq(uu[i])
  BY <1>1, CallsByLineIs
<1> HIDE DEF ss, tt, uu
<1>5. /\ IsSeq(vv) /\ Len(vv) = m + k
      /\ \A i \in 1..m : vv[i] = ss[i]
      /\ \A i \in m + 1..m + k : vv[i] = tt[i - m]
  BY <1>2, <1>3, ConcatIsSeq
<1> HIDE DEF vv
<1>6. ASSUME NEW i \in 1..m + k PROVE uu[i] = vv[i]
  <2>1. CASE i \in 1..m
    <3>1. uu[i] = LineCalls(u[i]) /\ u[i] = s[i]
      BY <1>1, <1>4, <2>1
    <3>2. vv[i] = ss[i] /\ ss[i] = LineCalls(s[i])
      BY <1>2, <1>5, <2>1
    <3> QED BY <3>1, <3>2
  <2>2. CASE i \in m + 1..m + k
    <3>1. i - m \in 1..k
      BY <2>2
    <3>2. uu[i] = LineCalls(t[i - m])
      BY <1>1, <1>4, <2>2
    <3>3. vv[i] = LineCalls(t[i - m])
      BY <1>3, <1>5, <2>2, <3>1
    <3> QED BY <3>2, <3>3
  <2> QED BY <2>1, <2>2
<1>7. uu = vv
  BY <1>4, <1>5, <1>6, EqualSeqs
<1>8. SE!FlattenSeq(ss \o tt) = SE!FlattenSeq(ss) \o SE!FlattenSeq(tt)
  BY <1>2, <1>3, FlattenConcat
<1> QED BY <1>1, <1>2, <1>3, <1>4, <1>7, <1>8 DEF vv

\* The calls of one line.
LEMMA CallsOfLine ==
  ASSUME NEW v PROVE Calls(<<v>>) = LineCalls(v)
<1>1. PICK s : s = <<v>> /\ IsSeq(s) /\ Len(s) = 1 /\ s[1] = v
  BY SingletonIsSeq
<1>2. Calls(s) = SE!FlattenSeq(CallsByLine(s))
      /\ IsSeq(CallsByLine(s)) /\ Len(CallsByLine(s)) = 1 /\ CallsByLine(s)[1] = LineCalls(v)
  BY <1>1, CallsByLineIs
<1>3. CallsByLine(s) = <<LineCalls(v)>>
  <2>1. IsSeq(<<LineCalls(v)>>) /\ Len(<<LineCalls(v)>>) = 1 /\ <<LineCalls(v)>>[1] = LineCalls(v)
    BY SingletonIsSeq
  <2> QED BY <1>2, <2>1, EqualSeqs
<1> QED BY <1>1, <1>2, <1>3, FlattenSingleton

\* If one line of many has calls, they are all.
LEMMA CallsOfOne ==
  ASSUME NEW ss, IsSeq(ss), NEW q \in 1..Len(ss), \A i \in 1..Len(ss) : IsSeq(ss[i]),
         \A i \in 1..Len(ss) : i # q => Calls(ss[i]) = <<>>
  PROVE  Calls(SE!FlattenSeq(ss)) = Calls(ss[q])
<1>0. PICK n \in Nat : n = Len(ss)
  BY DEF IsSeq
<1>1. n # 0 /\ 1 \in 1..n /\ n \in 1..n /\ q \in 1..n
  BY <1>0
<1>2. PICK g : IsFlatten(g, ss, n) /\ SE!FlattenSeq(ss) = g[n]
  BY <1>0, <1>1, FlattenSeqIs
<1> DEFINE T == {i \in 1..n : IsSeq(g[i]) /\ Calls(g[i]) = IF i < q THEN <<>> ELSE Calls(ss[q])}
<1>3. 1 \in T
  <2>1. g[1] = ss[1]
    BY <1>1, <1>2 DEF IsFlatten
  <2>2. CASE 1 = q
    BY <1>0, <1>1, <2>1, <2>2
  <2>3. CASE 1 # q
    <3>1. 1 < q /\ Calls(ss[1]) = <<>>
      BY <1>0, <1>1, <2>3
    <3> QED BY <1>0, <1>1, <2>1, <3>1
  <2> QED BY <2>2, <2>3
<1>4. ASSUME NEW i \in 1..n - 1, i \in T PROVE i + 1 \in T
  <2>1. i + 1 \in 1..n /\ i + 1 # 1 /\ (i + 1) - 1 = i
    OBVIOUS
  <2>2. g[i + 1] = g[i] \o ss[i + 1]
    BY <1>2, <2>1 DEF IsFlatten
  <2>3. IsSeq(g[i]) /\ IsSeq(ss[i + 1]) /\ Calls(g[i]) = IF i < q THEN <<>> ELSE Calls(ss[q])
    BY <1>0, <1>4, <2>1
  <2>4. IsSeq(g[i + 1]) /\ Calls(g[i + 1]) = Calls(g[i]) \o Calls(ss[i + 1])
    <3> DEFINE a == g[i]
               b == ss[i + 1]
    <3>1. IsSeq(a) /\ IsSeq(b)
      BY <2>3
    <3> HIDE DEF a, b
    <3>2. IsSeq(a \o b) /\ Calls(a \o b) = Calls(a) \o Calls(b)
      BY <3>1, ConcatIsSeq, CallsConcat
    <3> QED BY <2>2, <3>2 DEF a, b
  <2>5. IsSeq(Calls(g[i])) /\ IsSeq(Calls(ss[i + 1]))
    BY <2>3, CallsByLineIs
  <2>6. CASE i + 1 = q
    <3>1. i < q /\ ~ (i + 1 < q)
      BY <2>6
    <3>2. Calls(g[i + 1]) = Calls(ss[q])
      BY <2>3, <2>4, <2>5, <2>6, <3>1, ConcatNothing
    <3> QED BY <2>1, <2>4, <3>1, <3>2
  <2>7. CASE i + 1 # q
    <3>1. i + 1 < q <=> i < q
      BY <2>7
    <3>2. Calls(ss[i + 1]) = <<>>
      BY <1>0, <2>1, <2>7
    <3>3. Calls(g[i + 1]) = Calls(g[i])
      BY <2>4, <2>5, <3>2, ConcatNothing
    <3> QED BY <2>1, <2>3, <2>4, <3>1, <3>3
  <2> QED BY <2>6, <2>7
<1>5. 1..n \subseteq T
  <2>1. 1 \in Nat /\ 1 \in T /\ \A i \in 1..n - 1 : i \in T => i + 1 \in T
    BY <1>3, <1>4
  <2> HIDE DEF T
  <2> QED BY <2>1, UpTo
<1>6. n \in T /\ ~ (n < q)
  BY <1>1, <1>5
<1> QED BY <1>2, <1>6

-----------------------------------------------------------------------------
\* The calls of a leaf.
LEMMA CallsOfLeaf ==
  ASSUME Shaped, NEW b \in 1..Fallback, NEW c \in 1..Len(blocks[b]) - 1, IsLeafOf(blocks[b], c)
  PROVE  Calls(Text[b]) = <<blocks[b][c].callee>>
<1>1. /\ Fallback \in Nat /\ Len(blocks[b]) \in Nat /\ c \in 1..Len(blocks[b])
  BY ShapedNumbers
<1>2. \A d \in b + 1..Fallback : IsSeq(Text[d])
  <2>1. \A d \in b + 1..Fallback : d \in 1..Fallback
    BY <1>1
  <2> QED BY <2>1, TextSeqs
<1> DEFINE ss == Lines(Text, b)
<1>3. /\ IsSeq(ss) /\ Len(ss) = Len(blocks[b])
      /\ \A p \in 1..Len(blocks[b]) : ss[p] = Line(Text, b, p) /\ IsSeq(Line(Text, b, p))
  BY <1>2, LinesAreSeqs
<1>4. Text[b] = SE!FlattenSeq(ss)
  BY TextIs DEF IsTextFrom
<1> HIDE DEF ss
<1>5. ASSUME NEW p \in 1..Len(blocks[b])
      PROVE  Calls(ss[p]) = IF p = c THEN <<blocks[b][c].callee>> ELSE <<>>
  <2>1. blocks[b][p].name # "scf.if" /\ (blocks[b][p].name = "func.call" <=> p = c)
    BY DEF IsLeafOf, LeafName
  <2>2. ss[p] = <<Val(b, p)>>
    BY <1>3, <2>1 DEF Line
  <2>3. OpAt(Val(b, p)) = blocks[b][p]
    BY DEF OpAt, Val
  <2> QED BY <2>1, <2>2, <2>3, CallsOfLine DEF LineCalls
<1>6. Calls(SE!FlattenSeq(ss)) = Calls(ss[c])
  <2>1. c \in 1..Len(ss) /\ \A p \in 1..Len(ss) : IsSeq(ss[p])
    BY <1>1, <1>3
  <2>2. \A p \in 1..Len(ss) : p # c => Calls(ss[p]) = <<>>
    BY <1>3, <1>5
  <2> QED BY <1>3, <2>1, <2>2, CallsOfOne
<1> QED BY <1>1, <1>4, <1>5, <1>6

\* The calls of a level: those of its then region, and those of its else region.
LEMMA CallsOfLevel ==
  ASSUME Shaped, NEW i \in 1..NumLevels, IsChain(i)
  PROVE  Calls(Text[Level(i)]) = Calls(Text[If(i).then]) \o Calls(Text[If(i).else])
<1> DEFINE b == Level(i)
           q == IfPos(i)
<1>1. /\ Fallback \in Nat /\ Len(blocks[b]) \in Nat /\ Len(blocks[b]) = q + 1 /\ q \in 1..Len(blocks[b])
      /\ b \in 1..Fallback /\ b \in Nat
  <2>1. Len(blocks[b]) = q + 1 /\ q \in Nat \ {0}
    BY ShapedNumbers DEF IsChain, IsChainOf
  <2>2. b \in 1..Fallback /\ Fallback = 2 * NumLevels + 1 /\ NumLevels \in Nat
    BY ShapedNumbers
  <2> HIDE DEF b, q
  <2> QED BY <2>1, <2>2
<1>2. \A d \in b + 1..Fallback : IsSeq(Text[d])
  <2>1. \A d \in b + 1..Fallback : d \in 1..Fallback
    BY <1>1
  <2> HIDE DEF b
  <2> QED BY <2>1, TextSeqs
<1> DEFINE ss == Lines(Text, b)
<1> HIDE DEF b, q
<1>3. /\ IsSeq(ss) /\ Len(ss) = Len(blocks[b])
      /\ \A p \in 1..Len(blocks[b]) : ss[p] = Line(Text, b, p) /\ IsSeq(Line(Text, b, p))
  BY <1>1, <1>2, LinesAreSeqs
<1>4. Text[b] = SE!FlattenSeq(ss)
  BY <1>1, TextIs DEF IsTextFrom
<1> HIDE DEF ss
<1>5. ASSUME NEW p \in 1..Len(blocks[b]), p # q
      PROVE  Calls(ss[p]) = <<>>
  <2>1. blocks[b][p].name \notin {"scf.if", "func.call"}
    <3>1. p \in 1..q - 1 \/ p = q + 1
      BY <1>1, <1>5
    <3>2. p \in 1..q - 1 => IsTest(blocks[b][p], i, p)
      BY DEF IsChain, IsChainOf, b, q
    <3>3. p = q + 1 => blocks[b][p].name \in Terminators
      BY DEF IsChain, IsChainOf, b, q
    <3> QED BY <3>1, <3>2, <3>3 DEF IsTest, Terminators
  <2>2. ss[p] = <<Val(b, p)>>
    BY <1>3, <2>1 DEF Line
  <2>3. OpAt(Val(b, p)) = blocks[b][p]
    BY DEF OpAt, Val
  <2> QED BY <2>1, <2>2, <2>3, CallsOfLine DEF LineCalls
<1>6. Calls(SE!FlattenSeq(ss)) = Calls(ss[q])
  <2>1. q \in 1..Len(ss) /\ \A p \in 1..Len(ss) : IsSeq(ss[p])
    BY <1>1, <1>3
  <2>2. \A p \in 1..Len(ss) : p # q => Calls(ss[p]) = <<>>
    BY <1>3, <1>5
  <2> QED BY <1>3, <2>1, <2>2, CallsOfOne
<1> DEFINE own == <<Val(b, q)>>
           t   == Text[If(i).then]
           e   == Text[If(i).else]
<1>7. blocks[b][q] = If(i) /\ If(i).name = "scf.if"
  BY DEF If, IsChain, IsChainOf, IsBranch, b, q
<1>8. IsSeq(own) /\ Calls(own) = <<>>
  <2>1. OpAt(Val(b, q)) = If(i)
    BY <1>7 DEF OpAt, Val
  <2> QED BY <1>7, <2>1, SingletonIsSeq, CallsOfLine DEF LineCalls
<1>9. IsSeq(t) /\ IsSeq(e)
  <2>1. If(i).then \in 1..Fallback /\ If(i).else \in 1..Fallback
    BY <1>1, <1>7, Nested
  <2> QED BY <2>1, TextSeqs
<1>10. ss[q] = (own \o t) \o e
  BY <1>1, <1>3, <1>7 DEF Line
<1> HIDE DEF own, t, e
<1>11. IsSeq(own \o t) /\ Calls(own \o t) = Calls(own) \o Calls(t)
  BY <1>8, <1>9, ConcatIsSeq, CallsConcat
<1>12. Calls((own \o t) \o e) = Calls(own \o t) \o Calls(e)
  BY <1>9, <1>11, CallsConcat
<1>13. IsSeq(Calls(t))
  BY <1>9, CallsByLineIs
<1>14. Calls(own) \o Calls(t) = Calls(t)
  BY <1>8, <1>13, ConcatNothing
<1>15. Calls(ss[q]) = Calls(t) \o Calls(e)
  BY <1>10, <1>11, <1>12, <1>14
<1> QED BY <1>4, <1>6, <1>15 DEF t, e, b

-----------------------------------------------------------------------------
\* The operations of the wrapper of an E5 module, as it is emitted.
TestAt(i, k)       == Val(Level(i), Base(i) + k)
ComparisonAt(i, a) == TestAt(i, IF a = 1 THEN 2 ELSE 2 * a - 1)

EmittedOp(i, v) ==
  \/ i = 1 /\ v = Val(1, 1) /\ OpAt(v) = ConstantOp(kSequenceAxis)
  \/ i = 1 /\ \E a \in 1..3 : v = SequenceLength(a) /\ OpAt(v) = DimOp(Arg(a), Val(1, 1))
  \/ v = TestAt(i, 1) /\ OpAt(v) = ConstantOp(lengths[i])
  \/ \E a \in 1..3 : v = ComparisonAt(i, a) /\ OpAt(v) = CmpOp(SequenceLength(a), TestAt(i, 1))
  \/ v = TestAt(i, 4) /\ OpAt(v) = AndOp(ComparisonAt(i, 1), ComparisonAt(i, 2))
  \/ v = TestAt(i, 6) /\ OpAt(v) = AndOp(TestAt(i, 4), ComparisonAt(i, 3))
  \/ v = Val(Level(i), IfPos(i)) /\ OpAt(v) = IfOp(TestAt(i, 6), Then(i), Level(i + 1))
  \/ v = Val(Level(i), IfPos(i) + 1) /\ OpAt(v) = Terminator(i)

\* The operations of a level are there.
LEMMA EmittedHas ==
  ASSUME EmittedWrapper, kind = "E5", NEW i \in 1..NumLevels
  PROVE  /\ i = 1 => /\ Val(1, 1) \in Own(1) /\ OpAt(Val(1, 1)) = ConstantOp(kSequenceAxis)
                     /\ \A a \in 1..3 : /\ SequenceLength(a) \in Own(1)
                                        /\ OpAt(SequenceLength(a)) = DimOp(Arg(a), Val(1, 1))
         /\ TestAt(i, 1) \in Own(Level(i)) /\ OpAt(TestAt(i, 1)) = ConstantOp(lengths[i])
         /\ \A a \in 1..3 : /\ ComparisonAt(i, a) \in Own(Level(i))
                            /\ OpAt(ComparisonAt(i, a)) = CmpOp(SequenceLength(a), TestAt(i, 1))
         /\ TestAt(i, 4) \in Own(Level(i))
         /\ OpAt(TestAt(i, 4)) = AndOp(ComparisonAt(i, 1), ComparisonAt(i, 2))
         /\ TestAt(i, 6) \in Own(Level(i))
         /\ OpAt(TestAt(i, 6)) = AndOp(TestAt(i, 4), ComparisonAt(i, 3))
         /\ Val(Level(i), IfPos(i)) \in Own(Level(i))
         /\ OpAt(Val(Level(i), IfPos(i))) = IfOp(TestAt(i, 6), Then(i), Level(i + 1))
         /\ Val(Level(i), IfPos(i) + 1) \in Own(Level(i))
         /\ OpAt(Val(Level(i), IfPos(i) + 1)) = Terminator(i)
<1>1. NumArgs = 3 /\ IfPos(i) = Base(i) + 7 /\ Base(i) = (IF i = 1 THEN 4 ELSE 0)
  BY ArgsCount DEF EmittedWrapper, Shaped, IfPos, Base
<1> DEFINE s == blocks[Level(i)]
<1>2. /\ IsLevel(s, i) /\ s[IfPos(i) + 1] = Terminator(i) /\ Len(s) = IfPos(i) + 1
      /\ IsChain(i)
  BY DEF EmittedWrapper, IsChain, IsChainOf
<1>3. ASSUME NEW p \in 1..IfPos(i) + 1
      PROVE  Val(Level(i), p) \in Own(Level(i)) /\ OpAt(Val(Level(i), p)) = s[p]
  BY <1>2, <1>3 DEF Own, OpAt, Val
<1>4. /\ IsTests(s, Level(i), Base(i), lengths[i]) /\ (i = 1 => IsHeader(s))
      /\ s[IfPos(i)] = IfOp(Val(Level(i), Base(i) + 2 * NumArgs), Then(i), Level(i + 1))
  BY <1>2 DEF IsLevel
<1> HIDE DEF s
<1>5. /\ s[Base(i) + 1] = ConstantOp(lengths[i])
      /\ s[Base(i) + 2] = CmpOp(SequenceLength(1), TestAt(i, 1))
      /\ s[Base(i) + 3] = CmpOp(SequenceLength(2), TestAt(i, 1))
      /\ s[Base(i) + 4] = AndOp(TestAt(i, 2), TestAt(i, 3))
      /\ s[Base(i) + 5] = CmpOp(SequenceLength(3), TestAt(i, 1))
      /\ s[Base(i) + 6] = AndOp(TestAt(i, 4), TestAt(i, 5))
      /\ s[IfPos(i)] = IfOp(TestAt(i, 6), Then(i), Level(i + 1))
  <2>1. 2 * NumArgs = 6
    BY <1>1
  <2> QED BY <1>1, <1>4, <2>1 DEF IsTests, TestAt
<1>6. PICK base \in {0, 4} : base = Base(i)
  BY <1>1
<1>7. ASSUME NEW k \in 1..6
      PROVE  TestAt(i, k) \in Own(Level(i)) /\ OpAt(TestAt(i, k)) = s[Base(i) + k]
  <2>1. Base(i) + k \in 1..IfPos(i) + 1
    BY <1>1, <1>6
  <2> QED BY <1>3, <2>1 DEF TestAt
<1>8. /\ ComparisonAt(i, 1) = TestAt(i, 2) /\ ComparisonAt(i, 2) = TestAt(i, 3)
      /\ ComparisonAt(i, 3) = TestAt(i, 5)
  BY DEF ComparisonAt
<1>9. \A a \in 1..3 : /\ ComparisonAt(i, a) \in Own(Level(i))
                      /\ OpAt(ComparisonAt(i, a)) = CmpOp(SequenceLength(a), TestAt(i, 1))
  <2>1. \A a \in 1..3 : a = 1 \/ a = 2 \/ a = 3
    OBVIOUS
  <2>2. 2 \in 1..6 /\ 3 \in 1..6 /\ 5 \in 1..6
    OBVIOUS
  <2> QED BY <1>5, <1>7, <1>8, <2>1, <2>2
<1>10. /\ IfPos(i) \in 1..IfPos(i) + 1 /\ IfPos(i) + 1 \in 1..IfPos(i) + 1
  BY <1>1, <1>6
<1>11. ASSUME i = 1
       PROVE  /\ Val(1, 1) \in Own(1) /\ OpAt(Val(1, 1)) = ConstantOp(kSequenceAxis)
              /\ \A a \in 1..3 : /\ SequenceLength(a) \in Own(1)
                                 /\ OpAt(SequenceLength(a)) = DimOp(Arg(a), Val(1, 1))
  <2>1. Level(i) = 1 /\ IfPos(i) = 11 /\ IsHeader(s)
    BY <1>1, <1>4, <1>11 DEF Level, s
  <2>2. \A p \in 1..4 : p \in 1..IfPos(i) + 1
    BY <2>1
  <2>3. \A p \in 1..4 : Val(1, p) \in Own(1) /\ OpAt(Val(1, p)) = s[p]
    BY <1>3, <2>1, <2>2
  <2>4. s[1] = ConstantOp(kSequenceAxis) /\ \A a \in 1..3 : s[1 + a] = DimOp(Arg(a), Val(1, 1))
    BY <1>1, <2>1 DEF IsHeader
  <2>5. 1 \in 1..4 /\ \A a \in 1..3 : 1 + a \in 1..4
    OBVIOUS
  <2> QED BY <2>3, <2>4, <2>5 DEF SequenceLength
<1>12. /\ TestAt(i, 1) \in Own(Level(i)) /\ OpAt(TestAt(i, 1)) = ConstantOp(lengths[i])
       /\ TestAt(i, 4) \in Own(Level(i))
       /\ OpAt(TestAt(i, 4)) = AndOp(ComparisonAt(i, 1), ComparisonAt(i, 2))
       /\ TestAt(i, 6) \in Own(Level(i))
       /\ OpAt(TestAt(i, 6)) = AndOp(TestAt(i, 4), ComparisonAt(i, 3))
  <2>1. 1 \in 1..6 /\ 4 \in 1..6 /\ 6 \in 1..6
    OBVIOUS
  <2> QED BY <1>5, <1>7, <1>8, <2>1
<1>13. /\ Val(Level(i), IfPos(i)) \in Own(Level(i))
       /\ OpAt(Val(Level(i), IfPos(i))) = IfOp(TestAt(i, 6), Then(i), Level(i + 1))
       /\ Val(Level(i), IfPos(i) + 1) \in Own(Level(i))
       /\ OpAt(Val(Level(i), IfPos(i) + 1)) = Terminator(i)
  BY <1>2, <1>3, <1>5, <1>10 DEF s
<1> QED BY <1>9, <1>11, <1>12, <1>13

\* A level has no other operations.
LEMMA EmittedOps ==
  ASSUME EmittedWrapper, kind = "E5", NEW i \in 1..NumLevels, NEW v \in Own(Level(i))
  PROVE  EmittedOp(i, v)
<1>1. NumArgs = 3 /\ IfPos(i) = Base(i) + 7 /\ Base(i) = (IF i = 1 THEN 4 ELSE 0)
  BY ArgsCount DEF EmittedWrapper, Shaped, IfPos, Base
<1>2. Len(blocks[Level(i)]) = IfPos(i) + 1
  BY DEF EmittedWrapper, IsChain, IsChainOf
<1>3. PICK p \in 1..IfPos(i) + 1 : v = Val(Level(i), p)
  BY <1>2 DEF Own
<1>4. PICK base \in {0, 4} : base = Base(i) /\ (i = 1 <=> base = 4)
  BY <1>1
<1>5. \/ i = 1 /\ p \in 1..4
      \/ \E k \in 1..6 : p = Base(i) + k
      \/ p = IfPos(i) \/ p = IfPos(i) + 1
  <2>1. CASE p <= base
    BY <1>4, <2>1
  <2>2. CASE p > base
    <3>1. p \in base + 1..base + 8
      BY <1>1, <1>3, <1>4, <2>2
    <3>2. CASE p <= base + 6
      <4>1. p - base \in 1..6 /\ p = base + (p - base)
        BY <1>4, <2>2, <3>2
      <4> QED BY <1>4, <4>1
    <3>3. CASE p > base + 6
      <4>1. p = base + 7 \/ p = base + 8
        BY <1>4, <3>1, <3>3
      <4> QED BY <1>1, <1>4, <4>1
    <3> QED BY <3>2, <3>3
  <2> QED BY <2>1, <2>2
<1>6. CASE i = 1 /\ p \in 1..4
  <2>1. Level(i) = 1
    BY <1>6 DEF Level
  <2>2. p = 1 \/ (p - 1 \in 1..3 /\ p = 1 + (p - 1))
    BY <1>6
  <2>3. v = Val(1, 1) \/ \E a \in 1..3 : v = SequenceLength(a)
    BY <1>3, <2>1, <2>2 DEF SequenceLength
  <2> QED BY <1>6, <2>3, EmittedHas DEF EmittedOp
<1>7. CASE \E k \in 1..6 : p = Base(i) + k
  <2>1. PICK k \in 1..6 : v = TestAt(i, k)
    BY <1>3, <1>7 DEF TestAt
  <2>2. \/ k = 1
        \/ k = 4
        \/ k = 6
        \/ \E a \in 1..3 : k = IF a = 1 THEN 2 ELSE 2 * a - 1
    <3>1. 2 = (IF 1 = 1 THEN 2 ELSE 2 * 1 - 1) /\ 3 = (IF 2 = 1 THEN 2 ELSE 2 * 2 - 1)
          /\ 5 = (IF 3 = 1 THEN 2 ELSE 2 * 3 - 1) /\ 1 \in 1..3 /\ 2 \in 1..3 /\ 3 \in 1..3
      OBVIOUS
    <3>2. k \in {1, 2, 3, 4, 5, 6}
      OBVIOUS
    <3> QED BY <3>1, <3>2
  <2>3. \/ v = TestAt(i, 1) \/ v = TestAt(i, 4) \/ v = TestAt(i, 6)
        \/ \E a \in 1..3 : v = ComparisonAt(i, a)
    BY <2>1, <2>2 DEF ComparisonAt
  <2> QED BY <2>3, EmittedHas DEF EmittedOp
<1>8. CASE p = IfPos(i) \/ p = IfPos(i) + 1
  BY <1>3, <1>8, EmittedHas DEF EmittedOp
<1> QED BY <1>5, <1>6, <1>7, <1>8

\* The text from a level on has the operations of the levels from there on,
\* and the casts, calls and yields of the regions below them.
LEMMA EmittedBelow ==
  ASSUME EmittedWrapper, NEW i \in 1..NumLevels + 1, NEW v \in Elements(Text[Level(i)])
  PROVE  \/ \E j \in i..NumLevels : v \in Own(Level(j))
         \/ OpAt(v).name \in {"tensor.cast", "func.call", "scf.yield"}
<1>1. Shaped /\ \A j \in 1..NumLevels : IsChain(j)
  BY DEF EmittedWrapper
<1>2. PICK n \in Nat \ {0} : n = NumLevels
  BY <1>1, ShapedNumbers
<1>3. ASSUME NEW b \in 1..Fallback, IsLeaf(b), NEW u \in Elements(Text[b])
      PROVE  OpAt(u).name \in {"tensor.cast", "func.call", "scf.yield"}
  <2>1. u \in Own(b)
    BY <1>1, <1>3, TextElements
  <2>2. u[2] \in 1..Len(blocks[b]) /\ OpAt(u) = blocks[b][u[2]]
    BY <1>1, <2>1, OwnIs
  <2> QED BY <1>3, <2>2 DEF IsLeaf, IsLeafOf, LeafName
<1> DEFINE Plain(u) == OpAt(u).name \in {"tensor.cast", "func.call", "scf.yield"}
           T == {k \in 1..n + 1 : \A u \in Elements(Text[Level(k)]) :
                   (\E j \in k..n : u \in Own(Level(j))) \/ Plain(u)}
<1>4. n + 1 \in T
  <2>1. Level(n + 1) = Fallback /\ Fallback \in 1..Fallback /\ IsLeaf(Fallback)
    <3>1. Level(n + 1) = Fallback
      BY <1>2 DEF Level, Fallback
    <3>2. Fallback = 2 * n + 1
      BY <1>2 DEF Fallback
    <3> QED BY <1>1, <3>1, <3>2 DEF Shaped
  <2>2. \A u \in Elements(Text[Level(n + 1)]) : Plain(u)
    BY <1>3, <2>1
  <2> QED BY <2>2
<1>5. ASSUME NEW k \in 1..(n + 1) - 1, k + 1 \in T PROVE k \in T
  <2>0. k \in 1..n /\ k \in 1..n + 1 /\ k \in 1..NumLevels
    BY <1>2
  <2>1. Elements(Text[Level(k)]) = Own(Level(k)) \cup Elements(Text[Then(k)])
                                                 \cup Elements(Text[Level(k + 1)])
    BY <1>1, <2>0, TextElements
  <2>2. IsLeaf(Then(k)) /\ Then(k) \in 1..Fallback
    BY <1>1, <2>0, ShapedNumbers DEF Shaped
  <2>3. ASSUME NEW u \in Elements(Text[Level(k)])
        PROVE  (\E j \in k..n : u \in Own(Level(j))) \/ Plain(u)
    <3>1. CASE u \in Own(Level(k))
      <4>1. k \in k..n
        BY <2>0
      <4> QED BY <3>1, <4>1
    <3>2. CASE u \in Elements(Text[Then(k)])
      BY <1>3, <2>2, <3>2
    <3>3. CASE u \in Elements(Text[Level(k + 1)])
      <4>1. (\E j \in k + 1..n : u \in Own(Level(j))) \/ Plain(u)
        BY <1>5, <3>3
      <4>2. \A j \in k + 1..n : j \in k..n
        OBVIOUS
      <4> QED BY <4>1, <4>2
    <3> QED BY <2>1, <3>1, <3>2, <3>3
  <2> QED BY <2>0, <2>3
<1>6. 1..n + 1 \subseteq T
  <2>1. 1 \in Nat /\ n + 1 \in Nat /\ n + 1 \in T /\ \A k \in 1..(n + 1) - 1 : k + 1 \in T => k \in T
    BY <1>4, <1>5
  <2> HIDE DEF T
  <2> QED BY <2>1, DownTo
<1>7. i \in T
  BY <1>2, <1>6
<1> QED BY <1>2, <1>7

-----------------------------------------------------------------------------
\* What the checker finds in the wrapper of an E5 module, as it is emitted.

\* A pattern that one operation matches finds it.
LEMMA OnlyFinds ==
  ASSUME NEW lines, IsSeq(lines), NEW op, NEW y \in Elements(lines), OpAt(y) = op,
         \A v \in Elements(lines) : OpAt(v) = op => v = y
  PROVE  Only(lines, op) = y
<1> DEFINE M == {v \in Elements(lines) : OpAt(v) = op}
<1>1. M = {y}
  OBVIOUS
<1>2. M = {Only(lines, op)}
  BY <1>1, OnlyIs
<1> QED BY <1>1, <1>2

\* A value is a match.
LEMMA ValIsMatch == ASSUME NEW b, NEW p PROVE Val(b, p) # NoMatch
<1>1. Len(<<b, p>>) = 2 /\ Len(<<>>) = 0
  BY PairIsSeq, EmptyIsSeq
<1> QED BY <1>1 DEF Val, NoMatch

\* Different positions of the levels are different values.
LEMMA ValsDiffer ==
  ASSUME NEW i \in 1..NumLevels, NEW j \in 1..NumLevels, NEW p, NEW q,
         Val(Level(i), p) = Val(Level(j), q), NumLevels \in Nat
  PROVE  i = j /\ p = q
<1>1. Level(i) = Level(j) /\ p = q
  BY DEF Val
<1> QED BY <1>1 DEF Level

\* So do two tests.
LEMMA TestsDiffer ==
  ASSUME NEW i \in 1..NumLevels, NEW j \in 1..NumLevels, NEW k \in Nat, NEW l \in Nat,
         TestAt(i, k) = TestAt(j, l), NumLevels \in Nat, NumArgs = 3
  PROVE  i = j /\ k = l
<1>1. i = j /\ Base(i) + k = Base(j) + l
  BY ValsDiffer DEF TestAt
<1>2. Base(i) \in Nat
  BY DEF Base
<1> QED BY <1>1, <1>2

\* The operations of a level are in the text from it on.
LEMMA OwnInText ==
  ASSUME EmittedWrapper, NEW i \in 1..NumLevels
  PROVE  /\ IsSeq(Text[Level(i)]) /\ Own(Level(i)) \subseteq Elements(Text[Level(i)])
         /\ NumLevels \in Nat \ {0} /\ Level(1) = 1 /\ Level(i) \in 1..Fallback
<1>1. Shaped /\ IsChain(i)
  BY DEF EmittedWrapper
<1>2. Level(i) \in 1..Fallback /\ NumLevels \in Nat \ {0}
  BY <1>1, ShapedNumbers
<1> QED BY <1>1, <1>2, TextSeqs, TextElements DEF Level

\* The width of an argument is read in one place.
LEMMA DimensionIs ==
  ASSUME EmittedWrapper, kind = "E5", NEW a \in 1..3
  PROVE  Dimension(Text, a) = SequenceLength(a)
<1>1. PICK n \in Nat \ {0} : n = NumLevels
  BY ShapedNumbers DEF EmittedWrapper
<1>2. 1 \in 1..NumLevels /\ 1 \in 1..NumLevels + 1
  BY <1>1
<1>3. IsSeq(Text[1]) /\ Own(1) \subseteq Elements(Text[1]) /\ Level(1) = 1
  BY <1>2, OwnInText
<1> DEFINE M == {v \in Elements(Text[1]) : OpAt(v).name = "tensor.dim" /\ OpAt(v).src = Arg(a)}
           N == {v \in SE!ToSet(Text[1]) : OpAt(v).name = "tensor.dim" /\ OpAt(v).src = Arg(a)}
           y == SequenceLength(a)
<1>4. N = M
  BY <1>3, ToSetIs
<1>5. Dimension(Text, a) = IF Cardinality(N) = 1 THEN CHOOSE v \in N : TRUE ELSE NoMatch
  BY Zenon DEF Dimension, one_match
<1>6. IsFiniteSet(M)
  BY <1>3, SeqFinite, FS_Subset
<1>7. y \in M
  <2>1. y \in Own(1) /\ OpAt(y) = DimOp(Arg(a), Val(1, 1))
    BY <1>2, EmittedHas
  <2> QED BY <1>3, <2>1 DEF DimOp
<1>8. ASSUME NEW v \in M PROVE v = y
  <2>1. v \in Elements(Text[Level(1)]) /\ OpAt(v).name = "tensor.dim" /\ OpAt(v).src = Arg(a)
    BY <1>3
  <2>2. PICK j \in 1..NumLevels : v \in Own(Level(j))
    BY <1>2, <2>1, EmittedBelow
  <2>3. EmittedOp(j, v)
    BY <2>2, EmittedOps
  <2>4. PICK c \in 1..3 : v = SequenceLength(c) /\ OpAt(v) = DimOp(Arg(c), Val(1, 1))
    BY <2>1, <2>3
    DEF EmittedOp, ConstantOp, DimOp, CmpOp, AndOp, IfOp, Terminator, YieldOp, ReturnOp
  <2>5. Arg(c) = Arg(a)
    BY <2>1, <2>4 DEF DimOp
  <2> QED BY <2>4, <2>5 DEF Arg
<1> HIDE DEF N, M, y
<1>9. M = {y}
  BY <1>7, <1>8
<1>10. M = {Dimension(Text, a)}
  BY <1>4, <1>5, <1>6, <1>9, OneOf
<1> QED BY <1>9, <1>10 DEF y

\* The guard of a level.
LEMMA GuardIs ==
  ASSUME EmittedWrapper, kind = "E5", lengths[1] # kSequenceAxis, NEW i \in 1..NumLevels
  PROVE  LET lines == Text[Level(i)]
         IN /\ ConstantIn(lines, lengths[i]) = TestAt(i, 1)
            /\ \A a \in 1..3 : ComparisonIn(lines, lengths[i], a) = ComparisonAt(i, a)
            /\ FirstAndIn(lines, lengths[i]) = TestAt(i, 4)
            /\ FullGuardIn(lines, lengths[i]) = TestAt(i, 6)
<1> DEFINE lines == Text[Level(i)]
<1>1. NumLevels \in Nat \ {0} /\ IsSeq(lines) /\ Own(Level(i)) \subseteq Elements(lines)
  BY OwnInText
<1>2. NumArgs = 3 /\ lengths \in LengthLists
  BY ArgsCount DEF EmittedWrapper, Shaped
<1>3. i \in 1..NumLevels + 1
  BY <1>1
<1>4. ASSUME NEW v \in Elements(lines),
             OpAt(v).name \in {"arith.constant", "arith.cmpi", "arith.andi", "scf.if"}
      PROVE  \E j \in i..NumLevels : EmittedOp(j, v) /\ j \in 1..NumLevels
  <2>1. PICK j \in i..NumLevels : v \in Own(Level(j))
    BY <1>3, <1>4, EmittedBelow
  <2>2. j \in 1..NumLevels
    BY <1>1
  <2> QED BY <2>1, <2>2, EmittedOps
<1> HIDE DEF lines
<1>5. Only(lines, ConstantOp(lengths[i])) = TestAt(i, 1)
  <2>1. TestAt(i, 1) \in Elements(lines) /\ OpAt(TestAt(i, 1)) = ConstantOp(lengths[i])
    BY <1>1, EmittedHas
  <2>2. ASSUME NEW v \in Elements(lines), OpAt(v) = ConstantOp(lengths[i])
        PROVE  v = TestAt(i, 1)
    <3>1. OpAt(v).name = "arith.constant" /\ OpAt(v).value = lengths[i]
      BY <2>2 DEF ConstantOp
    <3>2. PICK j \in i..NumLevels : EmittedOp(j, v) /\ j \in 1..NumLevels
      BY <1>4, <3>1
    <3>3. \/ j = 1 /\ OpAt(v) = ConstantOp(kSequenceAxis)
          \/ v = TestAt(j, 1) /\ OpAt(v) = ConstantOp(lengths[j])
      BY <3>1, <3>2
      DEF EmittedOp, ConstantOp, DimOp, CmpOp, AndOp, IfOp, Terminator, YieldOp, ReturnOp
    <3>4. CASE j = 1 /\ OpAt(v) = ConstantOp(kSequenceAxis)
      <4>1. i = 1 /\ lengths[i] = kSequenceAxis
        BY <1>1, <3>1, <3>4 DEF ConstantOp
      <4> QED BY <4>1
    <3>5. CASE v = TestAt(j, 1) /\ OpAt(v) = ConstantOp(lengths[j])
      <4>1. lengths[j] = lengths[i]
        BY <3>1, <3>5 DEF ConstantOp
      <4>2. i = j
        <5>1. lengths \in Seq(Nat \ {0})
              /\ \A k, l \in DOMAIN lengths : k < l => lengths[k] < lengths[l]
          BY <1>2, LengthListsAssumption
        <5>2. DOMAIN lengths = 1..NumLevels /\ \A k \in 1..NumLevels : lengths[k] \in Nat
          BY <5>1 DEF NumLevels
        <5> QED BY <1>1, <3>2, <4>1, <5>1, <5>2
      <4> QED BY <3>5, <4>2
    <3> QED BY <3>3, <3>4, <3>5
  <2> QED BY <1>1, <2>1, <2>2, OnlyFinds
<1>6. ASSUME NEW a \in 1..3
      PROVE  Only(lines, CmpOp(SequenceLength(a), TestAt(i, 1))) = ComparisonAt(i, a)
  <2> DEFINE op == CmpOp(SequenceLength(a), TestAt(i, 1))
  <2>1. ComparisonAt(i, a) \in Elements(lines) /\ OpAt(ComparisonAt(i, a)) = op
    BY <1>1, EmittedHas
  <2>2. ASSUME NEW v \in Elements(lines), OpAt(v) = op
        PROVE  v = ComparisonAt(i, a)
    <3>1. OpAt(v).name = "arith.cmpi" /\ OpAt(v).lhs = SequenceLength(a) /\ OpAt(v).rhs = TestAt(i, 1)
      BY <2>2 DEF CmpOp
    <3>2. PICK j \in i..NumLevels : EmittedOp(j, v) /\ j \in 1..NumLevels
      BY <1>4, <3>1
    <3>3. PICK c \in 1..3 : v = ComparisonAt(j, c) /\ OpAt(v) = CmpOp(SequenceLength(c), TestAt(j, 1))
      BY <3>1, <3>2
      DEF EmittedOp, ConstantOp, DimOp, CmpOp, AndOp, IfOp, Terminator, YieldOp, ReturnOp
    <3>4. SequenceLength(c) = SequenceLength(a) /\ TestAt(j, 1) = TestAt(i, 1)
      BY <3>1, <3>3 DEF CmpOp
    <3>5. c = a
      BY <3>4 DEF SequenceLength, Val
    <3>6. j = i
      BY <1>1, <1>2, <3>2, <3>4, TestsDiffer
    <3> QED BY <3>3, <3>5, <3>6
  <2> HIDE DEF op
  <2>3. Only(lines, op) = ComparisonAt(i, a)
    BY <1>1, <2>1, <2>2, OnlyFinds
  <2> QED BY <2>3 DEF op
<1>7. ASSUME NEW v \in Elements(lines), OpAt(v).name = "arith.andi"
      PROVE  \E j \in 1..NumLevels :
               \/ v = TestAt(j, 4) /\ OpAt(v).lhs = TestAt(j, 2)
               \/ v = TestAt(j, 6) /\ OpAt(v).lhs = TestAt(j, 4)
  <2>1. PICK j \in i..NumLevels : EmittedOp(j, v) /\ j \in 1..NumLevels
    BY <1>4, <1>7
  <2>2. \/ v = TestAt(j, 4) /\ OpAt(v) = AndOp(ComparisonAt(j, 1), ComparisonAt(j, 2))
        \/ v = TestAt(j, 6) /\ OpAt(v) = AndOp(TestAt(j, 4), ComparisonAt(j, 3))
    BY <1>7, <2>1
    DEF EmittedOp, ConstantOp, DimOp, CmpOp, AndOp, IfOp, Terminator, YieldOp, ReturnOp
  <2>3. ComparisonAt(j, 1) = TestAt(j, 2)
    BY DEF ComparisonAt
  <2> QED BY <2>1, <2>2, <2>3 DEF AndOp
<1>8. Only(lines, AndOp(ComparisonAt(i, 1), ComparisonAt(i, 2))) = TestAt(i, 4)
  <2> DEFINE op == AndOp(ComparisonAt(i, 1), ComparisonAt(i, 2))
  <2>1. TestAt(i, 4) \in Elements(lines) /\ OpAt(TestAt(i, 4)) = op
    BY <1>1, EmittedHas
  <2>2. ASSUME NEW v \in Elements(lines), OpAt(v) = op
        PROVE  v = TestAt(i, 4)
    <3>1. OpAt(v).name = "arith.andi" /\ OpAt(v).lhs = TestAt(i, 2)
      BY <2>2 DEF AndOp, ComparisonAt
    <3>2. PICK j \in 1..NumLevels : \/ v = TestAt(j, 4) /\ OpAt(v).lhs = TestAt(j, 2)
                                    \/ v = TestAt(j, 6) /\ OpAt(v).lhs = TestAt(j, 4)
      BY <1>7, <3>1
    <3>3. TestAt(j, 4) # TestAt(i, 2)
      BY <1>1, <1>2, TestsDiffer
    <3>4. v = TestAt(j, 4) /\ TestAt(j, 2) = TestAt(i, 2)
      BY <3>1, <3>2, <3>3
    <3>5. j = i
      BY <1>1, <1>2, <3>4, TestsDiffer
    <3> QED BY <3>4, <3>5
  <2> HIDE DEF op
  <2>3. Only(lines, op) = TestAt(i, 4)
    BY <1>1, <2>1, <2>2, OnlyFinds
  <2> QED BY <2>3 DEF op
<1>9. Only(lines, AndOp(TestAt(i, 4), ComparisonAt(i, 3))) = TestAt(i, 6)
  <2> DEFINE op == AndOp(TestAt(i, 4), ComparisonAt(i, 3))
  <2>1. TestAt(i, 6) \in Elements(lines) /\ OpAt(TestAt(i, 6)) = op
    BY <1>1, EmittedHas
  <2>2. ASSUME NEW v \in Elements(lines), OpAt(v) = op
        PROVE  v = TestAt(i, 6)
    <3>1. OpAt(v).name = "arith.andi" /\ OpAt(v).lhs = TestAt(i, 4)
      BY <2>2 DEF AndOp
    <3>2. PICK j \in 1..NumLevels : \/ v = TestAt(j, 4) /\ OpAt(v).lhs = TestAt(j, 2)
                                    \/ v = TestAt(j, 6) /\ OpAt(v).lhs = TestAt(j, 4)
      BY <1>7, <3>1
    <3>3. TestAt(j, 2) # TestAt(i, 4)
      BY <1>1, <1>2, TestsDiffer
    <3>4. v = TestAt(j, 6) /\ TestAt(j, 4) = TestAt(i, 4)
      BY <3>1, <3>2, <3>3
    <3>5. j = i
      BY <1>1, <1>2, <3>4, TestsDiffer
    <3> QED BY <3>4, <3>5
  <2> HIDE DEF op
  <2>3. Only(lines, op) = TestAt(i, 6)
    BY <1>1, <2>1, <2>2, OnlyFinds
  <2> QED BY <2>3 DEF op
<1>10. ConstantIn(lines, lengths[i]) = TestAt(i, 1)
  BY <1>5 DEF ConstantIn
<1>11. \A a \in 1..3 : ComparisonIn(lines, lengths[i], a) = ComparisonAt(i, a)
  BY <1>6, <1>10, DimensionIs DEF ComparisonIn
<1>12. FirstAndIn(lines, lengths[i]) = TestAt(i, 4)
  BY <1>8, <1>11 DEF FirstAndIn
<1>13. FullGuardIn(lines, lengths[i]) = TestAt(i, 6)
  BY <1>9, <1>11, <1>12 DEF FullGuardIn
<1> QED BY <1>10, <1>11, <1>12, <1>13 DEF lines

-----------------------------------------------------------------------------
\* The branch of a level is its scf.if.
LEMMA BranchIs ==
  ASSUME EmittedWrapper, kind = "E5", lengths[1] # kSequenceAxis, NEW i \in 1..NumLevels
  PROVE  DispatchBranch(Text, Text[Level(i)], lengths[i]) = Val(Level(i), IfPos(i))
<1> DEFINE lines      == Text[Level(i)]
           comparison == [a \in 1..3 |-> ComparisonIn(lines, lengths[i], a)]
           guard      == Only(lines, AndOp(Only(lines, AndOp(comparison[1], comparison[2])),
                                           comparison[3]))
           N == {v \in SE!ToSet(lines) : OpAt(v).name = "scf.if" /\ OpAt(v).cond = guard}
           branch     == DispatchBranch(Text, lines, lengths[i])
           y          == Val(Level(i), IfPos(i))
<1>1. branch = IF Cardinality(N) = 1 THEN CHOOSE v \in N : TRUE ELSE NoMatch
  BY Zenon DEF DispatchBranch, one_match, ComparisonIn, ConstantIn
<1>2. guard = TestAt(i, 6)
  <2>1. /\ comparison[1] = ComparisonIn(lines, lengths[i], 1)
        /\ comparison[2] = ComparisonIn(lines, lengths[i], 2)
        /\ comparison[3] = ComparisonIn(lines, lengths[i], 3)
    OBVIOUS
  <2> HIDE DEF comparison
  <2>2. guard = FullGuardIn(lines, lengths[i])
    BY <2>1 DEF FullGuardIn, FirstAndIn
  <2> QED BY <2>2, GuardIs
<1>3. NumLevels \in Nat \ {0} /\ IsSeq(lines) /\ Own(Level(i)) \subseteq Elements(lines)
  BY OwnInText
<1>4. NumArgs = 3 /\ i \in 1..NumLevels + 1
  BY <1>3, ArgsCount DEF EmittedWrapper, Shaped
<1> DEFINE M == {v \in Elements(lines) : OpAt(v).name = "scf.if" /\ OpAt(v).cond = TestAt(i, 6)}
<1> HIDE DEF guard, branch
<1>5. N = M
  BY <1>2, <1>3, ToSetIs
<1>6. IsFiniteSet(M)
  BY <1>3, SeqFinite, FS_Subset
<1>7. y \in M
  <2>1. y \in Own(Level(i)) /\ OpAt(y) = IfOp(TestAt(i, 6), Then(i), Level(i + 1))
    BY EmittedHas
  <2> QED BY <1>3, <2>1 DEF IfOp
<1>8. ASSUME NEW v \in M PROVE v = y
  <2>1. v \in Elements(lines) /\ OpAt(v).name = "scf.if" /\ OpAt(v).cond = TestAt(i, 6)
    OBVIOUS
  <2>2. PICK j \in i..NumLevels : v \in Own(Level(j))
    BY <1>4, <2>1, EmittedBelow
  <2>3. j \in 1..NumLevels
    BY <1>3
  <2>4. EmittedOp(j, v)
    BY <2>2, <2>3, EmittedOps
  <2>5. v = Val(Level(j), IfPos(j)) /\ OpAt(v) = IfOp(TestAt(j, 6), Then(j), Level(j + 1))
    BY <2>1, <2>4
    DEF EmittedOp, ConstantOp, DimOp, CmpOp, AndOp, IfOp, Terminator, YieldOp, ReturnOp
  <2>6. TestAt(j, 6) = TestAt(i, 6)
    BY <2>1, <2>5 DEF IfOp
  <2>7. j = i
    BY <1>3, <1>4, <2>3, <2>6, TestsDiffer
  <2> QED BY <2>5, <2>7
<1> HIDE DEF N, M, y
<1>9. M = {y}
  BY <1>7, <1>8
<1>10. M = {branch}
  BY <1>1, <1>5, <1>6, <1>9, OneOf
<1> QED BY <1>9, <1>10 DEF y, branch

\* A leaf that yields the result of its call.
LEMMA LeafYields ==
  ASSUME Shaped, NEW b \in 1..Fallback, NEW c \in 1..Len(blocks[b]) - 1, IsLeafOf(blocks[b], c),
         blocks[b][Len(blocks[b])] = YieldOp(Val(b, c))
  PROVE  /\ OnlyCall(Text[b]) = Val(b, c)
         /\ Only(Text[b], YieldOp(OnlyCall(Text[b]))) # NoMatch
<1> DEFINE y == Val(b, Len(blocks[b]))
           op == YieldOp(Val(b, c))
<1>1. IsSeq(Text[b]) /\ Len(blocks[b]) \in Nat /\ IsLeaf(b)
  BY TextSeqs, ShapedNumbers DEF IsLeaf
<1>2. Elements(Text[b]) = Own(b) /\ Len(blocks[b]) \in 1..Len(blocks[b])
  BY <1>1, TextElements
<1>3. OnlyCall(Text[b]) = Val(b, c)
  <2>1. \A v : v \in Elements(Text[b]) /\ OpAt(v).name = "func.call" <=> v = Val(b, c)
    BY LeafCall
  <2> QED BY <1>1, <2>1, OnlyCallIs
<1>4. y \in Elements(Text[b]) /\ OpAt(y) = op
  BY <1>2 DEF Own, OpAt, Val
<1>5. ASSUME NEW v \in Elements(Text[b]), OpAt(v) = op PROVE v = y
  <2>1. v = Val(b, v[2]) /\ v[2] \in 1..Len(blocks[b]) /\ OpAt(v) = blocks[b][v[2]]
    BY <1>2, OwnIs
  <2>2. blocks[b][v[2]].name = "scf.yield"
    BY <1>5, <2>1 DEF YieldOp
  <2>3. v[2] = Len(blocks[b])
    BY <2>1, <2>2 DEF IsLeafOf, LeafName
  <2> QED BY <2>1, <2>3
<1> HIDE DEF y, op
<1>6. Only(Text[b], op) = y
  BY <1>1, <1>4, <1>5, OnlyFinds
<1>7. y # NoMatch
  BY ValIsMatch DEF y
<1> QED BY <1>3, <1>6, <1>7 DEF op

\* The then region of a level is accepted.
LEMMA StaticBranchIsOk ==
  ASSUME EmittedWrapper, kind = "E5", NEW i \in 1..NumLevels
  PROVE  StaticBranchOk(Text[Then(i)], lengths[i])
<1> DEFINE b == Then(i)
<1>1. NumArgs = 3 /\ ResultIsStatic /\ ThenLen = 5
  BY ArgsCount DEF EmittedWrapper, Shaped, ResultIsStatic, ThenLen
<1>2. Shaped /\ b \in 1..Fallback
  BY ShapedNumbers DEF EmittedWrapper
<1>3. /\ IsLeafOf(blocks[b], 4) /\ Len(blocks[b]) = 5 /\ 4 \in 1..Len(blocks[b]) - 1
      /\ blocks[b][4].callee = Static(lengths[i])
      /\ blocks[b][5] = YieldOp(Val(b, 4))
  <2>1. IsThen(blocks[b], i) /\ IsLeafOf(blocks[b], NumArgs + 1) /\ NumArgs + 1 = 4
    BY <1>1 DEF EmittedWrapper
  <2>2. Len(blocks[b]) = 5 /\ blocks[b][5] = YieldOp(Val(b, 4))
    BY <1>1, <2>1 DEF IsThen
  <2>3. blocks[b][4].callee = Static(lengths[i])
    BY <2>1 DEF IsThen, CallOp
  <2> QED BY <2>1, <2>2, <2>3
<1> HIDE DEF b
<1>4. Calls(Text[b]) = <<Static(lengths[i])>>
  BY <1>2, <1>3, CallsOfLeaf
<1>5. Only(Text[b], YieldOp(OnlyCall(Text[b]))) # NoMatch
  BY <1>2, <1>3, LeafYields
<1> QED BY <1>4, <1>5 DEF StaticBranchOk, b

\* So is the fallback.
LEMMA FallbackIsOk ==
  ASSUME EmittedWrapper, kind = "E5"
  PROVE  FallbackOk(Text[Fallback])
<1> DEFINE b == Fallback
<1>1. Shaped /\ b \in 1..Fallback /\ IsLeaf(b)
  <2>1. Shaped /\ Fallback = 2 * NumLevels + 1 /\ NumLevels \in Nat
    BY ShapedNumbers DEF EmittedWrapper
  <2> QED BY <2>1 DEF Shaped
<1>2. NumInputs = NumArgs
  BY <1>1, ArgsCount DEF Shaped, NumInputs
<1>3. /\ IsLeafOf(blocks[b], 1) /\ Len(blocks[b]) = 2 /\ 1 \in 1..Len(blocks[b]) - 1
      /\ blocks[b][1].callee = Generic /\ blocks[b][1].operands = [a \in 1..NumArgs |-> Arg(a)]
      /\ blocks[b][2] = YieldOp(Val(b, 1))
  <2>1. IsFallback(blocks[b]) /\ IsLeafOf(blocks[b], 1)
    BY DEF EmittedWrapper
  <2> QED BY <1>2, <2>1 DEF IsFallback, CallOp
<1> HIDE DEF b
<1>4. Calls(Text[b]) = <<Generic>>
  BY <1>1, <1>3, CallsOfLeaf
<1>5. /\ OnlyCall(Text[b]) = Val(b, 1)
      /\ Only(Text[b], YieldOp(OnlyCall(Text[b]))) # NoMatch
  BY <1>1, <1>3, LeafYields
<1>6. OpAt(Val(b, 1)) = blocks[b][1]
  BY DEF OpAt, Val
<1>7. \A v \in SE!ToSet(Text[b]) : OpAt(v).name # "scf.if"
  <2>1. SE!ToSet(Text[b]) = Own(b)
    BY <1>1, TextSeqs, ToSetIs, TextElements
  <2>2. ASSUME NEW v \in Own(b) PROVE OpAt(v).name # "scf.if"
    <3>1. v[2] \in 1..Len(blocks[b]) /\ OpAt(v) = blocks[b][v[2]]
      BY <1>1, OwnIs
    <3> QED BY <1>3, <3>1 DEF IsLeafOf, LeafName
  <2> QED BY <2>1, <2>2
<1> QED BY <1>3, <1>4, <1>5, <1>6, <1>7 DEF FallbackOk, b

\* Every level is in place.
LEMMA LevelsAreOk ==
  ASSUME EmittedWrapper, kind = "E5", lengths[1] # kSequenceAxis
  PROVE  LevelsOk(Text)
<1>1. PICK n \in Nat \ {0} : n = NumLevels /\ n = Len(lengths)
  BY ShapedNumbers DEF EmittedWrapper, NumLevels
<1>2. PICK ok : IsOkFrom(ok, 1) /\ (LevelsOk(Text) <=> 1 \in ok[1])
  BY <1>1, LevelsOkIs
<1>3. \A i \in 1..n + 1 : ok[i] = Remaining(i, ok[i + 1])
  BY <1>1, <1>2 DEF IsOkFrom
<1>4. /\ DOMAIN blocks = 1..Fallback /\ Level(n + 1) = Fallback /\ Level(1) = 1
      /\ Fallback \in 1..Fallback /\ \A i \in 1..n : Level(i) \in 1..Fallback
  <2>1. Fallback = 2 * n + 1 /\ Level(n + 1) = 2 * (n + 1) - 1 /\ Level(1) = 1
    BY <1>1 DEF Fallback, Level
  <2>2. Shaped
    BY DEF EmittedWrapper
  <2> QED BY <1>1, <2>1, <2>2, ShapedNumbers
<1> DEFINE T == {i \in 1..n + 1 : Level(i) \in ok[i]}
<1>5. n + 1 \in T
  <2>1. n + 1 \in 1..n + 1 /\ n + 1 > Len(lengths)
    BY <1>1
  <2>2. Fallback \in Remaining(n + 1, ok[n + 1 + 1])
    BY <1>4, <2>1, FallbackIsOk DEF Remaining
  <2> QED BY <1>3, <1>4, <2>1, <2>2
<1>6. ASSUME NEW i \in 1..(n + 1) - 1, i + 1 \in T PROVE i \in T
  <2>1. i \in 1..n /\ i \in 1..n + 1 /\ ~ (i > Len(lengths)) /\ i \in 1..NumLevels
    BY <1>1
  <2> DEFINE branch == DispatchBranch(Text, Text[Level(i)], lengths[i])
  <2>2. branch = Val(Level(i), IfPos(i))
    BY <2>1, BranchIs
  <2> HIDE DEF branch
  <2>3. OpAt(branch).then = Then(i) /\ OpAt(branch).else = Level(i + 1)
    <3>1. OpAt(branch) = IfOp(TestAt(i, 6), Then(i), Level(i + 1))
      BY <2>1, <2>2, EmittedHas
    <3> QED BY <3>1 DEF IfOp
  <2>4. branch # NoMatch
    BY <2>2, ValIsMatch
  <2>5. StaticBranchOk(Text[OpAt(branch).then], lengths[i])
    BY <2>1, <2>3, StaticBranchIsOk
  <2>6. OpAt(branch).else \in ok[i + 1]
    BY <1>6, <2>3
  <2>7. LevelOk(i, Level(i), ok[i + 1])
    BY <2>4, <2>5, <2>6 DEF LevelOk, branch
  <2>8. Level(i) \in Remaining(i, ok[i + 1])
    BY <1>4, <2>1, <2>7 DEF Remaining
  <2> QED BY <1>3, <2>1, <2>8
<1>7. 1..n + 1 \subseteq T
  <2>1. 1 \in Nat /\ n + 1 \in Nat /\ n + 1 \in T /\ \A i \in 1..(n + 1) - 1 : i + 1 \in T => i \in T
    BY <1>5, <1>6
  <2> HIDE DEF T
  <2> QED BY <2>1, DownTo
<1>8. 1 \in T
  <2>1. 1 \in 1..n + 1
    OBVIOUS
  <2> HIDE DEF T
  <2> QED BY <1>7, <2>1
<1> QED BY <1>2, <1>4, <1>8

-----------------------------------------------------------------------------
\* The emitted wrapper calls the clones in the order of their lengths, and the
\* generic function last.
LEMMA CallsInOrder ==
  ASSUME EmittedWrapper
  PROVE  Calls(Text[1]) = ExpectedCalls
<1>1. PICK n \in Nat \ {0} : n = NumLevels /\ DOMAIN lengths = 1..n
  BY ShapedNumbers DEF EmittedWrapper
<1>2. Shaped /\ Level(n + 1) = Fallback /\ Level(1) = 1 /\ Fallback \in 1..Fallback
  <2>1. Fallback = 2 * n + 1 /\ Level(n + 1) = 2 * (n + 1) - 1 /\ Level(1) = 1
    BY <1>1 DEF Fallback, Level
  <2> QED BY <1>1, <2>1 DEF EmittedWrapper
<1> DEFINE Following(j) == [k \in 1..n + 2 - j |-> Name(j + k - 1)]
           T == {j \in 1..n + 1 : Calls(Text[Level(j)]) = Following(j)}
<1>3. ASSUME NEW j \in 1..n + 1
      PROVE  IsSeq(Following(j)) /\ Len(Following(j)) = n + 2 - j
  <2>1. n + 2 - j \in Nat
    OBVIOUS
  <2> DEFINE f == Following(j)
  <2>2. f = [k \in 1..n + 2 - j |-> f[k]]
    OBVIOUS
  <2> HIDE DEF f
  <2>3. IsSeq(f) /\ Len(f) = n + 2 - j
    BY <2>1, <2>2, FunctionIsSeq
  <2> QED BY <2>3 DEF f
<1>4. n + 1 \in T
  <2>1. Calls(Text[Fallback]) = <<Generic>>
    <3>1. IsFallback(blocks[Fallback]) /\ IsLeafOf(blocks[Fallback], 1) /\ 1 \in 1..Len(blocks[Fallback]) - 1
      BY DEF EmittedWrapper, IsFallback
    <3>2. blocks[Fallback][1].callee = Generic
      BY <3>1 DEF IsFallback, CallOp
    <3> QED BY <1>2, <3>1, <3>2, CallsOfLeaf
  <2>2. Following(n + 1) = <<Generic>>
    <3> DEFINE f == Following(n + 1)
               g == <<Generic>>
    <3>1. IsSeq(f) /\ Len(f) = 1
      <4>1. n + 1 \in 1..n + 1 /\ n + 2 - (n + 1) = 1
        OBVIOUS
      <4> QED BY <1>3, <4>1
    <3>2. f[1] = Generic
      BY <1>1 DEF Name
    <3>3. IsSeq(g) /\ Len(g) = 1 /\ g[1] = Generic
      BY SingletonIsSeq
    <3> HIDE DEF f, g
    <3>4. f = g
      BY <3>1, <3>2, <3>3, EqualSeqs
    <3> QED BY <3>4 DEF f, g
  <2> QED BY <1>2, <2>1, <2>2
<1>5. ASSUME NEW i \in 1..(n + 1) - 1, i + 1 \in T PROVE i \in T
  <2>1. i \in 1..NumLevels /\ i \in 1..n + 1 /\ i + 1 \in 1..n + 1 /\ i \in 1..n
    BY <1>1
  <2>2. IsChain(i) /\ If(i).then = Then(i) /\ If(i).else = Level(i + 1)
    <3>1. IsChain(i) /\ IsLevel(blocks[Level(i)], i)
      BY <2>1 DEF EmittedWrapper
    <3>2. If(i) = IfOp(Val(Level(i), Base(i) + 2 * NumArgs), Then(i), Level(i + 1))
      BY <3>1 DEF IsLevel, If
    <3> QED BY <3>1, <3>2 DEF IfOp
  <2>3. Calls(Text[Then(i)]) = <<Static(lengths[i])>>
    <3>1. /\ IsThen(blocks[Then(i)], i) /\ IsLeafOf(blocks[Then(i)], NumArgs + 1)
          /\ NumArgs + 1 \in 1..Len(blocks[Then(i)]) - 1
      BY <2>1 DEF EmittedWrapper, IsLeafOf
    <3>2. blocks[Then(i)][NumArgs + 1].callee = Static(lengths[i])
      BY <3>1 DEF IsThen, CallOp
    <3>3. Then(i) \in 1..Fallback
      BY <1>2, <2>1, ShapedNumbers
    <3> QED BY <1>2, <3>1, <3>2, <3>3, CallsOfLeaf
  <2> DEFINE s == <<Static(lengths[i])>>
             t == Following(i + 1)
             f == Following(i)
  <2>4. IsSeq(s) /\ Len(s) = 1 /\ s[1] = Name(i)
    BY <1>1, <2>1, SingletonIsSeq DEF Name
  <2>5. /\ IsSeq(t) /\ Len(t) = n + 1 - i /\ IsSeq(f) /\ Len(f) = n + 2 - i
        /\ \A k \in 1..n + 1 - i : t[k] = Name(i + k)
        /\ \A k \in 1..n + 2 - i : f[k] = Name(i + k - 1)
    <3>1. n + 2 - (i + 1) = n + 1 - i
      BY <2>1
    <3>2. /\ IsSeq(t) /\ Len(t) = n + 1 - i /\ IsSeq(f) /\ Len(f) = n + 2 - i
      BY <1>3, <2>1, <3>1
    <3>3. \A k \in 1..n + 1 - i : t[k] = Name(i + k)
      <4>1. \A k \in 1..n + 1 - i : t[k] = Name(i + 1 + k - 1) /\ i + 1 + k - 1 = i + k
        BY <2>1, <3>1
      <4> QED BY <4>1
    <3> QED BY <3>2, <3>3
  <2> HIDE DEF s, t, f
  <2>6. s \o t = f
    <3> DEFINE c == s \o t
    <3>1. /\ IsSeq(c) /\ Len(c) = 1 + (n + 1 - i) /\ c[1] = s[1]
          /\ \A k \in 2..1 + (n + 1 - i) : c[k] = t[k - 1]
      <4>1. /\ IsSeq(c) /\ Len(c) = Len(s) + Len(t) /\ \A k \in 1..Len(s) : c[k] = s[k]
            /\ \A k \in Len(s) + 1..Len(s) + Len(t) : c[k] = t[k - Len(s)]
        BY <2>4, <2>5, ConcatIsSeq
      <4> HIDE DEF c
      <4> QED BY <2>1, <2>4, <2>5, <4>1
    <3> HIDE DEF c
    <3>2. ASSUME NEW k \in 1..Len(c) PROVE c[k] = f[k]
      <4>1. CASE k = 1
        <5>1. 1 \in 1..n + 2 - i /\ i + 1 - 1 = i
          BY <2>1
        <5> QED BY <2>4, <2>5, <3>1, <4>1, <5>1
      <4>2. CASE k # 1
        <5>1. /\ k \in 2..1 + (n + 1 - i) /\ k - 1 \in 1..n + 1 - i /\ k \in 1..n + 2 - i
              /\ i + (k - 1) = i + k - 1
          BY <2>1, <3>1, <4>2
        <5> QED BY <2>5, <3>1, <5>1
      <4> QED BY <4>1, <4>2
    <3>3. Len(c) = Len(f)
      BY <2>1, <2>5, <3>1
    <3>4. c = f
      BY <2>5, <3>1, <3>2, <3>3, EqualSeqs
    <3> QED BY <3>4 DEF c
  <2>7. Calls(Text[Level(i + 1)]) = t
    BY <1>5 DEF t
  <2>8. Calls(Text[Level(i)]) = s \o t
    BY <1>2, <2>1, <2>2, <2>3, <2>7, CallsOfLevel DEF s
  <2> QED BY <2>1, <2>6, <2>8 DEF f
<1>6. 1 \in T
  <2>1. 1 \in Nat /\ n + 1 \in Nat /\ n + 1 \in T /\ \A i \in 1..(n + 1) - 1 : i + 1 \in T => i \in T
    BY <1>4, <1>5
  <2>2. 1 \in 1..n + 1
    OBVIOUS
  <2> HIDE DEF T
  <2> QED BY <2>1, <2>2, DownTo
<1>7. Following(1) = ExpectedCalls
  <2> DEFINE s == [i \in 1..n |-> Static(lengths[i])]
             t == <<Generic>>
             f == Following(1)
  <2>1. IsSeq(s) /\ Len(s) = n
    <3>1. s = [k \in 1..n |-> s[k]]
      OBVIOUS
    <3> HIDE DEF s
    <3> QED BY <3>1, FunctionIsSeq
  <2>2. \A k \in 1..n : s[k] = Name(k)
    BY <1>1 DEF Name
  <2>3. IsSeq(t) /\ Len(t) = 1 /\ t[1] = Name(n + 1)
    BY <1>1, SingletonIsSeq DEF Name
  <2>4. IsSeq(f) /\ Len(f) = n + 1 /\ \A k \in 1..n + 1 : f[k] = Name(k)
    <3>1. 1 \in 1..n + 1 /\ n + 2 - 1 = n + 1
      OBVIOUS
    <3>2. IsSeq(f) /\ Len(f) = n + 1
      BY <1>3, <3>1
    <3>3. \A k \in 1..n + 1 : f[k] = Name(1 + k - 1) /\ 1 + k - 1 = k
      BY <3>1
    <3> QED BY <3>2, <3>3
  <2>5. ExpectedCalls = s \o t
    BY <1>1 DEF ExpectedCalls
  <2> HIDE DEF s, t, f
  <2> DEFINE c == s \o t
  <2>6. /\ IsSeq(c) /\ Len(c) = n + 1 /\ \A k \in 1..n : c[k] = s[k]
        /\ \A k \in n + 1..n + 1 : c[k] = t[k - n]
    <3>1. /\ IsSeq(c) /\ Len(c) = Len(s) + Len(t) /\ \A k \in 1..Len(s) : c[k] = s[k]
          /\ \A k \in Len(s) + 1..Len(s) + Len(t) : c[k] = t[k - Len(s)]
      BY <2>1, <2>3, ConcatIsSeq
    <3> HIDE DEF c
    <3> QED BY <2>1, <2>3, <3>1
  <2> HIDE DEF c
  <2>7. ASSUME NEW k \in 1..Len(c) PROVE c[k] = f[k]
    <3>1. CASE k \in 1..n
      BY <2>2, <2>4, <2>6, <3>1
    <3>2. CASE k = n + 1
      <4>1. k \in n + 1..n + 1 /\ k - n = 1 /\ k \in 1..n + 1
        BY <3>2
      <4> QED BY <2>3, <2>4, <2>6, <3>2, <4>1
    <3> QED BY <2>6, <3>1, <3>2
  <2>8. c = f
    BY <2>4, <2>6, <2>7, EqualSeqs
  <2> QED BY <2>5, <2>8 DEF c, f
<1>8. Calls(Text[Level(1)]) = Following(1)
  BY <1>6
<1> QED BY <1>2, <1>7, <1>8

\* Its dimensions are those of the sequence axis.
LEMMA ReadsAxis ==
  ASSUME EmittedWrapper, kind = "E5"
  PROVE  DimensionsReadAxis(Text)
<1>1. NumArgs = 3 /\ NumLevels \in Nat \ {0}
  BY ArgsCount, ShapedNumbers DEF EmittedWrapper, Shaped
<1>2. 1 \in 1..NumLevels
  BY <1>1
<1>3. IsSeq(Text[1]) /\ Own(1) \subseteq Elements(Text[1])
  BY <1>2, OwnInText
<1> DEFINE axis == Val(1, 1)
<1>4. /\ axis \in Own(1) /\ OpAt(axis) = ConstantOp(kSequenceAxis)
      /\ \A a \in 1..3 : OpAt(SequenceLength(a)) = DimOp(Arg(a), axis)
  BY <1>2, EmittedHas
<1>5. axis \in SE!ToSet(Text[1])
  BY <1>3, <1>4, ToSetIs
<1>6. ASSUME NEW a \in 1..NumArgs
      PROVE  Dimension(Text, a) # NoMatch /\ OpAt(Dimension(Text, a)).axis = axis
  <2>1. Dimension(Text, a) = SequenceLength(a)
    BY <1>1, DimensionIs
  <2>2. SequenceLength(a) # NoMatch
    BY ValIsMatch DEF SequenceLength
  <2> QED BY <1>1, <1>4, <2>1, <2>2 DEF DimOp
<1> HIDE DEF axis
<1> QED BY <1>4, <1>5, <1>6 DEF DimensionsReadAxis

\* It returns the result of its outermost scf.if.
LEMMA ReturnsResult ==
  ASSUME EmittedWrapper, kind = "E5", lengths[1] # kSequenceAxis
  PROVE  ReturnsOuterResult(Text)
<1>1. NumLevels \in Nat \ {0} /\ Shaped
  BY ShapedNumbers DEF EmittedWrapper
<1>2. 1 \in 1..NumLevels /\ 1 \in 1..NumLevels + 1
  BY <1>1
<1>3. IsSeq(Text[1]) /\ Own(1) \subseteq Elements(Text[1]) /\ Level(1) = 1
  BY <1>2, OwnInText
<1>4. DispatchBranch(Text, Text[1], lengths[1]) = Val(1, IfPos(1))
  BY <1>2, <1>3, BranchIs
<1> DEFINE op == ReturnOp(Val(1, IfPos(1)))
           y  == Val(1, IfPos(1) + 1)
<1>5. y \in Own(1) /\ OpAt(y) = op
  BY <1>2, <1>3, EmittedHas DEF Terminator
<1>6. ASSUME NEW v \in Elements(Text[1]), OpAt(v) = op PROVE v = y
  <2>1. OpAt(v).name = "func.return"
    BY <1>6 DEF ReturnOp
  <2>2. PICK j \in 1..NumLevels : v \in Own(Level(j))
    BY <1>2, <1>3, <2>1, EmittedBelow
  <2>3. EmittedOp(j, v)
    BY <2>2, EmittedOps
  <2>4. v = Val(Level(j), IfPos(j) + 1) /\ OpAt(v) = Terminator(j)
    BY <2>1, <2>3 DEF EmittedOp, ConstantOp, DimOp, CmpOp, AndOp, IfOp, ReturnOp
  <2>5. j = 1
    BY <2>1, <2>4 DEF Terminator, YieldOp
  <2> QED BY <1>3, <2>4, <2>5
<1> HIDE DEF op, y
<1>7. Only(Text[1], op) = y
  BY <1>3, <1>5, <1>6, OnlyFinds
<1>8. y # NoMatch
  BY ValIsMatch DEF y
<1> QED BY <1>4, <1>7, <1>8 DEF ReturnsOuterResult, op

\* So check_dispatch_wrapper accepts what the pass emits.
LEMMA EmittedIsOk ==
  ASSUME EmittedWrapper, kind = "E5", lengths[1] # kSequenceAxis
  PROVE  WrapperOk(Text)
  BY CallsInOrder, ReadsAxis, ReturnsResult, LevelsAreOk DEF WrapperOk

-----------------------------------------------------------------------------
\* What the k-th function is given.
Given(k) == [j \in 1..NumInputs |-> IF k <= NumLevels /\ j <= NumArgs THEN Val(Then(k), j) ELSE Arg(j)]

\* A call of the emitted wrapper is one of those.
LEMMA CallIs ==
  ASSUME EmittedWrapper, NEW v \in Elements(Text[1]), OpAt(v).name = "func.call"
  PROVE  \E k \in 1..NumLevels + 1 : OpAt(v).callee = Name(k) /\ OpAt(v).operands = Given(k)
<1>1. Shaped /\ NumLevels \in Nat \ {0}
  BY ShapedNumbers DEF EmittedWrapper
<1>2. PICK b \in 1..Fallback : /\ InTree(b) /\ v[2] \in 1..Len(blocks[b]) - 1
                               /\ IsLeafOf(blocks[b], v[2]) /\ OpAt(v) = blocks[b][v[2]]
  BY <1>1, CallInLeaf
<1>3. PICK k \in 1..NumLevels + 1 : b = Leaf(k)
  BY <1>1, <1>2, InTreeLeaf DEF IsLeaf
<1>4. CASE k = NumLevels + 1
  <2>1. b = Fallback
    BY <1>1, <1>3, <1>4 DEF Leaf, Level, Fallback
  <2>2. IsFallback(blocks[b]) /\ IsLeafOf(blocks[b], 1)
    BY <2>1 DEF EmittedWrapper
  <2>3. v[2] = 1
    <3>1. 1 \in 1..Len(blocks[b]) /\ blocks[b][1].name = "func.call"
      BY <2>2 DEF IsFallback, CallOp
    <3> QED BY <1>2, <3>1, OneCall
  <2>4. OpAt(v) = CallOp(Generic, [j \in 1..NumInputs |-> Arg(j)])
    BY <1>2, <2>2, <2>3 DEF IsFallback
  <2>5. ~ (k <= NumLevels)
    BY <1>1, <1>4
  <2>6. Given(k) = [j \in 1..NumInputs |-> Arg(j)] /\ Name(k) = Generic
    BY <2>5 DEF Given, Name
  <2> QED BY <2>4, <2>6 DEF CallOp
<1>5. CASE k # NumLevels + 1
  <2>1. k \in 1..NumLevels /\ k <= NumLevels
    BY <1>1, <1>5
  <2>2. /\ IsChain(k) /\ IsThen(blocks[Then(k)], k) /\ IsLeafOf(blocks[Then(k)], NumArgs + 1)
    BY <2>1 DEF EmittedWrapper
  <2>3. b = Then(k)
    BY <1>3, <2>1, <2>2 DEF Leaf
  <2>4. v[2] = NumArgs + 1
    <3>1. blocks[b][NumArgs + 1].name = "func.call"
      BY <2>2, <2>3 DEF IsThen, CallOp
    <3>2. NumArgs + 1 \in 1..Len(blocks[b])
      <4>1. NumArgs + 1 \in 1..Len(blocks[b]) - 1
        BY <2>2, <2>3 DEF IsLeafOf
      <4>2. Len(blocks[b]) \in Nat
        BY <1>1, ShapedNumbers
      <4> QED BY <4>1, <4>2
    <3> QED BY <1>2, <3>1, <3>2, OneCall
  <2> DEFINE given == [j \in 1..NumInputs |-> IF j <= NumArgs THEN Val(Then(k), j) ELSE Arg(j)]
  <2>5. OpAt(v) = CallOp(Static(lengths[k]), given)
    BY <1>2, <2>2, <2>3, <2>4 DEF IsThen
  <2>6. Given(k) = given /\ Name(k) = Static(lengths[k])
    BY <2>1 DEF Given, Name
  <2> HIDE DEF given
  <2> QED BY <2>5, <2>6 DEF CallOp
<1> QED BY <1>4, <1>5

\* The last call of a function is its only one.
LEMMA ArgsOf ==
  ASSUME EmittedWrapper, NEW k \in 1..NumLevels + 1
  PROVE  parse_call_args(Text, Name(k)) = Given(k)
<1>1. Shaped /\ NumLevels \in Nat \ {0} /\ lengths \in LengthLists /\ DOMAIN lengths = 1..NumLevels
  BY ShapedNumbers DEF EmittedWrapper, Shaped
<1>2. IsSeq(Text[1])
  <2>1. 1 \in 1..Fallback
    BY <1>1, ShapedNumbers
  <2> QED BY <1>1, <2>1, TextSeqs
<1>3. Name(k) \in Elements(Calls(Text[1]))
  <2> DEFINE s == [i \in 1..NumLevels |-> Static(lengths[i])]
             t == <<Generic>>
  <2>1. IsSeq(s) /\ Len(s) = NumLevels
    <3>1. s = [i \in 1..NumLevels |-> s[i]]
      OBVIOUS
    <3> HIDE DEF s
    <3> QED BY <1>1, <3>1, FunctionIsSeq
  <2>2. IsSeq(t) /\ Len(t) = 1 /\ t[1] = Generic
    BY SingletonIsSeq
  <2>3. Calls(Text[1]) = s \o t
    BY <1>1, CallsInOrder DEF ExpectedCalls
  <2>4. k \in 1..NumLevels => Name(k) = s[k]
    BY <1>1 DEF Name
  <2>5. k \notin 1..NumLevels => Name(k) = t[1]
    BY <1>1, <2>2 DEF Name
  <2> HIDE DEF s, t
  <2>6. Elements(s \o t) = Elements(s) \cup Elements(t)
    BY <2>1, <2>2, ConcatElements
  <2>7. Name(k) \in Elements(s) \cup Elements(t)
    BY <1>1, <2>1, <2>2, <2>4, <2>5 DEF Elements
  <2> QED BY <2>3, <2>6, <2>7
<1>4. \E v \in Elements(Text[1]) : OpAt(v).name = "func.call" /\ OpAt(v).callee = Name(k)
  BY <1>2, <1>3, CallsElements
<1>5. PICK v \in Elements(Text[1]) : /\ OpAt(v).name = "func.call" /\ OpAt(v).callee = Name(k)
                                     /\ OpAt(v).operands = parse_call_args(Text, Name(k))
  BY <1>2, <1>4, LastCall
<1>6. PICK j \in 1..NumLevels + 1 : OpAt(v).callee = Name(j) /\ OpAt(v).operands = Given(j)
  BY <1>5, CallIs
<1>7. j = k
  BY <1>1, <1>5, <1>6, NamesDiffer
<1> QED BY <1>5, <1>6, <1>7

\* So the accounting accepts what the pass emits.
LEMMA EmittedForwards ==
  ASSUME EmittedWrapper, kind # "E5"
  PROVE  Forwards(Text)
<1>1. PICK n \in Nat : n = NumLevels /\ DOMAIN lengths = 1..n
  BY ShapedNumbers DEF EmittedWrapper
<1>2. NumArgs = 1 /\ NumInputs \in Nat \ {0}
  BY ArgsCount DEF EmittedWrapper, Shaped
<1>3. parse_call_args(Text, Generic) = [a \in 1..NumInputs |-> Arg(a)]
  <2>1. n + 1 \in 1..NumLevels + 1 /\ ~ (n + 1 <= NumLevels)
    BY <1>1
  <2>2. Name(n + 1) = Generic /\ Given(n + 1) = [a \in 1..NumInputs |-> Arg(a)]
    BY <2>1 DEF Name, Given
  <2> QED BY <2>1, <2>2, ArgsOf
<1>4. ASSUME NEW i \in DOMAIN lengths
      PROVE  LET args == parse_call_args(Text, Static(lengths[i]))
             IN args # <<>> /\ Tail(args) = [a \in 1..(NumInputs - 1) |-> Arg(a + 1)]
  <2> DEFINE args == parse_call_args(Text, Static(lengths[i]))
             rest == [a \in 1..(NumInputs - 1) |-> Arg(a + 1)]
  <2>1. i \in 1..NumLevels + 1 /\ i <= NumLevels
    BY <1>1
  <2>2. args = Given(i)
    <3>1. Name(i) = Static(lengths[i])
      BY <2>1 DEF Name
    <3> QED BY <2>1, <3>1, ArgsOf
  <2> HIDE DEF args
  <2>3. /\ IsSeq(args) /\ Len(args) = NumInputs
        /\ \A a \in 2..NumInputs : args[a] = Arg(a)
    <3>1. args = [a \in 1..NumInputs |-> args[a]]
      BY <2>2 DEF Given
    <3>2. \A a \in 2..NumInputs : args[a] = Arg(a)
      BY <1>2, <2>2 DEF Given
    <3> QED BY <1>2, <3>1, <3>2, FunctionIsSeq
  <2>4. IsSeq(rest) /\ Len(rest) = NumInputs - 1 /\ \A a \in 1..NumInputs - 1 : rest[a] = Arg(a + 1)
    <3>1. NumInputs - 1 \in Nat /\ rest = [a \in 1..(NumInputs - 1) |-> rest[a]]
      BY <1>2
    <3>2. \A a \in 1..NumInputs - 1 : rest[a] = Arg(a + 1)
      OBVIOUS
    <3> HIDE DEF rest
    <3> QED BY <3>1, <3>2, FunctionIsSeq
  <2> HIDE DEF rest
  <2>5. args # <<>>
    BY <1>2, <2>3, EmptyIfNone
  <2> DEFINE tail == Tail(args)
  <2>6. IsSeq(tail) /\ Len(tail) = NumInputs - 1 /\ \A a \in 1..NumInputs - 1 : tail[a] = args[a + 1]
    BY <1>2, <2>3, TailIsSeq
  <2> HIDE DEF tail
  <2>7. \A a \in 1..Len(tail) : tail[a] = rest[a]
    <3>1. \A a \in 1..NumInputs - 1 : a + 1 \in 2..NumInputs
      BY <1>2
    <3> QED BY <2>3, <2>4, <2>6, <3>1
  <2>8. tail = rest
    BY <2>4, <2>6, <2>7, EqualSeqs
  <2> QED BY <2>5, <2>8 DEF args, rest, tail
<1> QED BY <1>3, <1>4 DEF Forwards

\* As long as nobody has edited it, the wrapper is the one the pass emits.
UneditedInv ==
  /\ edits \in Nat /\ (edits = 0 => EmitInv)
  /\ verdict \in {"none", "accepted", "rejected"} /\ AcceptsEmitted

\* Emission, and runs of the wrapper, keep it so.
LEMMA EmitUnedited ==
  ASSUME UneditedInv, Emit \/ Execute \/ Invoke, UNCHANGED <<edits, verdict>>
  PROVE  UneditedInv'
<1>1. edits = 0 => EmitInv'
  BY NextEmitInv DEF UneditedInv, Next
<1> QED BY <1>1 DEF UneditedInv, AcceptsEmitted

\* An edit ends it.
LEMMA EditUnedited ==
  ASSUME UneditedInv, EditOp \/ EditBranch
  PROVE  UneditedInv'
<1>1. edits' = edits + 1 /\ verdict' = verdict
  BY Zenon DEF EditOp, EditBranch, Edit
<1> QED BY <1>1 DEF UneditedInv, AcceptsEmitted

\* And the verdict on the unedited wrapper is acceptance.
LEMMA VerdictUnedited ==
  ASSUME "E5" \in EntryKinds => \A list \in LengthLists : list[1] # kSequenceAxis,
         UneditedInv, check_dispatch_wrapper \/ check_parameter_forwarding
  PROVE  UneditedInv'
<1>1. UNCHANGED <<edits, vars>> /\ phase = "ready" /\ verdict' \in {"accepted", "rejected"}
  BY DEF check_dispatch_wrapper, check_parameter_forwarding
<1>2. edits = 0 => EmitInv'
  <2>1. UNCHANGED vars
    BY <1>1
  <2> QED BY <2>1, NextEmitInv DEF UneditedInv
<1>3. edits = 0 => verdict' = "accepted"
  <2> SUFFICES ASSUME edits = 0 PROVE verdict' = "accepted"
    OBVIOUS
  <2>1. EmitInv /\ phase \in {"ready", "run"}
    BY <1>1 DEF UneditedInv
  <2>2. EmittedWrapper
    BY <2>1, EmittedWrapperIs
  <2>3. CASE check_dispatch_wrapper
    <3>1. kind = "E5" /\ verdict' = IF WrapperOk(Text) THEN "accepted" ELSE "rejected"
      BY <2>3 DEF check_dispatch_wrapper
    <3>2. lengths[1] # kSequenceAxis
      BY <2>1, <3>1 DEF EmitInv
    <3> QED BY <2>2, <3>1, <3>2, EmittedIsOk
  <2>4. CASE check_parameter_forwarding
    <3>1. kind # "E5" /\ verdict' = IF Forwards(Text) THEN "accepted" ELSE "rejected"
      BY <2>4 DEF check_parameter_forwarding
    <3> QED BY <2>2, <3>1, EmittedForwards
  <2> QED BY <2>3, <2>4
<1> QED BY <1>1, <1>2, <1>3 DEF UneditedInv, AcceptsEmitted

\* For every list of lengths without the one that is also the number of the
\* sequence axis: check_dispatch_wrapper and the parameter accounting accept the
\* wrapper as the pass emits it.  (With that length, the checker finds two constants
\* where it asks for one.)
THEOREM AcceptsWhatIsEmitted ==
  ASSUME "E5" \in EntryKinds => \A list \in LengthLists : list[1] # kSequenceAxis
  PROVE  CheckerSpec => []AcceptsEmitted
<1>1. CheckerInit => UneditedInv
  BY InitIInv DEF CheckerInit, UneditedInv, AcceptsEmitted, IInv
<1>2. UneditedInv /\ [CheckerNext]_checkerVars => UneditedInv'
  <2> SUFFICES ASSUME UneditedInv, [CheckerNext]_checkerVars PROVE UneditedInv'
    OBVIOUS
  <2>1. CASE (Emit \/ Execute \/ (verdict = "accepted" /\ Invoke)) /\ UNCHANGED <<edits, verdict>>
    BY <2>1, EmitUnedited
  <2>2. CASE EditOp \/ EditBranch
    BY <2>2, EditUnedited
  <2>3. CASE check_dispatch_wrapper \/ check_parameter_forwarding
    BY <2>3, VerdictUnedited
  <2>4. CASE UNCHANGED checkerVars
    <3>1. UNCHANGED <<vars, edits, verdict>>
      BY <2>4 DEF checkerVars
    <3> QED BY <3>1, NextEmitInv DEF UneditedInv, AcceptsEmitted
  <2> QED BY <2>1, <2>2, <2>3, <2>4 DEF CheckerNext
<1>3. UneditedInv => AcceptsEmitted
  BY DEF UneditedInv
<1> QED BY <1>1, <1>2, <1>3, PTL DEF CheckerSpec
===============================================================================
