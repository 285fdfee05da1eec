------------------------- MODULE SpecializePassProofs -------------------------
(***************************************************************************)
(* For every module and every list of lengths: what the pass leaves of a   *)
(* module.  The invariant describes the rewriting exactly: after n clones  *)
(* the functions before the entry are the input's, the entry is renamed,   *)
(* the clones follow it, then the wrapper once it is there, then the rest. *)
(***************************************************************************)
EXTENDS SpecializePass, SequenceLemmas, FiniteSetTheorems

Before == input[entry]

KindOf(f) == IF "shortseq.e5_small_v2" \in f.markers THEN "E5"
             ELSE IF "shortseq.stage_b" \in f.markers THEN "StageB" ELSE "StageA"

GenericOf(f)  == [f EXCEPT !.name = GenericName(@), !.markers = @ \ Markers]
CloneOf(f, n) == [GenericOf(f) EXCEPT !.name = StaticName(f.name, n),
                                      !.visibility = IF expose THEN "public" ELSE "private",
                                      !.form = "static",
                                      !.length = n]
WrapperOf(f)  == Func(f.name, {}, f.visibility, f.form, FALSE,
                      {GenericName(f.name)}
                      \cup {StaticName(f.name, lengths[i]) : i \in DOMAIN lengths}, 0)

NewSymbolsOf(f) == {GenericName(f.name)}
                   \cup {StaticName(f.name, lengths[i]) : i \in DOMAIN lengths}

\* The module with n clones, and w wrappers: none or one.
Rewritten(n, w) ==
  /\ IsSeq(funcs) /\ Len(funcs) = Len(input) + n + w
  /\ \A i \in 1..entry - 1 : funcs[i] = input[i]
  /\ funcs[entry] = GenericOf(Before)
  /\ \A k \in 1..n : funcs[entry + k] = CloneOf(Before, lengths[k])
  /\ w = 1 => funcs[entry + n + 1] = WrapperOf(Before)
  /\ \A i \in entry + 1..Len(input) : funcs[i + n + w] = input[i]

-----------------------------------------------------------------------------
\* What each check has established.
Normalized ==
  /\ IsSeq(lengths)
  /\ \A i \in DOMAIN lengths : lengths[i] \in Nat \ {0}
  /\ \A i, j \in DOMAIN lengths : i < j => lengths[i] < lengths[j]

Found == {i \in DOMAIN input : "shortseq.entry" \in input[i].markers} = {entry}

Accepted == Before.form = KindOf(Before)

Limited == KindOf(Before) = "E5" =>
             \A i \in DOMAIN lengths : lengths[i] <= kE5MaxSequenceLength

NoClash == NewSymbolsOf(Before) \cap Symbols(input) = {}

AllChecked == Normalized /\ Found /\ Accepted /\ Limited /\ NoClash

Done == AllChecked /\ name = Before.name /\ Rewritten(Len(lengths), 1)

\* The phases in the order of runOnOperation.
FromEmission   == {"clones", "verify"}
FromCollisions == {"rename"} \cup FromEmission
FromBody       == {"body", "collisions"} \cup FromCollisions
FromContract   == {"limit"} \cup FromBody
FromEntry      == {"contract"} \cup FromContract
FromLengths    == {"entry"} \cup FromEntry
Checking       == {"lengths", "entry", "contract", "limit", "body", "collisions", "rename"}

IInv ==
  /\ phase \in {"idle", "lengths", "succeeded", "failed"} \cup FromLengths
  /\ IsModule(input)
  /\ phase \in Checking => funcs = input /\ statics = 0
  /\ phase = "failed" /\ error # "verify" => funcs = input
  /\ phase \in {"idle", "succeeded"} => IsModule(funcs)
  /\ phase = "lengths" => lengths \in Seq(Int)
  /\ phase \in FromLengths => Normalized
  /\ phase \in FromEntry => Found
  /\ phase \in FromContract => Accepted
  /\ phase \in FromBody => Limited
  /\ phase \in FromCollisions => NoClash
  /\ phase = "clones" =>
       statics \in 0..Len(lengths) /\ name = Before.name /\ Rewritten(statics, 0)
  /\ phase = "verify" => Done
  /\ phase = "failed" /\ error = "verify" => Done
  /\ phase = "succeeded" /\ Entries = {} => Done

-----------------------------------------------------------------------------
LEMMA TupleIsSeq == ASSUME NEW s PROVE IsTuple(s) <=> IsSeq(s)
  BY DEF IsTuple, IsSeq

LEMMA DomainOfSeq == ASSUME NEW s, IsSeq(s) PROVE Len(s) \in Nat /\ DOMAIN s = 1..Len(s)
  BY DEF IsSeq

\* What inserting one element does to a sequence.
IsInsertion(t, s, i, e) ==
  /\ IsSeq(t) /\ Len(t) = Len(s) + 1
  /\ \A j \in 1..Len(s) : j < i => t[j] = s[j]
  /\ t[i] = e
  /\ \A j \in i..Len(s) : t[j + 1] = s[j]

LEMMA InsertIsSeq ==
  ASSUME NEW s, NEW e, IsSeq(s), NEW i \in 1..Len(s) + 1
  PROVE  IsInsertion(InsertAt(s, i, e), s, i, e)
<1>1. Len(s) \in Nat /\ i \in Nat /\ 1 \in 1..Len(s) + 1 /\ i - 1 \in 0..Len(s) /\ Len(s) \in 0..Len(s)
  BY DEF IsSeq
<1> DEFINE a == SubSeq(s, 1, i - 1)
           b == SubSeq(s, i, Len(s))
           t == a \o <<e>>
<1>2. /\ IsSeq(a) /\ Len(a) = i - 1
      /\ \A j \in 1..i - 1 : a[j] = s[j]
  <2>1. /\ IsSeq(a) /\ Len(a) = (i - 1) - 1 + 1
        /\ \A j \in 1..(i - 1) - 1 + 1 : a[j] = s[1 + j - 1]
    BY <1>1, SubSeqIsSeq
  <2> HIDE DEF a
  <2> QED BY <1>1, <2>1
<1>3. /\ IsSeq(b) /\ Len(b) = Len(s) - i + 1
      /\ \A j \in 1..Len(s) - i + 1 : b[j] = s[i + j - 1]
  BY <1>1, SubSeqIsSeq
<1> HIDE DEF a, b
<1>4. IsSeq(<<e>>) /\ Len(<<e>>) = 1 /\ <<e>>[1] = e
  BY SingletonIsSeq
<1>5. /\ IsSeq(t) /\ Len(t) = Len(a) + 1
      /\ \A j \in 1..Len(a) : t[j] = a[j]
      /\ \A j \in Len(a) + 1..Len(a) + 1 : t[j] = <<e>>[j - Len(a)]
  <2>1. IsSeq(a) /\ IsSeq(<<e>>)
    BY <1>2, <1>4
  <2> QED BY <2>1, <1>4, ConcatIsSeq
<1> HIDE DEF t
<1>6. IsSeq(t) /\ Len(t) = i /\ t[i] = e /\ \A j \in 1..i - 1 : t[j] = s[j]
  BY <1>1, <1>2, <1>4, <1>5
<1>7. /\ IsSeq(t \o b) /\ Len(t \o b) = Len(t) + Len(b)
      /\ \A j \in 1..Len(t) : (t \o b)[j] = t[j]
      /\ \A j \in Len(t) + 1..Len(t) + Len(b) : (t \o b)[j] = b[j - Len(t)]
  BY <1>6, <1>3, ConcatIsSeq
<1>8. InsertAt(s, i, e) = t \o b
  BY DEF InsertAt, t, a, b
<1> DEFINE u == t \o b
<1>9. \A j \in i..Len(s) : u[j + 1] = s[j]
  <2> TAKE j \in i..Len(s)
  <2>1. j + 1 \in Len(t) + 1..Len(t) + Len(b) /\ j + 1 - i \in 1..Len(s) - i + 1 /\ j + 1 - Len(t) = j + 1 - i
    BY <1>1, <1>3, <1>6
  <2>2. u[j + 1] = b[j + 1 - i]
    BY <2>1, <1>7
  <2>3. b[j + 1 - i] = s[i + (j + 1 - i) - 1] /\ i + (j + 1 - i) - 1 = j
    BY <2>1, <1>1, <1>3
  <2> QED BY <2>2, <2>3
<1>10. Len(u) = Len(s) + 1 /\ IsSeq(u)
  BY <1>1, <1>3, <1>6, <1>7
<1>11. u[i] = e /\ \A j \in 1..Len(s) : j < i => u[j] = s[j]
  <2>1. i \in 1..Len(t) /\ \A j \in 1..Len(s) : j < i => j \in 1..Len(t) /\ j \in 1..i - 1
    BY <1>1, <1>6
  <2> QED BY <2>1, <1>6, <1>7
<1> QED BY <1>8, <1>9, <1>10, <1>11 DEF IsInsertion

\* Names built from different names, or with different suffixes, differ.
LEMMA AppendOfDistinct ==
  ASSUME NEW s, NEW t, NEW d, NEW e, IsSeq(s), IsSeq(t), Append(s, d) = Append(t, e)
  PROVE  s = t /\ d = e
<1>1. Len(Append(s, d)) = Len(s) + 1
  BY AppendIsSeq
<1>2. Append(s, d)[Len(s) + 1] = d
  BY AppendIsSeq
<1>3. \A i \in 1..Len(s) : Append(s, d)[i] = s[i]
  BY AppendIsSeq
<1>4. Len(Append(t, e)) = Len(t) + 1
  BY AppendIsSeq
<1>5. Append(t, e)[Len(t) + 1] = e
  BY AppendIsSeq
<1>6. \A i \in 1..Len(t) : Append(t, e)[i] = t[i]
  BY AppendIsSeq
<1>7. Len(s) \in Nat /\ Len(t) \in Nat
  BY DEF IsSeq
<1>8. Len(s) = Len(t)
  BY <1>1, <1>4, <1>7
<1>9. d = e
  BY <1>2, <1>5, <1>8
<1>10. \A i \in 1..Len(s) : s[i] = t[i]
  BY <1>3, <1>6, <1>8
<1>11. s = t
  BY <1>8, <1>10, EqualSeqs
<1>12. QED BY <1>9, <1>11

LEMMA AppendDiffers == ASSUME NEW s, NEW e, IsSeq(s) PROVE Append(s, e) # s
<1>1. Len(Append(s, e)) = Len(s) + 1 /\ Len(s) \in Nat
  BY AppendIsSeq DEF IsSeq
<1>2. Len(s) + 1 # Len(s)
  BY <1>1
<1> QED BY <1>1, <1>2

\* Sorting a list gives a list of its elements, in ascending order.
LEMMA SortingOfList ==
  ASSUME NEW list \in Seq(Int), NEW sorted \in Sortings(list)
  PROVE  /\ sorted \in Seq(Int) /\ Len(sorted) = Len(list)
         /\ \A i \in DOMAIN sorted : \E j \in DOMAIN list : sorted[i] = list[j]
         /\ \A i, j \in DOMAIN sorted : i < j => sorted[i] <= sorted[j]
<1>1. Len(list) \in Nat /\ DOMAIN list = 1..Len(list) /\ list \in [1..Len(list) -> Int]
  BY LenProperties
<1>2. PICK order \in Bijection(DOMAIN list, DOMAIN list) :
        sorted = [i \in DOMAIN list |-> list[order[i]]]
  BY DEF Sortings
<1>3. order \in [DOMAIN list -> DOMAIN list]
  BY <1>2 DEF Bijection, Injection
<1>4. sorted \in [1..Len(list) -> Int]
  BY <1>1, <1>2, <1>3
<1>5. sorted \in Seq(Int) /\ Len(sorted) = Len(list)
  <2>1. sorted \in Seq(Int)
    BY <1>1, <1>4, SeqDef
  <2>2. Len(sorted) \in Nat /\ DOMAIN sorted = 1..Len(sorted) /\ DOMAIN sorted = 1..Len(list)
    BY <2>1, <1>4, LenProperties
  <2>3. Len(sorted) = Len(list)
    <3>1. \A m, n \in Nat : 1..m = 1..n => m = n
      <4> SUFFICES ASSUME NEW m \in Nat, NEW n \in Nat, 1..m = 1..n PROVE m = n
        OBVIOUS
      <4>1. m < n => n \in 1..n /\ n \notin 1..m
        OBVIOUS
      <4>2. n < m => m \in 1..m /\ m \notin 1..n
        OBVIOUS
      <4> QED BY <4>1, <4>2
    <3> QED BY <3>1, <2>2, <1>1
  <2> QED BY <2>1, <2>3
<1>6. \A i \in DOMAIN sorted : \E j \in DOMAIN list : sorted[i] = list[j]
  BY <1>2, <1>3
<1>7. \A i, j \in DOMAIN sorted : i < j => sorted[i] <= sorted[j]
  BY DEF Sortings
<1> QED BY <1>5, <1>6, <1>7

-----------------------------------------------------------------------------
\* A step that changes only the phase, the error or the marker leaves every
\* part of the invariant as it was.
LEMMA Frozen ==
  ASSUME UNCHANGED <<input, funcs, lengths, expose, entry, name, statics>>
  PROVE  /\ Normalized' <=> Normalized
         /\ Found' <=> Found
         /\ Accepted' <=> Accepted
         /\ Limited' <=> Limited
         /\ NoClash' <=> NoClash
         /\ Rewritten(statics, 0)' <=> Rewritten(statics, 0)
         /\ Before' = Before
         /\ Done' <=> Done
         /\ Entries' = Entries
<1>1. Before' = Before
  BY DEF Before
<1>2. Normalized' <=> Normalized
  BY DEF Normalized
<1>3. Found' <=> Found
  BY DEF Found
<1>4. Accepted' <=> Accepted
  BY <1>1 DEF Accepted
<1>5. Limited' <=> Limited
  BY <1>1 DEF Limited
<1>6. NoClash' <=> NoClash
  BY <1>1 DEF NoClash, NewSymbolsOf
<1>7. Rewritten(statics, 0)' <=> Rewritten(statics, 0)
  BY <1>1 DEF Rewritten, CloneOf, WrapperOf
<1>8. Rewritten(Len(lengths), 1)' <=> Rewritten(Len(lengths), 1)
  BY <1>1 DEF Rewritten, CloneOf, WrapperOf
<1>9. Done' <=> Done
  BY <1>1, <1>2, <1>3, <1>4, <1>5, <1>6, <1>8 DEF Done, AllChecked
<1>10. Entries' = Entries
  BY DEF Entries
<1> QED BY <1>1, <1>2, <1>3, <1>4, <1>5, <1>6, <1>7, <1>9, <1>10

LEMMA InitInvariant == Init => IInv
  BY InputsAssumption DEF Init, IInv, Checking, FromLengths, FromEntry, FromContract,
     FromBody, FromCollisions, FromEmission

LEMMA RunInvariant == ASSUME IInv, Run PROVE IInv'
  BY LengthOptionsAssumption DEF Run, IInv, Checking, FromLengths, FromEntry, FromContract,
     FromBody, FromCollisions, FromEmission

LEMMA ReloadInvariant == ASSUME IInv, Reload PROVE IInv'
  BY DEF Reload, IInv, Checking, FromLengths, FromEntry, FromContract,
     FromBody, FromCollisions, FromEmission

\* Marking a function of a module makes a module with an entry.
LEMMA MarkInvariant == ASSUME IInv, Mark PROVE IInv'
<1>1. IsModule(input) /\ IsModule(funcs)
  BY DEF IInv, Mark
<1>2. PICK i \in DOMAIN funcs, markers \in SUBSET (Markers \ {"shortseq.entry"}) :
        funcs' = [funcs EXCEPT ![i].markers = markers \cup {"shortseq.entry"}]
  BY DEF Mark
<1> DEFINE e == [funcs[i] EXCEPT !.markers = markers \cup {"shortseq.entry"}]
<1>3. IsSeq(funcs) /\ i \in 1..Len(funcs)
  BY <1>1, <1>2, TupleIsSeq, DomainOfSeq DEF IsModule
<1>4. IsFunc(funcs[i]) /\ funcs[i].calls \subseteq Symbols(funcs)
  BY <1>1, <1>2 DEF IsModule
<1>5. /\ IsFunc(e) /\ e.name = funcs[i].name /\ e.calls = funcs[i].calls
      /\ "shortseq.entry" \in e.markers
  <2>1. markers \cup {"shortseq.entry"} \subseteq Markers
    BY <1>2 DEF Markers
  <2> QED BY <2>1, <1>4 DEF IsFunc, Func
<1>6. funcs' = [funcs EXCEPT ![i] = e]
  BY <1>2
<1> HIDE DEF e
<1>7. /\ IsSeq(funcs') /\ Len(funcs') = Len(funcs)
      /\ funcs'[i] = e
      /\ \A j \in 1..Len(funcs) : j # i => funcs'[j] = funcs[j]
  <2>1. /\ IsSeq([funcs EXCEPT ![i] = e]) /\ Len([funcs EXCEPT ![i] = e]) = Len(funcs)
        /\ [funcs EXCEPT ![i] = e][i] = e
        /\ \A j \in 1..Len(funcs) : j # i => [funcs EXCEPT ![i] = e][j] = funcs[j]
    BY <1>3, ExceptIsSeq
  <2> QED BY <2>1, <1>6
<1>8. DOMAIN funcs' = DOMAIN funcs /\ DOMAIN funcs = 1..Len(funcs)
  BY <1>3, <1>7, DomainOfSeq
<1>9. \A j \in DOMAIN funcs' : funcs'[j].name = funcs[j].name
  BY <1>5, <1>7, <1>8
<1>10. Symbols(funcs') = Symbols(funcs)
  BY <1>8, <1>9 DEF Symbols
<1>11. IsModule(funcs')
  <2>1. IsTuple(funcs')
    BY <1>7, TupleIsSeq
  <2>2. \A j \in DOMAIN funcs' : IsFunc(funcs'[j]) /\ funcs'[j].calls \subseteq Symbols(funcs')
    <3> TAKE j \in DOMAIN funcs'
    <3>1. CASE j = i
      BY <3>1, <1>4, <1>5, <1>7, <1>10
    <3>2. CASE j # i
      BY <3>2, <1>1, <1>7, <1>8, <1>10 DEF IsModule
    <3> QED BY <3>1, <3>2
  <2>3. \A j, k \in DOMAIN funcs' : funcs'[j].name = funcs'[k].name => j = k
    BY <1>1, <1>8, <1>9 DEF IsModule
  <2> QED BY <2>1, <2>2, <2>3 DEF IsModule
<1>12. Entries' # {}
  BY <1>2, <1>5, <1>7, <1>8 DEF Entries
<1> QED BY <1>1, <1>11, <1>12 DEF Mark, IInv, Checking, FromLengths, FromEntry, FromContract,
           FromBody, FromCollisions, FromEmission

\* The lengths are positive and strictly ascending once they are normalized.
LEMMA NormalizeInvariant == ASSUME IInv, normalizeSpecializationLengths PROVE IInv'
<1> DEFINE given == IF lengths = <<>> THEN <<kDefaultLength>> ELSE lengths
<1>1. lengths \in Seq(Int) /\ phase = "lengths"
  BY DEF normalizeSpecializationLengths, IInv
<1>2. given \in Seq(Int)
  <2>1. <<kDefaultLength>> \in Seq(Int)
    BY DEF kDefaultLength
  <2> QED BY <2>1, <1>1
<1>3. PICK sorted \in Sortings(given) :
        IF (\E i \in DOMAIN given : given[i] <= 0) \/ HasDuplicate(sorted)
          THEN Fail("lengths") /\ UNCHANGED lengths
          ELSE lengths' = sorted /\ phase' = "entry" /\ UNCHANGED error
  BY DEF normalizeSpecializationLengths
<1> HIDE DEF given
<1>4. UNCHANGED <<input, funcs, statics>>
  BY DEF normalizeSpecializationLengths
<1>5. CASE (\E i \in DOMAIN given : given[i] <= 0) \/ HasDuplicate(sorted)
  BY <1>1, <1>3, <1>4, <1>5 DEF Fail, IInv, Checking, FromLengths, FromEntry, FromContract,
     FromBody, FromCollisions, FromEmission
<1>6. CASE ~ ((\E i \in DOMAIN given : given[i] <= 0) \/ HasDuplicate(sorted))
  <2>1. /\ sorted \in Seq(Int)
        /\ \A i \in DOMAIN sorted : \E j \in DOMAIN given : sorted[i] = given[j]
        /\ \A i, j \in DOMAIN sorted : i < j => sorted[i] <= sorted[j]
    BY <1>2, SortingOfList
  <2>2. DOMAIN sorted = 1..Len(sorted) /\ Len(sorted) \in Nat /\ IsSeq(sorted)
    BY <2>1, LenProperties, SeqIsSeq
  <2>3. DOMAIN given = 1..Len(given) /\ Len(given) \in Nat /\ \A i \in DOMAIN given : given[i] \in Int
    BY <1>2, LenProperties
  <2>4. \A i \in DOMAIN sorted : sorted[i] \in Nat \ {0}
    BY <1>6, <2>1, <2>3
  <2>5. \A i, j \in DOMAIN sorted : i < j => sorted[i] < sorted[j]
    <3> SUFFICES ASSUME NEW i \in DOMAIN sorted, NEW j \in DOMAIN sorted, i < j
                 PROVE  sorted[i] < sorted[j]
      OBVIOUS
    <3>1. i \in 1..Len(sorted) - 1 /\ i + 1 \in DOMAIN sorted /\ (i + 1 < j \/ i + 1 = j)
      BY <2>2
    <3>2. sorted[i] # sorted[i + 1] /\ sorted[i] <= sorted[i + 1]
      BY <1>6, <2>1, <3>1, <2>2 DEF HasDuplicate
    <3>3. sorted[i + 1] <= sorted[j]
      BY <2>1, <2>4, <3>1
    <3> QED BY <2>4, <3>1, <3>2, <3>3
  <2>6. Normalized'
    BY <1>3, <1>6, <2>2, <2>4, <2>5 DEF Normalized
  <2> QED BY <1>1, <1>3, <1>4, <1>6, <2>6 DEF IInv, Checking, FromLengths, FromEntry, FromContract,
             FromBody, FromCollisions, FromEmission
<1> QED BY <1>5, <1>6

\* The entry is the one function the input marks.
LEMMA FindInvariant == ASSUME IInv, FindEntry PROVE IInv'
<1>1. /\ phase = "entry" /\ funcs = input /\ statics = 0 /\ IsModule(input) /\ Normalized
      /\ UNCHANGED <<input, funcs, lengths, statics>>
  BY DEF FindEntry, IInv, Checking, FromLengths
<1>2. Normalized'
  BY <1>1 DEF Normalized
<1>3. CASE Cardinality(Entries) # 1
  BY <1>1, <1>3 DEF FindEntry, Fail, IInv, Checking, FromLengths, FromEntry, FromContract,
     FromBody, FromCollisions, FromEmission
<1>4. CASE Cardinality(Entries) = 1
  <2>1. IsFiniteSet(Entries)
    <3>1. DOMAIN funcs = 1..Len(funcs) /\ Len(funcs) \in Nat
      BY <1>1, TupleIsSeq, DomainOfSeq DEF IsModule
    <3>2. IsFiniteSet(1..Len(funcs))
      BY <3>1, FS_Interval
    <3>3. Entries \in SUBSET (1..Len(funcs))
      BY <3>1 DEF Entries
    <3> QED BY <3>2, <3>3, FS_Subset
  <2>2. PICK x : Entries = {x}
    BY <1>4, <2>1, FS_Singleton
  <2>3. entry' = x /\ phase' = "contract" /\ UNCHANGED error
    BY <1>4, <2>2 DEF FindEntry
  <2>4. Found'
    BY <1>1, <2>2, <2>3 DEF Found, Entries
  <2> QED BY <1>1, <1>2, <2>3, <2>4 DEF IInv, Checking, FromLengths, FromEntry, FromContract,
             FromBody, FromCollisions, FromEmission
<1> QED BY <1>3, <1>4

LEMMA EntryIsBefore ==
  ASSUME funcs = input, Found, IsModule(input)
  PROVE  /\ Entry = Before /\ entry \in 1..Len(input) /\ Len(input) \in Nat
         /\ IsSeq(input) /\ IsFunc(Before)
         /\ (IsE5 <=> KindOf(Before) = "E5") /\ EntryKind = KindOf(Before)
         /\ NewSymbols = NewSymbolsOf(Before)
<1>1. Entry = Before
  BY DEF Entry, Before
<1>2. entry \in DOMAIN input
  BY DEF Found
<1>3. IsSeq(input) /\ IsFunc(Before)
  BY <1>2, TupleIsSeq DEF IsModule, Before
<1>4. EntryKind = KindOf(Before) /\ (IsE5 <=> KindOf(Before) = "E5")
  BY <1>1 DEF EntryKind, KindOf, IsE5, IsStageB
<1>5. NewSymbols = NewSymbolsOf(Before)
  BY <1>1 DEF NewSymbols, NewSymbolsOf
<1> QED BY <1>1, <1>2, <1>3, <1>4, <1>5, DomainOfSeq

LEMMA ContractInvariant == ASSUME IInv, validateEntry PROVE IInv'
<1>1. phase = "contract" /\ funcs = input /\ statics = 0 /\ IsModule(input) /\ Normalized /\ Found
  BY DEF validateEntry, IInv, Checking, FromLengths, FromEntry
<1>2. UNCHANGED <<input, funcs, lengths, expose, entry, name, statics>>
  BY DEF validateEntry
<1>3. EntryKind = KindOf(Before) /\ Entry = Before
  BY <1>1, EntryIsBefore
<1>4. CASE (IsStageB /\ IsE5) \/ Entry.form # EntryKind
  BY <1>1, <1>2, <1>4 DEF validateEntry, Fail, IInv, Checking, FromLengths, FromEntry, FromContract,
     FromBody, FromCollisions, FromEmission
<1>5. CASE ~ ((IsStageB /\ IsE5) \/ Entry.form # EntryKind)
  <2>1. Accepted /\ phase' = "limit" /\ UNCHANGED error
    BY <1>3, <1>5 DEF Accepted, validateEntry
  <2>2. Accepted' /\ Normalized' /\ Found'
    BY <1>1, <1>2, <2>1, Frozen
  <2> QED BY <1>1, <1>2, <2>1, <2>2 DEF IInv, Checking, FromLengths, FromEntry, FromContract,
             FromBody, FromCollisions, FromEmission
<1> QED BY <1>4, <1>5

LEMMA LimitInvariant == ASSUME IInv, validateE5Lengths PROVE IInv'
<1>1. /\ phase = "limit" /\ funcs = input /\ statics = 0 /\ IsModule(input)
      /\ Normalized /\ Found /\ Accepted
  BY DEF validateE5Lengths, IInv, Checking, FromLengths, FromEntry, FromContract
<1>2. UNCHANGED <<input, funcs, lengths, expose, entry, name, statics>>
  BY DEF validateE5Lengths
<1>3. IsE5 <=> KindOf(Before) = "E5"
  BY <1>1, EntryIsBefore
<1>4. CASE IsE5 /\ \E i \in DOMAIN lengths : lengths[i] > kE5MaxSequenceLength
  BY <1>1, <1>2, <1>4 DEF validateE5Lengths, Fail, IInv, Checking, FromLengths, FromEntry,
     FromContract, FromBody, FromCollisions, FromEmission
<1>5. CASE ~ (IsE5 /\ \E i \in DOMAIN lengths : lengths[i] > kE5MaxSequenceLength)
  <2>1. Limited
    BY <1>1, <1>3, <1>5 DEF Limited, Normalized, kE5MaxSequenceLength
  <2>2. phase' = "body" /\ UNCHANGED error
    BY <1>5 DEF validateE5Lengths
  <2>3. Accepted' /\ Normalized' /\ Found' /\ Limited'
    BY <1>1, <1>2, <2>1, Frozen
  <2> QED BY <1>1, <1>2, <2>2, <2>3 DEF IInv, Checking, FromLengths, FromEntry, FromContract,
             FromBody, FromCollisions, FromEmission
<1> QED BY <1>4, <1>5

LEMMA BodyInvariant == ASSUME IInv, validateSpecializedBody PROVE IInv'
<1>1. /\ phase = "body" /\ funcs = input /\ statics = 0 /\ IsModule(input)
      /\ Normalized /\ Found /\ Accepted /\ Limited
  BY DEF validateSpecializedBody, IInv, Checking, FromLengths, FromEntry, FromContract, FromBody
<1>2. UNCHANGED <<input, funcs, lengths, expose, entry, name, statics>>
  BY DEF validateSpecializedBody
<1>3. Accepted' /\ Normalized' /\ Found' /\ Limited'
  BY <1>1, <1>2, Frozen
<1>4. \/ phase' = "failed" /\ error' = "body"
      \/ phase' = "collisions" /\ UNCHANGED error
  <2> DEFINE refused == \/ ~ Entry.valid
                        \/ Entry.name \in Entry.calls
                        \/ IsE5 /\ Entry.calls # {}
  <2>1. IF refused THEN Fail("body") ELSE phase' = "collisions" /\ UNCHANGED error
    BY DEF validateSpecializedBody
  <2> HIDE DEF refused
  <2>2. CASE refused
    BY <2>1, <2>2 DEF Fail
  <2>3. CASE ~ refused
    BY <2>1, <2>3 DEF Fail
  <2> QED BY <2>2, <2>3
<1> QED BY <1>1, <1>2, <1>3, <1>4 DEF IInv, Checking, FromLengths, FromEntry, FromContract,
           FromBody, FromCollisions, FromEmission

LEMMA CollisionsInvariant == ASSUME IInv, CheckCollisions PROVE IInv'
<1>1. /\ phase = "collisions" /\ funcs = input /\ statics = 0 /\ IsModule(input)
      /\ Normalized /\ Found /\ Accepted /\ Limited
  BY DEF CheckCollisions, IInv, Checking, FromLengths, FromEntry, FromContract, FromBody
<1>2. UNCHANGED <<input, funcs, lengths, expose, entry, name, statics>>
  BY DEF CheckCollisions
<1>3. CASE NewSymbols \cap Symbols(funcs) # {}
  BY <1>1, <1>2, <1>3 DEF CheckCollisions, Fail, IInv, Checking, FromLengths, FromEntry,
     FromContract, FromBody, FromCollisions, FromEmission
<1>4. CASE NewSymbols \cap Symbols(funcs) = {}
  <2>1. NoClash
    BY <1>1, <1>4, EntryIsBefore DEF NoClash
  <2>2. phase' = "rename" /\ UNCHANGED error
    BY <1>4 DEF CheckCollisions
  <2>3. Accepted' /\ Normalized' /\ Found' /\ Limited' /\ NoClash'
    BY <1>1, <1>2, <2>1, Frozen
  <2> QED BY <1>1, <1>2, <2>2, <2>3 DEF IInv, Checking, FromLengths, FromEntry, FromContract,
             FromBody, FromCollisions, FromEmission
<1> QED BY <1>3, <1>4

-----------------------------------------------------------------------------
\* Renaming the entry rewrites the module as far as no clone at all.
LEMMA RenameInvariant == ASSUME IInv, RenameEntry PROVE IInv'
<1>1. /\ phase = "rename" /\ funcs = input /\ statics = 0 /\ IsModule(input)
      /\ Normalized /\ Found /\ Accepted /\ Limited /\ NoClash
  BY DEF RenameEntry, IInv, Checking, FromLengths, FromEntry, FromContract, FromBody, FromCollisions
<1>2. /\ Entry = Before /\ entry \in 1..Len(input) /\ Len(input) \in Nat
      /\ IsSeq(input) /\ IsFunc(Before)
  BY <1>1, EntryIsBefore
<1>3. /\ UNCHANGED <<input, lengths, expose, entry, statics, error>>
      /\ name' = Before.name /\ phase' = "clones"
  BY <1>2 DEF RenameEntry
<1> DEFINE e == GenericOf(Before)
<1>4. funcs' = [input EXCEPT ![entry] = e]
  <2>1. funcs' = [input EXCEPT ![entry].name = GenericName(@), ![entry].markers = @ \ Markers]
    BY <1>1 DEF RenameEntry
  <2>2. input = [i \in 1..Len(input) |-> input[i]]
    BY <1>2 DEF IsSeq
  <2> QED BY <2>1, <2>2, <1>2 DEF GenericOf, Before, GenericName
<1>5. Before' = Before /\ Before.name = Before'.name
  BY <1>3 DEF Before
<1>6. GenericOf(Before)' = e
  BY <1>5 DEF GenericOf
<1> HIDE DEF e
<1>7. /\ IsSeq(funcs') /\ Len(funcs') = Len(input) /\ funcs'[entry] = e
      /\ \A j \in 1..Len(input) : j # entry => funcs'[j] = input[j]
  <2>1. /\ IsSeq([input EXCEPT ![entry] = e]) /\ Len([input EXCEPT ![entry] = e]) = Len(input)
        /\ [input EXCEPT ![entry] = e][entry] = e
        /\ \A j \in 1..Len(input) : j # entry => [input EXCEPT ![entry] = e][j] = input[j]
    BY <1>2, ExceptIsSeq
  <2> QED BY <2>1, <1>4
<1>8. Rewritten(statics, 0)'
  <2>1. IsSeq(funcs') /\ Len(funcs') = Len(input') + statics' + 0
    BY <1>1, <1>2, <1>3, <1>7
  <2>2. \A i \in 1..entry' - 1 : funcs'[i] = input'[i]
    BY <1>2, <1>3, <1>7
  <2>3. funcs'[entry'] = GenericOf(Before)'
    BY <1>3, <1>6, <1>7
  <2>4. 1..statics' = {} /\ 0 # 1
    BY <1>1, <1>3
  <2>5. \A i \in entry' + 1..Len(input') : funcs'[i + statics' + 0] = input'[i]
    BY <1>1, <1>2, <1>3, <1>7
  <2> QED BY <2>1, <2>2, <2>3, <2>4, <2>5 DEF Rewritten
<1>9. Normalized' /\ Found' /\ Accepted' /\ Limited' /\ NoClash'
  BY <1>1, <1>3, <1>5 DEF Normalized, Found, Accepted, Limited, NoClash, NewSymbolsOf
<1>10. statics' \in 0..Len(lengths') /\ name' = Before'.name
  BY <1>1, <1>3, <1>5, DomainOfSeq DEF Normalized
<1> QED BY <1>1, <1>3, <1>8, <1>9, <1>10 DEF IInv, Checking, FromLengths, FromEntry, FromContract,
           FromBody, FromCollisions, FromEmission

\* What an insertion after the entry and n clones leaves where.
LEMMA Inserted ==
  ASSUME Found, IsModule(input), NEW n \in Nat, Rewritten(n, 0), NEW e
  PROVE  LET t == InsertAt(funcs, entry + n + 1, e)
         IN /\ IsSeq(t) /\ Len(t) = Len(input) + n + 1
            /\ \A i \in 1..entry - 1 : t[i] = input[i]
            /\ t[entry] = GenericOf(Before)
            /\ \A k \in 1..n : t[entry + k] = CloneOf(Before, lengths[k])
            /\ t[entry + n + 1] = e
            /\ \A i \in entry + 1..Len(input) : t[i + n + 1] = input[i]
<1>1. Len(input) \in Nat /\ entry \in 1..Len(input)
  BY TupleIsSeq, DomainOfSeq DEF Found, IsModule
<1>2. /\ IsSeq(funcs) /\ Len(funcs) = Len(input) + n
      /\ \A i \in 1..entry - 1 : funcs[i] = input[i]
      /\ funcs[entry] = GenericOf(Before)
      /\ \A k \in 1..n : funcs[entry + k] = CloneOf(Before, lengths[k])
      /\ \A i \in entry + 1..Len(input) : funcs[i + n + 0] = input[i]
  BY <1>1 DEF Rewritten
<1>3. entry + n + 1 \in 1..Len(funcs) + 1
  BY <1>1, <1>2
<1> DEFINE t == InsertAt(funcs, entry + n + 1, e)
<1>4. /\ IsSeq(t) /\ Len(t) = Len(funcs) + 1
      /\ \A j \in 1..Len(funcs) : j < entry + n + 1 => t[j] = funcs[j]
      /\ t[entry + n + 1] = e
      /\ \A j \in entry + n + 1..Len(funcs) : t[j + 1] = funcs[j]
  <2> DEFINE p == entry + n + 1
  <2>1. p \in 1..Len(funcs) + 1 /\ IsSeq(funcs) /\ p \in Nat /\ Len(funcs) \in Nat
    BY <1>1, <1>2, <1>3
  <2> HIDE DEF p
  <2>2. IsInsertion(InsertAt(funcs, p, e), funcs, p, e)
    BY <2>1, InsertIsSeq
  <2> QED BY <2>2 DEF p, IsInsertion
<1> HIDE DEF t
<1>5. IsSeq(t) /\ Len(t) = Len(input) + n + 1
  BY <1>1, <1>2, <1>4
<1>6. (\A i \in 1..entry - 1 : t[i] = input[i]) /\ t[entry] = GenericOf(Before)
  BY <1>1, <1>2, <1>4
<1>7. \A k \in 1..n : t[entry + k] = CloneOf(Before, lengths[k])
  <2> TAKE k \in 1..n
  <2>1. entry + k \in 1..Len(funcs) /\ entry + k < entry + n + 1
    BY <1>1, <1>2
  <2> QED BY <2>1, <1>2, <1>4
<1>8. \A i \in entry + 1..Len(input) : t[i + n + 1] = input[i]
  <2> TAKE i \in entry + 1..Len(input)
  <2>1. i + n \in entry + n + 1..Len(funcs) /\ i + n + 0 = i + n
    BY <1>1, <1>2
  <2>2. t[i + n + 1] = funcs[i + n]
    BY <2>1, <1>4
  <2>3. funcs[i + n] = input[i]
    BY <2>1, <1>2
  <2> QED BY <2>2, <2>3
<1> QED BY <1>4, <1>5, <1>6, <1>7, <1>8 DEF t

\* The clone of the renamed entry is the clone of the entry.
LEMMA CloneIsCloneOf ==
  ASSUME funcs[entry] = GenericOf(Before), name = Before.name, NEW n
  PROVE  Clone(n) = CloneOf(Before, n)
  BY DEF Clone, CloneOf, Entry

LEMMA CloneInvariant == ASSUME IInv, EmitClone PROVE IInv'
<1>1. /\ phase = "clones" /\ IsModule(input) /\ statics \in 0..Len(lengths)
      /\ name = Before.name /\ Rewritten(statics, 0)
      /\ Normalized /\ Found /\ Accepted /\ Limited /\ NoClash
  BY DEF EmitClone, IInv, FromLengths, FromEntry, FromContract, FromBody, FromCollisions, FromEmission
<1>2. UNCHANGED <<phase, input, lengths, expose, entry, name, error>>
  BY DEF EmitClone
<1>3. /\ Len(lengths) \in Nat /\ statics \in Nat /\ statics < Len(lengths)
      /\ statics' = statics + 1 /\ statics' \in 0..Len(lengths)
  BY <1>1, DomainOfSeq DEF Normalized, EmitClone
<1>4. Len(input) \in Nat /\ entry \in 1..Len(input)
  BY <1>1, TupleIsSeq, DomainOfSeq DEF Found, IsModule
<1> DEFINE e == CloneOf(Before, lengths[statics + 1])
<1>5. funcs' = InsertAt(funcs, entry + statics + 1, e)
  BY <1>1, CloneIsCloneOf DEF EmitClone, Rewritten
<1>6. /\ Before' = Before /\ GenericOf(Before)' = GenericOf(Before)
      /\ \A k : CloneOf(Before, lengths[k])' = CloneOf(Before, lengths[k])
      /\ WrapperOf(Before)' = WrapperOf(Before)
  BY <1>2 DEF Before, GenericOf, CloneOf, WrapperOf
<1>7. /\ IsSeq(funcs') /\ Len(funcs') = Len(input) + statics + 1
      /\ \A i \in 1..entry - 1 : funcs'[i] = input[i]
      /\ funcs'[entry] = GenericOf(Before)
      /\ \A k \in 1..statics : funcs'[entry + k] = CloneOf(Before, lengths[k])
      /\ funcs'[entry + statics + 1] = e
      /\ \A i \in entry + 1..Len(input) : funcs'[i + statics + 1] = input[i]
  <2> HIDE DEF e
  <2> DEFINE t == InsertAt(funcs, entry + statics + 1, e)
  <2>1. /\ IsSeq(t) /\ Len(t) = Len(input) + statics + 1
        /\ \A i \in 1..entry - 1 : t[i] = input[i]
        /\ t[entry] = GenericOf(Before)
        /\ \A k \in 1..statics : t[entry + k] = CloneOf(Before, lengths[k])
        /\ t[entry + statics + 1] = e
        /\ \A i \in entry + 1..Len(input) : t[i + statics + 1] = input[i]
    BY <1>1, <1>3, Inserted
  <2>2. funcs' = t
    BY <1>5
  <2> HIDE DEF t
  <2> QED BY <2>1, <2>2
<1>8. Rewritten(statics, 0)'
  <2>1. \A k \in 1..statics' : funcs'[entry + k] = CloneOf(Before, lengths[k])
    <3> TAKE k \in 1..statics'
    <3>1. CASE k \in 1..statics
      BY <3>1, <1>7
    <3>2. CASE k = statics + 1
      BY <3>2, <1>7, <1>4, <1>3
    <3> QED BY <3>1, <3>2, <1>3
  <2>2. \A i \in entry' + 1..Len(input') : funcs'[i + statics' + 0] = input'[i]
    <3> TAKE i \in entry' + 1..Len(input')
    <3>1. i \in entry + 1..Len(input) /\ i + statics' + 0 = i + statics + 1
      BY <1>2, <1>3, <1>4
    <3> QED BY <3>1, <1>2, <1>7
  <2>3. \A k \in 1..statics' : funcs'[entry' + k] = CloneOf(Before, lengths[k])'
    BY <1>2, <1>6, <2>1
  <2>4. IsSeq(funcs') /\ Len(funcs') = Len(input') + statics' + 0
    BY <1>2, <1>3, <1>4, <1>7
  <2>5. /\ \A i \in 1..entry' - 1 : funcs'[i] = input'[i]
        /\ funcs'[entry'] = GenericOf(Before)'
    BY <1>2, <1>6, <1>7
  <2>6. 0 # 1
    OBVIOUS
  <2> QED BY <2>2, <2>3, <2>4, <2>5, <2>6 DEF Rewritten
<1>9. Normalized' /\ Found' /\ Accepted' /\ Limited' /\ NoClash'
  BY <1>1, <1>2, <1>6 DEF Normalized, Found, Accepted, Limited, NoClash, NewSymbolsOf
<1>10. statics' \in 0..Len(lengths') /\ name' = Before'.name
  BY <1>1, <1>2, <1>3, <1>6
<1> QED BY <1>1, <1>2, <1>8, <1>9, <1>10 DEF IInv, Checking, FromLengths, FromEntry, FromContract,
           FromBody, FromCollisions, FromEmission

LEMMA WrapperInvariant == ASSUME IInv, emitDispatchWrapper PROVE IInv'
<1>1. /\ phase = "clones" /\ IsModule(input) /\ statics = Len(lengths)
      /\ name = Before.name /\ Rewritten(statics, 0)
      /\ Normalized /\ Found /\ Accepted /\ Limited /\ NoClash
  BY DEF emitDispatchWrapper, IInv, FromLengths, FromEntry, FromContract, FromBody, FromCollisions,
     FromEmission
<1>2. UNCHANGED <<input, lengths, expose, entry, name, statics, error>> /\ phase' = "verify"
  BY DEF emitDispatchWrapper
<1>3. statics \in Nat
  BY <1>1, DomainOfSeq DEF Normalized
<1>4. Len(input) \in Nat /\ entry \in 1..Len(input)
  BY <1>1, TupleIsSeq, DomainOfSeq DEF Found, IsModule
<1> DEFINE e == WrapperOf(Before)
<1>5. funcs' = InsertAt(funcs, entry + statics + 1, e)
  <2>1. Entry = GenericOf(Before)
    BY <1>1 DEF Entry, Rewritten
  <2>2. Entry.visibility = Before.visibility /\ Entry.form = Before.form
    BY <2>1 DEF GenericOf
  <2>3. Wrapper = e
    BY <1>1, <2>2 DEF Wrapper, WrapperOf
  <2> QED BY <2>3 DEF emitDispatchWrapper
<1>6. /\ Before' = Before /\ GenericOf(Before)' = GenericOf(Before)
      /\ \A k : CloneOf(Before, lengths[k])' = CloneOf(Before, lengths[k])
      /\ WrapperOf(Before)' = WrapperOf(Before)
  BY <1>2 DEF Before, GenericOf, CloneOf, WrapperOf
<1>7. /\ IsSeq(funcs') /\ Len(funcs') = Len(input) + statics + 1
      /\ \A i \in 1..entry - 1 : funcs'[i] = input[i]
      /\ funcs'[entry] = GenericOf(Before)
      /\ \A k \in 1..statics : funcs'[entry + k] = CloneOf(Before, lengths[k])
      /\ funcs'[entry + statics + 1] = e
      /\ \A i \in entry + 1..Len(input) : funcs'[i + statics + 1] = input[i]
  <2> HIDE DEF e
  <2> DEFINE t == InsertAt(funcs, entry + statics + 1, e)
  <2>1. /\ IsSeq(t) /\ Len(t) = Len(input) + statics + 1
        /\ \A i \in 1..entry - 1 : t[i] = input[i]
        /\ t[entry] = GenericOf(Before)
        /\ \A k \in 1..statics : t[entry + k] = CloneOf(Before, lengths[k])
        /\ t[entry + statics + 1] = e
        /\ \A i \in entry + 1..Len(input) : t[i + statics + 1] = input[i]
    BY <1>1, <1>3, Inserted
  <2>2. funcs' = t
    BY <1>5
  <2> HIDE DEF t
  <2> QED BY <2>1, <2>2
<1>8. Rewritten(Len(lengths), 1)'
  <2>1. \A k \in 1..Len(lengths') : funcs'[entry' + k] = CloneOf(Before, lengths[k])'
    BY <1>1, <1>2, <1>6, <1>7
  <2>2. \A i \in entry' + 1..Len(input') : funcs'[i + Len(lengths') + 1] = input'[i]
    BY <1>1, <1>2, <1>7
  <2>3. IsSeq(funcs') /\ Len(funcs') = Len(input') + Len(lengths') + 1
    BY <1>1, <1>2, <1>7
  <2>4. /\ \A i \in 1..entry' - 1 : funcs'[i] = input'[i]
        /\ funcs'[entry'] = GenericOf(Before)'
        /\ funcs'[entry' + Len(lengths') + 1] = WrapperOf(Before)'
    BY <1>1, <1>2, <1>6, <1>7
  <2> QED BY <2>1, <2>2, <2>3, <2>4 DEF Rewritten
<1>9. Normalized' /\ Found' /\ Accepted' /\ Limited' /\ NoClash'
  BY <1>1, <1>2, <1>6 DEF Normalized, Found, Accepted, Limited, NoClash, NewSymbolsOf
<1>10. Done'
  BY <1>1, <1>2, <1>6, <1>8, <1>9 DEF Done, AllChecked
<1> QED BY <1>1, <1>2, <1>9, <1>10 DEF IInv, Checking, FromLengths, FromEntry, FromContract,
           FromBody, FromCollisions, FromEmission

-----------------------------------------------------------------------------
\* Where a function of the rewritten module that is not the generic function
\* or a clone comes from; the wrapper takes the entry's place.
IsOld(i, n)     == i \in 1..entry - 1 \/ i \in entry + n + 1..Len(funcs)
Origin(i, n, w) == IF i < entry THEN i ELSE IF i > entry + n + w THEN i - n - w ELSE entry
Suffix(i)       == IF i = entry THEN 0 ELSE lengths[i - entry]

LEMMA FoundEntry ==
  ASSUME IsModule(input), Found
  PROVE  /\ IsSeq(input) /\ Len(input) \in Nat /\ DOMAIN input = 1..Len(input)
         /\ entry \in 1..Len(input) /\ entry \in Nat
         /\ IsFunc(Before) /\ IsSeq(Before.name)
         /\ Before.calls \subseteq Symbols(input)
<1>1. IsSeq(input)
  BY TupleIsSeq DEF IsModule
<1>2. Len(input) \in Nat /\ DOMAIN input = 1..Len(input)
  BY <1>1, DomainOfSeq
<1>3. entry \in DOMAIN input
  BY DEF Found
<1>4. IsFunc(Before) /\ Before.calls \subseteq Symbols(input)
  BY <1>3 DEF Before, IsModule
<1>5. IsSeq(Before.name)
  BY <1>4, TupleIsSeq DEF IsFunc
<1> QED BY <1>1, <1>2, <1>3, <1>4, <1>5

LEMMA LengthsOf ==
  ASSUME Normalized
  PROVE  Len(lengths) \in Nat /\ DOMAIN lengths = 1..Len(lengths)
  BY DomainOfSeq DEF Normalized

LEMMA OldNames ==
  ASSUME IsModule(input), Found, NEW n \in 0..Len(lengths), NEW w \in {0, 1}, Rewritten(n, w), Normalized,
         NEW i \in DOMAIN funcs, IsOld(i, n)
  PROVE  /\ Origin(i, n, w) \in DOMAIN input
         /\ funcs[i].name = input[Origin(i, n, w)].name
         /\ Origin(i, n, w) = entry <=> w = 1 /\ i = entry + n + 1
         /\ Origin(i, n, w) # entry => funcs[i] = input[Origin(i, n, w)]
<1>1. /\ Len(input) \in Nat /\ entry \in 1..Len(input) /\ n \in Nat
      /\ DOMAIN input = 1..Len(input)
  BY FoundEntry, LengthsOf
<1>2. DOMAIN funcs = 1..Len(funcs) /\ Len(funcs) = Len(input) + n + w
  BY DomainOfSeq DEF Rewritten
<1>3. CASE i \in 1..entry - 1
  <2>1. funcs[i] = input[i]
    BY <1>3 DEF Rewritten
  <2>2. Origin(i, n, w) = i /\ i # entry + n + 1 /\ i \in DOMAIN input /\ i # entry
    BY <1>1, <1>3 DEF Origin
  <2> QED BY <2>1, <2>2
<1>4. CASE w = 1 /\ i = entry + n + 1
  <2>1. funcs[i] = WrapperOf(Before)
    BY <1>4 DEF Rewritten
  <2>2. Origin(i, n, w) = entry
    BY <1>1, <1>4 DEF Origin
  <2>3. funcs[i].name = Before.name
    BY <2>1 DEF WrapperOf, Func
  <2> QED BY <2>2, <2>3, <1>1, <1>4 DEF Before
<1>5. CASE i \in entry + n + 1..Len(funcs) /\ ~ (w = 1 /\ i = entry + n + 1)
  <2>1. i > entry + n + w /\ i - n - w \in entry + 1..Len(input) /\ (i - n - w) + n + w = i
    BY <1>1, <1>2, <1>5
  <2>2. Origin(i, n, w) = i - n - w
    BY <1>1, <2>1 DEF Origin
  <2>3. funcs[i] = input[i - n - w]
    BY <2>1 DEF Rewritten
  <2>4. i - n - w \in DOMAIN input /\ i - n - w # entry
    BY <1>1, <2>1
  <2> QED BY <2>2, <2>3, <2>4, <1>5
<1> QED BY <1>3, <1>4, <1>5 DEF IsOld

LEMMA NewNames ==
  ASSUME Found, IsModule(input), NEW n \in 0..Len(lengths), NEW w \in {0, 1}, Rewritten(n, w),
         Normalized, NEW i \in entry..entry + n
  PROVE  /\ IsSeq(Before.name)
         /\ funcs[i].name = Append(Before.name, Suffix(i))
         /\ funcs[i].name \in NewSymbolsOf(Before)
<1>1. /\ Len(input) \in Nat /\ entry \in 1..Len(input) /\ n \in Nat /\ Len(lengths) \in Nat
      /\ DOMAIN lengths = 1..Len(lengths)
  BY FoundEntry, LengthsOf
<1>2. IsSeq(Before.name)
  BY FoundEntry
<1>3. CASE i = entry
  <2>1. funcs[i] = GenericOf(Before)
    BY <1>3 DEF Rewritten
  <2>2. funcs[i].name = GenericName(Before.name)
    BY <2>1, FoundEntry DEF GenericOf, IsFunc, Func
  <2> QED BY <1>2, <1>3, <2>2 DEF GenericName, Suffix, NewSymbolsOf
<1>4. CASE i # entry
  <2> DEFINE k == i - entry
  <2>1. k \in 1..n /\ k \in DOMAIN lengths /\ entry + k = i
    BY <1>1, <1>4
  <2>2. funcs[i] = CloneOf(Before, lengths[k])
    BY <2>1 DEF Rewritten
  <2>3. funcs[i].name = StaticName(Before.name, lengths[k])
    BY <2>2 DEF CloneOf, GenericOf
  <2> QED BY <1>2, <1>4, <2>1, <2>3 DEF StaticName, Suffix, NewSymbolsOf
<1> QED BY <1>3, <1>4

LEMMA UniqueNames ==
  ASSUME Found, IsModule(input), NEW n \in 0..Len(lengths), NEW w \in {0, 1}, Rewritten(n, w),
         Normalized, NoClash,
         NEW i \in DOMAIN funcs, NEW j \in DOMAIN funcs, funcs[i].name = funcs[j].name
  PROVE  i = j
<1>1. /\ Len(input) \in Nat /\ entry \in 1..Len(input) /\ n \in Nat /\ Len(lengths) \in Nat
      /\ DOMAIN lengths = 1..Len(lengths)
  BY FoundEntry, LengthsOf
<1>2. DOMAIN funcs = 1..Len(funcs) /\ Len(funcs) = Len(input) + n + w
  BY DomainOfSeq DEF Rewritten
<1>3. \A p \in DOMAIN funcs : IsOld(p, n) \/ p \in entry..entry + n
  BY <1>1, <1>2 DEF IsOld
<1>4. \A p \in DOMAIN funcs : IsOld(p, n) => funcs[p].name \in Symbols(input)
  BY OldNames DEF Symbols
<1>5. \A p \in entry..entry + n : funcs[p].name \notin Symbols(input)
  BY NewNames DEF NoClash
<1>6. CASE IsOld(i, n) /\ IsOld(j, n)
  <2>1. /\ Origin(i, n, w) \in DOMAIN input
        /\ funcs[i].name = input[Origin(i, n, w)].name
    BY <1>6, OldNames
  <2>2. /\ Origin(j, n, w) \in DOMAIN input
        /\ funcs[j].name = input[Origin(j, n, w)].name
    BY <1>6, OldNames
  <2>3. Origin(i, n, w) = Origin(j, n, w)
    BY <2>1, <2>2 DEF IsModule
  <2> QED BY <2>3, <1>1, <1>2, <1>6 DEF Origin, IsOld
<1>7. CASE i \in entry..entry + n /\ j \in entry..entry + n
  <2>1. IsSeq(Before.name) /\ funcs[i].name = Append(Before.name, Suffix(i))
    BY <1>7, NewNames
  <2>2. funcs[j].name = Append(Before.name, Suffix(j))
    BY <1>7, NewNames
  <2>3. Suffix(i) = Suffix(j)
    BY <2>1, <2>2, AppendOfDistinct
  <2>4. \A p \in entry..entry + n : p # entry => p - entry \in DOMAIN lengths
    BY <1>1
  <2>5. \A p, q \in entry..entry + n : p < q => Suffix(p) < Suffix(q)
    <3> SUFFICES ASSUME NEW p \in entry..entry + n, NEW q \in entry..entry + n, p < q
                 PROVE  Suffix(p) < Suffix(q)
      OBVIOUS
    <3>1. q # entry /\ q - entry \in DOMAIN lengths /\ Suffix(q) = lengths[q - entry]
          /\ lengths[q - entry] \in Nat \ {0}
      BY <1>1, <2>4 DEF Suffix, Normalized
    <3>2. CASE p = entry
      BY <3>1, <3>2 DEF Suffix
    <3>3. CASE p # entry
      <4>1. p - entry \in DOMAIN lengths /\ Suffix(p) = lengths[p - entry] /\ p - entry < q - entry
        BY <3>3, <1>1, <2>4 DEF Suffix
      <4> QED BY <4>1, <3>1 DEF Normalized
    <3> QED BY <3>2, <3>3
  <2>6. Suffix(i) \in Nat /\ Suffix(j) \in Nat
    BY <1>7, <2>4 DEF Suffix, Normalized
  <2>7. i \in Nat /\ j \in Nat /\ ~ (i < j) /\ ~ (j < i)
    BY <1>1, <1>7, <2>3, <2>5, <2>6
  <2> QED BY <2>7
<1>8. CASE IsOld(i, n) /\ j \in entry..entry + n
  BY <1>8, <1>4, <1>5
<1>9. CASE i \in entry..entry + n /\ IsOld(j, n)
  BY <1>9, <1>4, <1>5
<1> QED BY <1>3, <1>6, <1>7, <1>8, <1>9

-----------------------------------------------------------------------------
\* Every symbol of the input is still there, and so are the new ones.
LEMMA DoneSymbols ==
  ASSUME IsModule(input), Done
  PROVE  Symbols(input) \subseteq Symbols(funcs) /\ NewSymbolsOf(Before) \subseteq Symbols(funcs)
<1> DEFINE m == Len(lengths)
<1>1. /\ Found /\ Normalized /\ Rewritten(m, 1) /\ m \in Nat /\ DOMAIN lengths = 1..m
      /\ Len(input) \in Nat /\ entry \in 1..Len(input) /\ DOMAIN input = 1..Len(input)
  BY FoundEntry, LengthsOf DEF Done, AllChecked
<1>2. DOMAIN funcs = 1..Len(funcs) /\ Len(funcs) = Len(input) + m + 1
  BY DomainOfSeq, <1>1 DEF Rewritten
<1> HIDE DEF m
<1>3. ASSUME NEW j \in DOMAIN input PROVE input[j].name \in Symbols(funcs)
  <2>1. CASE j < entry
    <3>1. j \in DOMAIN funcs /\ funcs[j] = input[j]
      BY <1>1, <1>2, <2>1 DEF Rewritten
    <3> QED BY <3>1 DEF Symbols
  <2>2. CASE j = entry
    <3>1. entry + m + 1 \in DOMAIN funcs /\ funcs[entry + m + 1] = WrapperOf(Before)
      BY <1>1, <1>2 DEF Rewritten
    <3>2. funcs[entry + m + 1].name = input[j].name
      BY <2>2, <3>1 DEF WrapperOf, Func, Before
    <3> QED BY <3>1, <3>2 DEF Symbols
  <2>3. CASE j > entry
    <3>1. j + m + 1 \in DOMAIN funcs /\ funcs[j + m + 1] = input[j]
      BY <1>1, <1>2, <2>3 DEF Rewritten
    <3> QED BY <3>1 DEF Symbols
  <2> QED BY <1>1, <2>1, <2>2, <2>3
<1>4. GenericName(Before.name) \in Symbols(funcs)
  <2>1. entry \in DOMAIN funcs /\ entry \in entry..entry + m /\ Suffix(entry) = 0
    BY <1>1, <1>2 DEF Suffix
  <2>2. funcs[entry].name = Append(Before.name, Suffix(entry))
    BY <1>1, <2>1, NewNames DEF m
  <2> QED BY <2>1, <2>2 DEF Symbols, GenericName
<1>5. ASSUME NEW k \in DOMAIN lengths PROVE StaticName(Before.name, lengths[k]) \in Symbols(funcs)
  <2>1. entry + k \in DOMAIN funcs /\ entry + k \in entry..entry + m /\ (entry + k) - entry = k
        /\ entry + k # entry
    BY <1>1, <1>2
  <2>2. funcs[entry + k].name = Append(Before.name, Suffix(entry + k))
    BY <1>1, <2>1, NewNames DEF m
  <2>3. Suffix(entry + k) = lengths[k]
    BY <2>1 DEF Suffix
  <2> QED BY <2>1, <2>2, <2>3 DEF Symbols, StaticName
<1>6. Symbols(input) \subseteq Symbols(funcs)
  BY <1>3 DEF Symbols
<1>7. NewSymbolsOf(Before) \subseteq Symbols(funcs)
  BY <1>4, <1>5 DEF NewSymbolsOf
<1> QED BY <1>6, <1>7

\* A function, field by field.
Fields(f) == [name |-> f.name, markers |-> f.markers, visibility |-> f.visibility, form |-> f.form,
              valid |-> f.valid, calls |-> f.calls, pinned |-> f.pinned, length |-> f.length]

LEMMA FuncFields == ASSUME NEW f, IsFunc(f) PROVE f = Fields(f)
  BY DEF IsFunc, Func, Fields

LEMMA RecordIsFunc ==
  ASSUME NEW a, NEW b, NEW c, NEW d, NEW e, NEW f, NEW g, NEW h, IsTuple(a), b \subseteq Markers
  PROVE  IsFunc([name |-> a, markers |-> b, visibility |-> c, form |-> d,
                 valid |-> e, calls |-> f, pinned |-> g, length |-> h])
  BY DEF IsFunc, Func

LEMMA GenericFields ==
  ASSUME NEW f, f = Fields(f), f.markers \subseteq Markers
  PROVE  GenericOf(f) = [Fields(f) EXCEPT !.name = GenericName(f.name), !.markers = {}]
<1>1. f.markers \ Markers = {}
  OBVIOUS
<1>2. GenericOf(f) = [f EXCEPT !.name = GenericName(f.name), !.markers = f.markers \ Markers]
  BY DEF GenericOf, Fields
<1> QED BY <1>1, <1>2

LEMMA NewFunctionsAreFuncs ==
  ASSUME IsFunc(Before), NEW n
  PROVE  /\ IsFunc(GenericOf(Before)) /\ IsFunc(CloneOf(Before, n)) /\ IsFunc(WrapperOf(Before))
         /\ GenericOf(Before).calls = Before.calls
         /\ CloneOf(Before, n).calls = Before.calls
         /\ WrapperOf(Before).calls = NewSymbolsOf(Before)
         /\ GenericOf(Before).markers = {} /\ CloneOf(Before, n).markers = {}
         /\ WrapperOf(Before).markers = {}
<1>1. IsSeq(Before.name) /\ Before.markers \subseteq Markers
  BY TupleIsSeq DEF IsFunc
<1>2. IsTuple(Before.name) /\ IsTuple(GenericName(Before.name)) /\ IsTuple(StaticName(Before.name, n))
  <2>1. IsSeq(Append(Before.name, 0)) /\ IsSeq(Append(Before.name, n))
    BY <1>1, AppendIsSeq
  <2> QED BY <1>1, <2>1, TupleIsSeq DEF GenericName, StaticName
<1>3. Before = Fields(Before)
  BY FuncFields
<1>4. GenericOf(Before) = [Fields(Before) EXCEPT !.name = GenericName(Before.name), !.markers = {}]
  BY <1>1, <1>3, GenericFields
<1>5. CloneOf(Before, n) =
        [Fields(Before) EXCEPT !.name = StaticName(Before.name, n),
                               !.markers = {},
                               !.visibility = IF expose THEN "public" ELSE "private",
                               !.form = "static",
                               !.length = n]
  BY <1>4 DEF CloneOf, Fields
<1>6. IsFunc(GenericOf(Before))
  <2>1. GenericOf(Before) =
          [name |-> GenericName(Before.name), markers |-> {}, visibility |-> Before.visibility,
           form |-> Before.form, valid |-> Before.valid, calls |-> Before.calls,
           pinned |-> Before.pinned, length |-> Before.length]
    BY <1>4 DEF Fields
  <2> QED BY <2>1, <1>2, RecordIsFunc
<1>7. IsFunc(CloneOf(Before, n))
  <2> DEFINE visibility == IF expose THEN "public" ELSE "private"
  <2>1. CloneOf(Before, n) =
          [name |-> StaticName(Before.name, n), markers |-> {}, visibility |-> visibility,
           form |-> "static", valid |-> Before.valid, calls |-> Before.calls,
           pinned |-> Before.pinned, length |-> n]
    BY <1>5 DEF Fields
  <2> HIDE DEF visibility
  <2> QED BY <2>1, <1>2, RecordIsFunc
<1>8. IsFunc(WrapperOf(Before))
  BY <1>2 DEF IsFunc, Func, WrapperOf
<1>9. /\ GenericOf(Before).calls = Before.calls /\ GenericOf(Before).markers = {}
      /\ CloneOf(Before, n).calls = Before.calls /\ CloneOf(Before, n).markers = {}
  BY <1>4, <1>5 DEF Fields
<1>10. WrapperOf(Before).calls = NewSymbolsOf(Before) /\ WrapperOf(Before).markers = {}
  BY DEF Func, WrapperOf, NewSymbolsOf
<1> QED BY <1>6, <1>7, <1>8, <1>9, <1>10

\* The functions of a rewritten module, by position.
LEMMA Positions ==
  ASSUME IsModule(input), Found, NEW n \in Nat, NEW w \in {0, 1}, Rewritten(n, w),
         NEW i \in DOMAIN funcs
  PROVE  \/ i \in DOMAIN input /\ i # entry /\ i < entry /\ funcs[i] = input[i]
         \/ i = entry /\ funcs[i] = GenericOf(Before)
         \/ \E k \in 1..n : i = entry + k /\ funcs[i] = CloneOf(Before, lengths[k])
         \/ w = 1 /\ i = entry + n + 1 /\ funcs[i] = WrapperOf(Before)
         \/ /\ i - n - w \in DOMAIN input /\ i - n - w > entry /\ i > entry + n + w
            /\ funcs[i] = input[i - n - w]
<1>1. Len(input) \in Nat /\ entry \in 1..Len(input) /\ DOMAIN input = 1..Len(input)
  BY FoundEntry
<1>2. DOMAIN funcs = 1..Len(funcs) /\ Len(funcs) = Len(input) + n + w
  BY DomainOfSeq DEF Rewritten
<1>3. CASE i \in 1..entry - 1
  BY <1>1, <1>3 DEF Rewritten
<1>4. CASE i = entry
  BY <1>4 DEF Rewritten
<1>5. CASE i \in entry + 1..entry + n
  <2>1. i - entry \in 1..n /\ i = entry + (i - entry)
    BY <1>1, <1>5
  <2>2. funcs[i] = CloneOf(Before, lengths[i - entry])
    BY <2>1 DEF Rewritten
  <2> QED BY <2>1, <2>2
<1>6. CASE w = 1 /\ i = entry + n + 1
  BY <1>6 DEF Rewritten
<1>7. CASE i \in entry + n + w + 1..Len(funcs)
  <2>1. i - n - w \in entry + 1..Len(input) /\ (i - n - w) + n + w = i
    BY <1>1, <1>2, <1>7
  <2>2. funcs[i] = input[i - n - w]
    BY <2>1 DEF Rewritten
  <2> QED BY <2>1, <2>2, <1>1, <1>7
<1>8. \/ i \in 1..entry - 1 \/ i = entry \/ i \in entry + 1..entry + n
      \/ w = 1 /\ i = entry + n + 1
      \/ i \in entry + n + w + 1..Len(funcs)
  BY <1>1, <1>2
<1> QED BY <1>3, <1>4, <1>5, <1>6, <1>7, <1>8

\* What the emission makes of a module is a module again.
LEMMA DoneIsModule == ASSUME IsModule(input), Done PROVE IsModule(funcs)
<1> DEFINE m == Len(lengths)
<1>1. Found /\ Normalized /\ NoClash /\ Rewritten(m, 1) /\ m \in Nat /\ m \in 0..m
  BY LengthsOf DEF Done, AllChecked
<1>2. IsTuple(funcs)
  BY <1>1, TupleIsSeq DEF Rewritten
<1>3. Symbols(input) \subseteq Symbols(funcs) /\ NewSymbolsOf(Before) \subseteq Symbols(funcs)
  BY DoneSymbols
<1>4. IsFunc(Before) /\ Before.calls \subseteq Symbols(input)
  BY <1>1, FoundEntry
<1> HIDE DEF m
<1>5. ASSUME NEW i \in DOMAIN funcs
      PROVE  IsFunc(funcs[i]) /\ funcs[i].calls \subseteq Symbols(funcs)
  <2>1. CASE i \in DOMAIN input /\ funcs[i] = input[i]
    BY <2>1, <1>3 DEF IsModule
  <2>2. CASE funcs[i] = GenericOf(Before)
    BY <2>2, <1>3, <1>4, NewFunctionsAreFuncs
  <2>3. CASE \E k \in 1..m : i = entry + k /\ funcs[i] = CloneOf(Before, lengths[k])
    BY <2>3, <1>3, <1>4, NewFunctionsAreFuncs
  <2>4. CASE funcs[i] = WrapperOf(Before)
    BY <2>4, <1>3, <1>4, NewFunctionsAreFuncs
  <2>5. CASE i - m - 1 \in DOMAIN input /\ funcs[i] = input[i - m - 1]
    BY <2>5, <1>3 DEF IsModule
  <2> QED BY <1>1, <2>1, <2>2, <2>3, <2>4, <2>5, Positions
<1>6. \A i, j \in DOMAIN funcs : funcs[i].name = funcs[j].name => i = j
  BY <1>1, UniqueNames DEF m
<1> QED BY <1>2, <1>5, <1>6 DEF IsModule

LEMMA VerifyInvariant == ASSUME IInv, VerifyModule PROVE IInv'
<1>1. phase = "verify" /\ IsModule(input) /\ Done
  BY DEF VerifyModule, IInv
<1>2. UNCHANGED <<input, funcs, lengths, expose, entry, name, statics>>
  BY DEF VerifyModule
<1>3. IsModule(funcs)
  BY <1>1, DoneIsModule
<1>4. Done'
  BY <1>1, <1>2, Frozen
<1>5. \/ phase' = "failed" /\ error' = "verify"
      \/ phase' = "succeeded"
  BY DEF VerifyModule, Fail
<1> QED BY <1>1, <1>2, <1>3, <1>4, <1>5 DEF IInv, Checking, FromLengths, FromEntry, FromContract,
           FromBody, FromCollisions, FromEmission

LEMMA StutterInvariant == ASSUME IInv, UNCHANGED vars PROVE IInv'
<1>1. UNCHANGED <<input, funcs, lengths, expose, entry, name, statics, phase, error>>
  BY DEF vars
<1>2. /\ Normalized' <=> Normalized
      /\ Found' <=> Found
      /\ Accepted' <=> Accepted
      /\ Limited' <=> Limited
      /\ NoClash' <=> NoClash
      /\ Rewritten(statics, 0)' <=> Rewritten(statics, 0)
      /\ Before' = Before
      /\ Done' <=> Done
      /\ Entries' = Entries
  BY <1>1, Frozen
<1> QED BY <1>1, <1>2 DEF IInv, Checking, FromLengths, FromEntry, FromContract,
           FromBody, FromCollisions, FromEmission

\* Whatever the input and the options, the pass rewrites the module as the
\* invariant says, or leaves it alone.
THEOREM Invariant == Spec => []IInv
<1>1. Init => IInv
  BY InitInvariant
<1>2. IInv /\ [Next]_vars => IInv'
  BY RunInvariant, MarkInvariant, ReloadInvariant, NormalizeInvariant, FindInvariant,
     ContractInvariant, LimitInvariant, BodyInvariant, CollisionsInvariant, RenameInvariant,
     CloneInvariant, WrapperInvariant, VerifyInvariant, StutterInvariant DEF Next, runOnOperation
<1> QED BY <1>1, <1>2, PTL DEF Spec

-----------------------------------------------------------------------------
\* The pass leaves no function with the marker of an entry behind.
LEMMA DoneUnmarked == ASSUME IsModule(input), Done PROVE Entries = {}
<1> DEFINE m == Len(lengths)
<1>1. Found /\ Normalized /\ Rewritten(m, 1) /\ m \in Nat
  BY LengthsOf DEF Done, AllChecked
<1>2. IsFunc(Before) /\ entry \in Nat
  BY <1>1, FoundEntry
<1> HIDE DEF m
<1>3. ASSUME NEW i \in DOMAIN funcs PROVE "shortseq.entry" \notin funcs[i].markers
  <2>1. CASE i \in DOMAIN input /\ i # entry /\ funcs[i] = input[i]
    BY <2>1, <1>1 DEF Found
  <2>2. CASE funcs[i] = GenericOf(Before)
    BY <2>2, <1>2, NewFunctionsAreFuncs
  <2>3. CASE \E k \in 1..m : i = entry + k /\ funcs[i] = CloneOf(Before, lengths[k])
    BY <2>3, <1>2, NewFunctionsAreFuncs
  <2>4. CASE funcs[i] = WrapperOf(Before)
    BY <2>4, <1>2, NewFunctionsAreFuncs
  <2>5. CASE i - m - 1 \in DOMAIN input /\ i - m - 1 > entry /\ funcs[i] = input[i - m - 1]
    <3>1. i - m - 1 # entry
      BY <2>5, <1>2
    <3> QED BY <3>1, <2>5, <1>1 DEF Found
  <2> QED BY <1>1, <2>1, <2>2, <2>3, <2>4, <2>5, Positions
<1> QED BY <1>3 DEF Entries

LEMMA PhaseCases ==
  ASSUME IInv
  PROVE  \/ phase \in {"idle", "succeeded"} /\ IsModule(funcs)
         \/ phase \in Checking /\ funcs = input
         \/ phase = "failed" /\ error # "verify" /\ funcs = input
         \/ phase = "clones"
         \/ phase \in {"verify", "failed"} /\ Done
  BY DEF IInv, Checking, FromLengths, FromEntry, FromContract, FromBody, FromCollisions, FromEmission

\* No two functions ever share a symbol, and no call dangles at the end.
LEMMA SymbolsSoundLemma == IInv => SymbolsSound
<1> SUFFICES ASSUME IInv PROVE SymbolsSound
  OBVIOUS
<1>1. IsModule(input)
  BY DEF IInv
<1>2. CASE IsModule(funcs)
  BY <1>2 DEF IsModule, SymbolsSound
<1>3. CASE phase \in Checking /\ funcs = input
  BY <1>1, <1>3, <1>2
<1>4. CASE phase = "failed" /\ funcs = input
  BY <1>1, <1>4, <1>2
<1>5. CASE phase = "clones"
  <2>1. Found /\ Normalized /\ NoClash /\ Rewritten(statics, 0) /\ statics \in 0..Len(lengths)
    BY <1>5 DEF IInv, FromLengths, FromEntry, FromContract, FromBody, FromCollisions, FromEmission
  <2>2. \A i, j \in DOMAIN funcs : funcs[i].name = funcs[j].name => i = j
    BY <1>1, <2>1, UniqueNames
  <2> QED BY <1>5, <2>2 DEF SymbolsSound
<1>6. CASE Done
  BY <1>1, <1>2, <1>6, DoneIsModule
<1> QED BY <1>2, <1>3, <1>4, <1>5, <1>6, PhaseCases

\* Renaming, clones and wrapper never define a symbol twice and leave no call
\* dangling.
THEOREM UniqueSymbols == Spec => []SymbolsSound
  BY Invariant, SymbolsSoundLemma, PTL

\* Only a failure of the verifier leaves new functions behind.
THEOREM Rejected == Spec => []RejectedUnchanged
<1>1. IInv => RejectedUnchanged
  BY DEF IInv, RejectedUnchanged
<1> QED BY <1>1, Invariant, PTL

\* The generic function is called by the wrapper alone, and the wrapper has
\* taken the entry's place.
LEMMA CallersLemma == IInv => CallersReachWrapper
<1> SUFFICES ASSUME IInv, phase = "succeeded" /\ Entries = {} PROVE CallersReachWrapper
  BY DEF CallersReachWrapper
<1> DEFINE m == Len(lengths)
<1>1. /\ IsModule(input) /\ Found /\ Normalized /\ NoClash /\ Rewritten(m, 1) /\ Done
      /\ m \in Nat /\ m \in 0..m
  BY LengthsOf DEF IInv, Done, AllChecked
<1>2. IsFunc(Before) /\ entry \in Nat /\ Before.calls \subseteq Symbols(input)
  BY <1>1, FoundEntry
<1>3. input[CHOOSE i \in DOMAIN input : "shortseq.entry" \in input[i].markers] = Before
  BY <1>1 DEF Found, Before
<1>4. \A i, j \in DOMAIN funcs : funcs[i].name = funcs[j].name => i = j
  BY <1>1, UniqueNames
<1>5. DOMAIN funcs = 1..Len(funcs) /\ Len(funcs) = Len(input) + m + 1
  BY <1>1, DomainOfSeq DEF Rewritten
<1>6. Len(input) \in Nat /\ entry \in 1..Len(input)
  BY <1>1, FoundEntry
<1>7. /\ entry + m + 1 \in DOMAIN funcs
      /\ funcs[entry + m + 1] = WrapperOf(Before)
      /\ entry \in DOMAIN funcs
      /\ funcs[entry] = GenericOf(Before)
  BY <1>1, <1>5, <1>6 DEF Rewritten
<1> HIDE DEF m
<1>8. /\ GenericOf(Before) = [Before EXCEPT !.name = GenericName(Before.name), !.markers = {}]
      /\ GenericOf(Before).name = GenericName(Before.name)
  <2>1. Before = Fields(Before) /\ Before.markers \subseteq Markers
    BY <1>2, FuncFields DEF IsFunc
  <2>2. GenericOf(Before) = [Fields(Before) EXCEPT !.name = GenericName(Before.name), !.markers = {}]
    BY <2>1, GenericFields
  <2>3. GenericOf(Before).name = GenericName(Before.name)
    BY <2>2 DEF Fields
  <2> QED BY <2>1, <2>2, <2>3
<1>9. FuncNamed(Before.name) = entry + m + 1
  <2>1. funcs[entry + m + 1].name = Before.name
    BY <1>7 DEF WrapperOf, Func
  <2> QED BY <2>1, <1>4, <1>7 DEF FuncNamed
<1>10. FuncNamed(GenericName(Before.name)) = entry
  BY <1>8, <1>4, <1>7 DEF FuncNamed
<1>11. GenericName(Before.name) \notin Symbols(input)
  BY <1>1 DEF NoClash, NewSymbolsOf
<1>12. ASSUME NEW i \in DOMAIN funcs, GenericName(Before.name) \in funcs[i].calls
       PROVE  funcs[i] = WrapperOf(Before)
  <2>1. CASE i \in DOMAIN input /\ funcs[i] = input[i]
    BY <2>1, <1>1, <1>11, <1>12 DEF IsModule
  <2>2. CASE funcs[i] = GenericOf(Before)
    BY <2>2, <1>2, <1>11, <1>12, NewFunctionsAreFuncs
  <2>3. CASE \E k \in 1..m : i = entry + k /\ funcs[i] = CloneOf(Before, lengths[k])
    BY <2>3, <1>2, <1>11, <1>12, NewFunctionsAreFuncs
  <2>5. CASE i - m - 1 \in DOMAIN input /\ funcs[i] = input[i - m - 1]
    BY <2>5, <1>1, <1>11, <1>12 DEF IsModule
  <2> QED BY <1>1, <2>1, <2>2, <2>3, <2>5, Positions
<1>13. WrapperOf(Before).visibility = Before.visibility /\ WrapperOf(Before).form = Before.form
  BY DEF WrapperOf, Func
<1> QED BY <1>3, <1>7, <1>8, <1>9, <1>10, <1>12, <1>13 DEF CallersReachWrapper

\* Who called the entry calls the wrapper, and only the wrapper calls the
\* generic function.
THEOREM Callers == Spec => []CallersReachWrapper
  BY Invariant, CallersLemma, PTL

\* The rewritten module is laid out as the pass promises.
LEMMA LayoutLemma == IInv => Layout
<1> SUFFICES ASSUME IInv, phase = "succeeded" /\ Entries = {} PROVE Layout
  BY DEF Layout
<1> DEFINE m == Len(lengths)
           others == {i \in DOMAIN funcs : i < entry \/ i > entry + m + 1}
           at(i)  == IF i < entry THEN i ELSE i - m - 1
<1>1. /\ IsModule(input) /\ Found /\ Normalized /\ Accepted /\ Limited /\ Rewritten(m, 1)
      /\ name = Before.name /\ m \in Nat /\ DOMAIN lengths = 1..m
  BY LengthsOf DEF IInv, Done, AllChecked
<1>2. /\ IsFunc(Before) /\ entry \in Nat /\ Len(input) \in Nat /\ entry \in 1..Len(input)
      /\ DOMAIN input = 1..Len(input)
  BY <1>1, FoundEntry
<1>3. DOMAIN funcs = 1..Len(funcs) /\ Len(funcs) = Len(input) + m + 1
  BY <1>1, DomainOfSeq DEF Rewritten
<1>4. funcs[entry].form = Before.form
  <2>1. funcs[entry] = GenericOf(Before)
    BY <1>1 DEF Rewritten
  <2> QED BY <2>1 DEF GenericOf
<1>5. ASSUME NEW i \in DOMAIN lengths
      PROVE  /\ funcs[entry + i].name = StaticName(name, lengths[i])
             /\ funcs[entry + i].length = lengths[i]
             /\ funcs[entry + i].visibility = IF expose THEN "public" ELSE "private"
             /\ funcs[entry + i].markers = {}
  <2>1. funcs[entry + i] = CloneOf(Before, lengths[i])
    BY <1>1 DEF Rewritten
  <2>2. CloneOf(Before, lengths[i]).markers = {}
    BY <1>2, NewFunctionsAreFuncs
  <2>3. Before = Fields(Before) /\ Before.markers \subseteq Markers
    BY <1>2, FuncFields DEF IsFunc
  <2>4. GenericOf(Before) = [Fields(Before) EXCEPT !.name = GenericName(Before.name), !.markers = {}]
    BY <2>3, GenericFields
  <2>5. /\ CloneOf(Before, lengths[i]).name = StaticName(Before.name, lengths[i])
        /\ CloneOf(Before, lengths[i]).length = lengths[i]
        /\ CloneOf(Before, lengths[i]).visibility = IF expose THEN "public" ELSE "private"
    BY <2>4 DEF CloneOf, Fields
  <2> QED BY <1>1, <2>1, <2>2, <2>5
<1>6. ASSUME NEW i \in DOMAIN lengths
      PROVE  /\ i > 1 => lengths[i - 1] < lengths[i]
             /\ lengths[i] > 0
             /\ funcs[entry].form = "E5" => lengths[i] <= kE5MaxSequenceLength
  <2>1. i > 1 => i - 1 \in DOMAIN lengths /\ i - 1 < i
    BY <1>1
  <2>2. i > 1 => lengths[i - 1] < lengths[i]
    BY <2>1, <1>1 DEF Normalized
  <2>3. lengths[i] > 0
    BY <1>1 DEF Normalized
  <2>4. funcs[entry].form = "E5" => lengths[i] <= kE5MaxSequenceLength
    BY <1>1, <1>4 DEF Accepted, Limited
  <2> QED BY <2>2, <2>3, <2>4
<1>7. funcs[entry + m + 1].name = name
  <2>1. funcs[entry + m + 1] = WrapperOf(Before)
    BY <1>1 DEF Rewritten
  <2> QED BY <2>1, <1>1 DEF WrapperOf, Func
<1>8. \A i \in others : funcs[i] = input[at(i)]
  <2> TAKE i \in others
  <2>1. CASE i < entry
    <3>1. i \in 1..entry - 1 /\ at(i) = i
      BY <2>1, <1>2, <1>3
    <3> QED BY <3>1, <1>1 DEF Rewritten
  <2>2. CASE i > entry + m + 1
    <3>1. i - m - 1 \in entry + 1..Len(input) /\ (i - m - 1) + m + 1 = i /\ at(i) = i - m - 1
      BY <2>2, <1>1, <1>2, <1>3
    <3> QED BY <3>1, <1>1 DEF Rewritten
  <2> QED BY <2>1, <2>2
<1> QED BY <1>3, <1>5, <1>6, <1>7, <1>8 DEF Layout

\* One clone for each requested length, in order, and the rest of the module
\* as it was.
THEOREM LaidOut == Spec => []Layout
  BY Invariant, LayoutLemma, PTL

\* The marker is set by the verifier's success on a module without an entry.
THEOREM Earned == Spec => RanIsEarned
<1> DEFINE Earns == ran' # ran => /\ \A i \in DOMAIN funcs : Verifies(funcs[i])
                                  /\ Entries = {}
<1>1. IInv /\ [Next]_vars => [Earns]_vars
  <2> SUFFICES ASSUME IInv, Next, ran' # ran
               PROVE  (\A i \in DOMAIN funcs : Verifies(funcs[i])) /\ Entries = {}
    OBVIOUS
  <2>1. VerifyModule
    BY DEF Next, runOnOperation, Run, Mark, Reload, normalizeSpecializationLengths, FindEntry,
       validateEntry, validateE5Lengths, validateSpecializedBody, CheckCollisions, RenameEntry,
       EmitClone, emitDispatchWrapper
  <2>2. \A i \in DOMAIN funcs : Verifies(funcs[i])
    BY <2>1 DEF VerifyModule
  <2>3. IsModule(input) /\ Done
    BY <2>1 DEF VerifyModule, IInv
  <2> QED BY <2>2, <2>3, DoneUnmarked
<1>2. [][Earns]_vars => RanIsEarned
  BY PTL DEF RanIsEarned
<1> QED BY <1>1, <1>2, Invariant, PTL DEF Spec

===============================================================================
