---------------------------- MODULE SpecializePass ----------------------------
(***************************************************************************)
(* runOnOperation of lib/ShortSeqSpecializePass.cpp on a module: options,  *)
(* the choice and the checks of the entry, the renaming, the clones and    *)
(* the dispatch wrapper, the verifier, and the shortseq.ran marker.  The   *)
(* pass may run again, on the same input or on its own output with another *)
(* function marked.                                                        *)
(*                                                                         *)
(* A function keeps the contract its signature has (SpecializedBody and    *)
(* EntrySignature say how the validators decide), whether its body is one  *)
(* they accept, and the symbols it calls.  A name is a root followed by    *)
(* suffixes: "_generic" is 0 and "_s" <n> is n.                            *)
(***************************************************************************)
EXTENDS TensorTypes, SequencesExt

CONSTANTS
  Inputs,         \* modules the pass may be given
  LengthOptions,  \* values of --lengths, as the user writes them
  MaxRuns         \* bound on the runs of one behaviour

VARIABLES
  phase,    \* the next step of runOnOperation
  input,    \* the module this run was given
  funcs,    \* the module: its functions in order
  ran,      \* whether the module carries shortseq.ran
  lengths,  \* the lengths option, then the normalized lengths
  expose,   \* the expose-static-variants option
  entry,    \* the position of the entry, 0 before it is found
  name,     \* originalName
  statics,  \* how many clones have been emitted
  error,    \* the check that failed
  runs      \* how many runs have started

vars == <<phase, input, funcs, ran, lengths, expose, entry, name, statics,
          error, runs>>

Markers == {"shortseq.entry", "shortseq.stage_b", "shortseq.e5_small_v2"}

\* A function of a module.  "pinned" is a length a static operand of the
\* body also has, so that a clone for another length does not verify; 0 if
\* there is none.
Func(symbol, markers, visibility, form, valid, calls, pinned) ==
  [name |-> symbol, markers |-> markers, visibility |-> visibility,
   form |-> form, valid |-> valid, calls |-> calls, pinned |-> pinned,
   length |-> Dyn]

Symbols(module) == {module[i].name : i \in DOMAIN module}

\* mlir-opt parses and verifies a module before the pass sees it: its symbols
\* are unique, and the functions its calls name are there.
IsTuple(s) == Len(s) \in Nat /\ s = [i \in 1..Len(s) |-> s[i]]

IsFunc(f) ==
  /\ f = [Func(f.name, f.markers, f.visibility, f.form, f.valid, f.calls, f.pinned)
            EXCEPT !.length = f.length]
  /\ IsTuple(f.name) /\ f.markers \subseteq Markers

IsModule(module) ==
  /\ IsTuple(module)
  /\ \A i \in DOMAIN module :
       IsFunc(module[i]) /\ module[i].calls \subseteq Symbols(module)
  /\ \A i, j \in DOMAIN module : module[i].name = module[j].name => i = j

ASSUME InputsAssumption        == \A module \in Inputs : IsModule(module)
ASSUME LengthOptionsAssumption == LengthOptions \subseteq Seq(Int)
ASSUME MaxRunsAssumption       == MaxRuns \in Nat

GenericName(symbol)   == Append(symbol, 0)
StaticName(symbol, n) == Append(symbol, n)

Entries         == {i \in DOMAIN funcs : "shortseq.entry" \in funcs[i].markers}

Entry   == funcs[entry]
IsE5    == "shortseq.e5_small_v2" \in Entry.markers
IsStageB == "shortseq.stage_b" \in Entry.markers
EntryKind == IF IsE5 THEN "E5" ELSE IF IsStageB THEN "StageB" ELSE "StageA"

Fail(check) == phase' = "failed" /\ error' = check

-----------------------------------------------------------------------------
\* The pass manager runs the pass on the module.
Run ==
  /\ phase \in {"idle", "succeeded"}
  /\ runs < MaxRuns
  /\ lengths' \in LengthOptions
  /\ expose' \in BOOLEAN
  /\ input' = funcs
  /\ runs' = runs + 1
  /\ phase' = "lengths"
  /\ entry' = 0
  /\ name' = <<>>
  /\ statics' = 0
  /\ error' = "none"
  /\ UNCHANGED <<funcs, ran>>

\* Somebody marks a function of the output and asks for another run.
Mark ==
  /\ phase = "succeeded"
  /\ runs < MaxRuns
  /\ Entries = {}
  /\ \E i \in DOMAIN funcs, markers \in SUBSET (Markers \ {"shortseq.entry"}) :
       funcs' = [funcs EXCEPT ![i].markers = markers \cup {"shortseq.entry"}]
  /\ UNCHANGED <<phase, input, ran, lengths, expose, entry, name, statics,
                 error, runs>>

\* A failed pass leaves no output; the user starts from the input again.
Reload ==
  /\ phase = "failed"
  /\ funcs' = input
  /\ phase' = "idle"
  /\ UNCHANGED <<input, ran, lengths, expose, entry, name, statics, error, runs>>

-----------------------------------------------------------------------------
\* What std::sort makes of a list: its elements, as often, in ascending order.
Sortings(list) ==
  {sorted \in {[i \in DOMAIN list |-> list[order[i]]] :
                 order \in Bijection(DOMAIN list, DOMAIN list)} :
     \A i, j \in DOMAIN sorted : i < j => sorted[i] <= sorted[j]}

HasDuplicate(list) == \E i \in 1..Len(list) - 1 : list[i] = list[i + 1]

normalizeSpecializationLengths ==
  LET given == IF lengths = <<>> THEN <<kDefaultLength>> ELSE lengths
  IN /\ phase = "lengths"
     /\ \E sorted \in Sortings(given) :
          IF (\E i \in DOMAIN given : given[i] <= 0) \/ HasDuplicate(sorted)
            THEN Fail("lengths") /\ UNCHANGED lengths
            ELSE /\ lengths' = sorted
                 /\ phase' = "entry"
                 /\ UNCHANGED error
     /\ UNCHANGED <<input, funcs, ran, expose, entry, name, statics, runs>>

\* Mistake: the marker is taken off before the entry is validated.
FindAndUnmarkEntry ==
  /\ phase = "entry"
  /\ IF Cardinality(Entries) # 1
       THEN Fail("entry") /\ UNCHANGED <<entry, funcs>>
       ELSE /\ entry' \in Entries
            /\ funcs' = [funcs EXCEPT ![entry'].markers =
                           @ \ {"shortseq.entry"}]
            /\ phase' = "contract"
            /\ UNCHANGED error
  /\ UNCHANGED <<input, ran, lengths, expose, name, statics, runs>>

FindEntry ==
  /\ phase = "entry"
  /\ IF Cardinality(Entries) # 1
       THEN Fail("entry") /\ UNCHANGED entry
       ELSE /\ entry' \in Entries
            /\ phase' = "contract"
            /\ UNCHANGED error
  /\ UNCHANGED <<input, funcs, ran, lengths, expose, name, statics, runs>>

\* Conflicting markers, then validateEntry of the contract they select.
validateEntry ==
  /\ phase = "contract"
  /\ IF (IsStageB /\ IsE5) \/ Entry.form # EntryKind
       THEN Fail("contract")
       ELSE phase' = "limit" /\ UNCHANGED error
  /\ UNCHANGED <<input, funcs, ran, lengths, expose, entry, name, statics, runs>>

validateE5Lengths ==
  /\ phase = "limit"
  /\ IF IsE5 /\ \E i \in DOMAIN lengths : lengths[i] > kE5MaxSequenceLength
       THEN Fail("limit")
       ELSE phase' = "body" /\ UNCHANGED error
  /\ UNCHANGED <<input, funcs, ran, lengths, expose, entry, name, statics, runs>>

\* The body's own tensors, and its calls: no call may carry the dynamic
\* input, which a call of the entry would, and E5 allows none at all.
validateSpecializedBody ==
  /\ phase = "body"
  /\ IF \/ ~ Entry.valid
        \/ Entry.name \in Entry.calls
        \/ IsE5 /\ Entry.calls # {}
       THEN Fail("body")
       ELSE phase' = "collisions" /\ UNCHANGED error
  /\ UNCHANGED <<input, funcs, ran, lengths, expose, entry, name, statics, runs>>

\* Mistake: the name of the generic function is not tested.
NewStaticSymbols ==
  {StaticName(Entry.name, lengths[i]) : i \in DOMAIN lengths}

NewSymbols == {GenericName(Entry.name)}
              \cup {StaticName(Entry.name, lengths[i]) : i \in DOMAIN lengths}

CheckCollisions ==
  /\ phase = "collisions"
  /\ IF NewSymbols \cap Symbols(funcs) # {}
       THEN Fail("collisions")
       ELSE phase' = "rename" /\ UNCHANGED error
  /\ UNCHANGED <<input, funcs, ran, lengths, expose, entry, name, statics, runs>>

-----------------------------------------------------------------------------
\* Mistake: the contract markers stay on the generic function.
RenameMarkedEntry ==
  /\ phase = "rename"
  /\ name' = Entry.name
  /\ funcs' = [funcs EXCEPT ![entry].name = GenericName(@),
                            ![entry].markers = @ \ {"shortseq.entry"}]
  /\ phase' = "clones"
  /\ UNCHANGED <<input, ran, lengths, expose, entry, statics, error, runs>>

\* emitSpecializations.
RenameEntry ==
  /\ phase = "rename"
  /\ name' = Entry.name
  /\ funcs' = [funcs EXCEPT ![entry].name = GenericName(@),
                            ![entry].markers = @ \ Markers]
  /\ phase' = "clones"
  /\ UNCHANGED <<input, ran, lengths, expose, entry, statics, error, runs>>

\* Mistake: the clone is named after the renamed function.
CloneOfRenamed(length) ==
  [Entry EXCEPT !.name = StaticName(@, length),
                !.visibility = IF expose THEN "public" ELSE "private",
                !.form = "static",
                !.length = length]

\* The clone of the renamed entry, refined, after the one before it.
Clone(length) ==
  [Entry EXCEPT !.name = StaticName(name, length),
                !.visibility = IF expose THEN "public" ELSE "private",
                !.form = "static",
                !.length = length]

\* Mistake: every clone goes right after the generic function.
EmitCloneFirst ==
  /\ phase = "clones"
  /\ statics < Len(lengths)
  /\ funcs' = InsertAt(funcs, entry + 1, Clone(lengths[statics + 1]))
  /\ statics' = statics + 1
  /\ UNCHANGED <<phase, input, ran, lengths, expose, entry, name, error, runs>>

EmitClone ==
  /\ phase = "clones"
  /\ statics < Len(lengths)
  /\ funcs' = InsertAt(funcs, entry + statics + 1, Clone(lengths[statics + 1]))
  /\ statics' = statics + 1
  /\ UNCHANGED <<phase, input, ran, lengths, expose, entry, name, error, runs>>

\* The wrapper's body is Dispatch's: casts, an scf.if chain and calls, which
\* no validator accepts.
Wrapper ==
  Func(name, {}, Entry.visibility, Entry.form, FALSE,
       {GenericName(name)}
       \cup {StaticName(name, lengths[i]) : i \in DOMAIN lengths}, 0)

emitDispatchWrapper ==
  /\ phase = "clones"
  /\ statics = Len(lengths)
  /\ funcs' = InsertAt(funcs, entry + statics + 1, Wrapper)
  /\ phase' = "verify"
  /\ UNCHANGED <<input, ran, lengths, expose, entry, name, statics, error, runs>>

\* mlir::verify, then the marker.
Verifies(f) == f.pinned # 0 /\ f.length # Dyn => f.length = f.pinned

\* Mistake: the marker is set before the verifier runs.
MarkThenVerify ==
  /\ phase = "verify"
  /\ ran' = TRUE
  /\ IF \E i \in DOMAIN funcs : ~ Verifies(funcs[i])
       THEN Fail("verify")
       ELSE phase' = "succeeded" /\ UNCHANGED error
  /\ UNCHANGED <<input, funcs, lengths, expose, entry, name, statics, runs>>

VerifyModule ==
  /\ phase = "verify"
  /\ IF \E i \in DOMAIN funcs : ~ Verifies(funcs[i])
       THEN Fail("verify") /\ UNCHANGED ran
       ELSE phase' = "succeeded" /\ ran' = TRUE /\ UNCHANGED error
  /\ UNCHANGED <<input, funcs, lengths, expose, entry, name, statics, runs>>

runOnOperation ==
  \/ normalizeSpecializationLengths \/ FindEntry \/ validateEntry
  \/ validateE5Lengths \/ validateSpecializedBody \/ CheckCollisions
  \/ RenameEntry \/ EmitClone \/ emitDispatchWrapper \/ VerifyModule

Init == /\ phase = "idle"
        /\ funcs \in Inputs
        /\ input = funcs
        /\ ran = FALSE
        /\ lengths = <<>>
        /\ expose = FALSE
        /\ entry = 0
        /\ name = <<>>
        /\ statics = 0
        /\ error = "none"
        /\ runs = 0

Next == Run \/ Mark \/ Reload \/ runOnOperation

Spec == Init /\ [][Next]_vars

-----------------------------------------------------------------------------
\* No two functions share a symbol, at any point of the emission, and no call
\* dangles when the pass is done, nor when the verifier rejects its work.
SymbolsSound ==
  /\ \A i, j \in DOMAIN funcs : funcs[i].name = funcs[j].name => i = j
  /\ phase \in {"verify", "succeeded"} =>
       \A i \in DOMAIN funcs : funcs[i].calls \subseteq Symbols(funcs)

\* A run that a check rejects has not touched the module: only a failure of
\* the verifier leaves the new functions behind.
RejectedUnchanged ==
  phase = "failed" /\ error # "verify" => funcs = input

FuncNamed(symbol) == CHOOSE i \in DOMAIN funcs : funcs[i].name = symbol

\* Who called the entry now calls the wrapper, under the entry's name and
\* visibility; the generic function is the entry's own body, unmarked, and
\* only the wrapper calls it.
CallersReachWrapper ==
  phase = "succeeded" /\ Entries = {} =>
    LET before  == input[CHOOSE i \in DOMAIN input :
                           "shortseq.entry" \in input[i].markers]
        wrapper == funcs[FuncNamed(before.name)]
        generic == funcs[FuncNamed(GenericName(before.name))]
    IN /\ wrapper.visibility = before.visibility
       /\ wrapper.form = before.form
       /\ generic = [before EXCEPT !.name = GenericName(@), !.markers = {}]
       /\ \A i \in DOMAIN funcs :
            generic.name \in funcs[i].calls => funcs[i] = wrapper

\* One clone for each requested length and no other, in ascending order
\* right after the generic function, the wrapper after the last; every length
\* is positive, and within the position table for E5; the other functions keep
\* their order and their contents.
Layout ==
  phase = "succeeded" /\ Entries = {} =>
    LET others == {i \in DOMAIN funcs :
                     i < entry \/ i > entry + Len(lengths) + 1}
        at(i)  == IF i < entry THEN i ELSE i - Len(lengths) - 1
    IN /\ \A i \in DOMAIN lengths :
            /\ funcs[entry + i].name = StaticName(name, lengths[i])
            /\ funcs[entry + i].length = lengths[i]
            /\ funcs[entry + i].visibility =
                 IF expose THEN "public" ELSE "private"
            /\ funcs[entry + i].markers = {}
            /\ i > 1 => lengths[i - 1] < lengths[i]
            /\ lengths[i] > 0
            /\ funcs[entry].form = "E5" => lengths[i] <= kE5MaxSequenceLength
       /\ funcs[entry + Len(lengths) + 1].name = name
       /\ Len(funcs) = Len(input) + Len(lengths) + 1
       /\ \A i \in others : funcs[i] = input[at(i)]

\* shortseq.ran is only ever set on a module the verifier accepted, that has
\* no entry left to specialize.
RanIsEarned ==
  [][ran' # ran => /\ \A i \in DOMAIN funcs : Verifies(funcs[i])
                   /\ Entries = {}]_vars

=============================================================================
