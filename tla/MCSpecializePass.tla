--------------------------- MODULE MCSpecializePass ---------------------------
(***************************************************************************)
(* Small instances of SpecializePass: modules of up to three functions.    *)
(***************************************************************************)
EXTENDS SpecializePass

EntryMarks ==
  {{"shortseq.entry"}, {"shortseq.entry", "shortseq.stage_b"},
   {"shortseq.entry", "shortseq.e5_small_v2"}, Markers,
   {"shortseq.stage_b"}}

\* The function of interest, in every way the checks tell apart.
MCEntries ==
  {Func(<<"f">>, markers, visibility, form, valid, calls, pinned) :
     markers \in EntryMarks, visibility \in {"public", "private"},
     form \in Kinds, valid \in BOOLEAN,
     calls \in {{}, {<<"f">>}, {<<"h">>}}, pinned \in {0, 2}}

Plain(symbol, calls) == Func(symbol, {}, "public", "other", TRUE, calls, 0)

\* A caller of the entry, a helper it may call, and a third function: one
\* that has a name the pass wants, or a second entry.
MCInputs ==
  {<<Plain(<<"g">>, {<<"f">>}), f, Plain(<<"h">>, {})>> : f \in MCEntries}

MCClashes ==
  {<<third, f, Plain(<<"h">>, {<<"f">>})>> :
     f \in {e \in MCEntries : e.valid /\ e.calls = {} /\ e.pinned = 0},
     third \in {Plain(<<"f", 0>>, {}), Plain(<<"f", 4>>, {}),
                Func(<<"g">>, {"shortseq.entry"}, "public", "StageA", TRUE,
                     {}, 0)}}

MCModules == MCInputs \cup MCClashes

MCLengthOptions == {<<>>, <<2>>, <<4, 2>>, <<2, 4, 2>>, <<0>>, <<4, -2>>,
                    <<600, 2>>}

=============================================================================
