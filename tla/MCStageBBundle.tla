--------------------------- MODULE MCStageBBundle ---------------------------
(***************************************************************************)
(* Scopes, sample lengths and source files for StageBBundle.               *)
(***************************************************************************)
EXTENDS StageBBundle

MCSampleLengths == {<<4>>, <<4, 8>>, <<4, 4>>, <<0>>, <<>>}

Contract == [module |-> TRUE, dense |-> FALSE, loads |-> 0, refs |-> <<>>]

\* The contract's file, and files with a payload, with a global of their own, or
\* with a global and its load, with a load of the builder's, and without a module
\* around them.
MCSources ==
  LET own == <<<<"stage_b", "q_w">>>>
  IN {Contract,
      [Contract EXCEPT !.dense = TRUE],
      [Contract EXCEPT !.refs = own],
      [Contract EXCEPT !.refs = own, !.loads = 1],
      [Contract EXCEPT !.loads = 1],
      [Contract EXCEPT !.module = FALSE]}
=============================================================================
