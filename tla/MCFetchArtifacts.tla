--------------------------- MODULE MCFetchArtifacts ---------------------------
(***************************************************************************)
(* Small instances of FetchArtifacts.                                      *)
(***************************************************************************)
EXTENDS FetchArtifacts, TLC

CONSTANTS p1, p2

Alone     == {p1}
Together  == {p1, p2}

=============================================================================
