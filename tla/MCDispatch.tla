------------------------------ MODULE MCDispatch ------------------------------
(***************************************************************************)
(* Small instances of Dispatch: chains of one to three clones.             *)
(***************************************************************************)
EXTENDS Dispatch

\* Ascending lists over a few lengths; 1 is also the sequence axis.
MCLengthLists == {<<1>>, <<2>>, <<1, 2>>, <<2, 4>>, <<1, 2, 4>>}

=============================================================================
