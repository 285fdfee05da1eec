--------------------------- MODULE MCBridgeChecker ---------------------------
(***************************************************************************)
(* Small instances of BridgeChecker: chains of one and two clones.         *)
(***************************************************************************)
EXTENDS BridgeChecker

MCTwoLevels == {<<2>>, <<2, 4>>}

\* A requested length that is also the number of the sequence axis.
MCLengthOne == {<<1>>, <<1, 2>>}

=============================================================================
