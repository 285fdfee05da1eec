--------------------------- MODULE MCEntrySignature ---------------------------
(***************************************************************************)
(* A small instance of EntrySignature: types one mistake away from those   *)
(* of the contracts.                                                       *)
(***************************************************************************)
EXTENDS EntrySignature

MCOtherTypes ==
  {NotATensor,
   F32(<<1, Dyn, 384>>), F32(<<1, Dyn, 64>>), F32(<<Dyn, Dyn, 384>>),
   F32(<<Dyn, 16, 64>>), F32(<<2, Dyn, 384>>), F32(<<1, 16, 384>>),
   F32(<<1, Dyn>>), F32(<<1, 384>>), F32(<<384, 1536>>), F32(<<64, 64>>),
   F32(<<64>>), F32(<<Dyn>>), I64(<<1, Dyn>>), I64(<<Dyn, Dyn>>),
   I64(<<1, 16>>), I64(<<1, Dyn, 1>>)}

=============================================================================
