-------------------------- MODULE MCSpecializedBody --------------------------
(***************************************************************************)
(* Instances of SpecializedBody for TLC.                                   *)
(***************************************************************************)
EXTENDS SpecializedBody

\* One growable tensor type: provenance of sizes.
MCRowTypes == {F32(<<Dyn, kE5Hidden>>)}

\* Attention scores and their relatives, with one and two dynamic axes, and
\* the expanded attention mask.
MCScoreTypes == {F32(<<kBatch, kE5Heads, Dyn, Dyn>>),
                 F32(<<kBatch, kE5Heads, Dyn>>),
                 F32(<<kE5Heads, Dyn, Dyn>>),
                 I64(<<kBatch, 1, 1, Dyn>>)}

\* A body of more than ShortOps operations is one about the provenance of
\* sizes: it consists of these, and is specialized to the length its constants
\* hold.
ShortOps == 3

AboutSizes == \A v \in DOMAIN body' :
                /\ body'[v].name \in {"arg", "tensor.dim", "arith.constant",
                                      "arith.minsi", "cf.assert"}
                /\ body'[v].name = "tensor.dim" => body'[v].attr = 1

BoundedNext ==
  /\ Next
  /\ body' = body \/ Len(body') <= Cardinality(Args) + ShortOps
                  \/ (AboutSizes /\ length \in Constants)

BoundedSpec == Init /\ [][BoundedNext]_vars
=============================================================================
