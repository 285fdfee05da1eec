---------------------------- MODULE MCE5Pipeline ----------------------------
(***************************************************************************)
(* A model that satisfies the contract, models that differ from it in one  *)
(* thing, and two more releases that satisfy it.                           *)
(***************************************************************************)
EXTENDS E5Pipeline

B == 1001
S == 1002
T == 1003

f32(bytes) == [type |-> "f32", raw |-> TRUE, bytes |-> bytes]
W == <<"word", "::">>

Base ==
  [inputs  |-> [n \in INPUTS |-> [elem |-> "i64", shape |-> <<B, S>>]],
   outputs |-> ("last_hidden_state" :> <<B, S, 384>>),
   inner   |-> {1, S, 384}, opset |-> 11, layers |-> 0..11, graph |-> "bert",
   inits   |-> (PositionIds :> [type |-> "i64_1x512", raw |-> TRUE, bytes |-> "0.."])
                 @@ (W :> f32("w1"))]

Config == [hidden |-> 384, layers |-> 12, vocab |-> 30522, lines |-> 30522]

\* Models that differ in one thing, which the scripts are to tell or not.
Deviants ==
  {[Base EXCEPT !.opset = 13],
   [Base EXCEPT !.layers = 0..10],
   [Base EXCEPT !.inputs["token_type_ids"].elem = "i32"],
   [Base EXCEPT !.inputs["input_ids"].shape = <<B, 128>>],
   [Base EXCEPT !.inputs["input_ids"].shape = <<B, S, 1>>],
   [Base EXCEPT !.inputs["attention_mask"].shape = <<B, T>>],
   [Base EXCEPT !.inputs["attention_mask"].shape = <<B, NoDim>>],
   [Base EXCEPT !.inputs = [n \in {"input_ids", "attention_mask"} |-> @[n]]],
   [Base EXCEPT !.outputs = ("last_hidden_state" :> <<B, S, 768>>)],
   [Base EXCEPT !.outputs = ("logits" :> <<B, 384>>)],
   [Base EXCEPT !.inner = @ \cup {T}],
   [Base EXCEPT !.inner = @ \cup {NoDim}],
   [Base EXCEPT !.inits[PositionIds].type = "i64_1x1024"],
   [Base EXCEPT !.inits[W].type = "f16"],
   [Base EXCEPT !.inits[W].raw = FALSE],
   [Base EXCEPT !.inits = (<<"word", "__">> :> f32("w2")) @@ @]}

Release(model) == [model |-> model, config |-> Config]
Pin(revision, release) == [revision |-> revision, release |-> release]

First == Pin("r1", Release(Base))

\* Another release, and one with the same weights in another graph.
Second == Pin("r2", Release([Base EXCEPT !.inits[W].bytes = "w9", !.graph = "bert2"]))
Third  == Pin("r3", Release([Base EXCEPT !.graph = "bert3"]))

\* Every release of another contract is tried in a fresh directory; the
\* two more also over the files of any of them.
MCCommitted ==
  {First} \cup {Pin("r4", Release(m)) : m \in Deviants}
          \cup {Pin("r5", [model |-> Base, config |-> [Config EXCEPT !.lines = 30523]])}

MCPinnable == {Second, Third}

MCExactLengths  == {16, 32}
MCOracleLengths == {<<16, 32>>}
MCVariants      == {{"dynamic", "static-oracle", "dispatched"}, {"dynamic"}}

=============================================================================
