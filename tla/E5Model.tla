------------------------------- MODULE E5Model -------------------------------
(***************************************************************************)
(* What the E5 scripts look at in the ONNX model, in the IRPA archive and  *)
(* in the text of a core, and the conditions they check.                   *)
(*                                                                         *)
(* A dimension is a number: a dim_value, NoDim if the field is not there,  *)
(* and a dim_param above every dim_value.  An initializer is named by what *)
(* its name is with "__" for "::", and by the delimiter it is written      *)
(* with.  The bytes of an initializer and the function a graph computes    *)
(* are values that are equal or not.                                       *)
(***************************************************************************)
EXTENDS Naturals, Sequences, FiniteSets, Bags

INPUTS == {"input_ids", "attention_mask", "token_type_ids"}
OUTPUT == "sentence_embedding"

NoDim       == 0
IsParam(d)  == d > 1000
IsValue(d)  == d \in 1..1000
PositionIds == <<"embeddings.position_ids", "">>

\* What is kept of an ONNX model.  The functions of two models are equal or not,
\* and none is that of a text that a tool has spoilt.
IsModel(model) ==
  /\ model = [inputs |-> model.inputs, outputs |-> model.outputs,
              inner  |-> model.inner,  opset   |-> model.opset,
              layers |-> model.layers, graph   |-> model.graph,
              inits  |-> model.inits]
  /\ \A name \in DOMAIN model.inputs :
       model.inputs[name] \in [elem : STRING, shape : Seq(Nat)]
  /\ IsFiniteSet(DOMAIN model.inits)
  /\ model.graph # "miscompiled"

\* The set of the dimensions of all the values of a graph.
DimsOf(shape) == {shape[i] : i \in DOMAIN shape}
AllDims(model) ==
  model.inner
    \cup UNION {DimsOf(model.inputs[name].shape) : name \in DOMAIN model.inputs}
    \cup UNION {DimsOf(model.outputs[name]) : name \in DOMAIN model.outputs}

-----------------------------------------------------------------------------
\* validate_e5_artifacts.py: the metadata of what the manifest pins.
TwoDynamicDims(shape) == Len(shape) = 2 /\ \A i \in 1..2 : ~ IsValue(shape[i])

NonF32(model) == {n \in DOMAIN model.inits : model.inits[n].type # "f32"}

ValidMetadata(model, config) ==
  /\ config = [hidden |-> 384, layers |-> 12, vocab |-> 30522, lines |-> 30522]
  /\ DOMAIN model.inputs = INPUTS
  /\ \A name \in INPUTS : /\ model.inputs[name].elem = "i64"
                          /\ TwoDynamicDims(model.inputs[name].shape)
  /\ DOMAIN model.inits # {}
  /\ NonF32(model) = {PositionIds}
  /\ model.inits[PositionIds].type = "i64_1x512"
  /\ model.layers = 0..11
  /\ \E name \in DOMAIN model.outputs :
       LET shape == model.outputs[name]
       IN shape # <<>> /\ shape[Len(shape)] = 384

-----------------------------------------------------------------------------
\* adapt_e5_onnx.py
get_hidden_output(model) ==
  /\ "last_hidden_state" \in DOMAIN model.outputs
  /\ LET shape == model.outputs["last_hidden_state"]
     IN Len(shape) = 3 /\ shape[3] = 384

CanAdapt(model) ==
  /\ DOMAIN model.inputs = INPUTS
  /\ \A name \in INPUTS : /\ model.inputs[name].elem = "i64"
                          /\ Len(model.inputs[name].shape) = 2
  /\ model.opset = 11
  /\ get_hidden_output(model)

\* The batch dimension of the inputs is set, the pooling is appended and its
\* result becomes the output; the shapes inside the graph are inferred anew.
Adapted(model) ==
  [model EXCEPT
     !.inputs  = [name \in INPUTS |->
                    [model.inputs[name] EXCEPT !.shape[1] = 1]],
     !.outputs = [name \in {OUTPUT} |-> <<1, 384>>]]

assert_initializer_identity(before, model) == model.inits = before

\* Mistake: only the inputs and the output are looked at.
validate_dynamic_inputs(model) ==
  LET shape(name) == model.inputs[name].shape
      symbols     == {d \in {shape(name)[2] : name \in INPUTS} : IsParam(d)}
  IN /\ \A name \in INPUTS : /\ Len(shape(name)) = 2
                             /\ shape(name)[1] = 1
                             /\ ~ IsValue(shape(name)[2])
     /\ Cardinality(symbols) = 1
     /\ DOMAIN model.outputs = {OUTPUT} /\ model.outputs[OUTPUT] = <<1, 384>>

\* One symbol for the sequence dimension of the inputs, and every dimension of
\* the graph that is not a number is that symbol.
validate_dynamic_contract(model) ==
  LET shape(name) == model.inputs[name].shape
      symbols     == {d \in {shape(name)[2] : name \in INPUTS} : IsParam(d)}
  IN /\ \A name \in INPUTS : /\ Len(shape(name)) = 2
                             /\ shape(name)[1] = 1
                             /\ ~ IsValue(shape(name)[2])
     /\ Cardinality(symbols) = 1
     /\ DOMAIN model.outputs = {OUTPUT} /\ model.outputs[OUTPUT] = <<1, 384>>
     /\ {d \in AllDims(model) : ~ IsValue(d)} = symbols

-----------------------------------------------------------------------------
\* build_e5_static_oracles.py: every symbol becomes the length.
Fixed(shape, length) ==
  [i \in DOMAIN shape |-> IF IsParam(shape[i]) THEN length ELSE shape[i]]

CanStaticize(model) ==
  validate_dynamic_contract(model) /\ \E d \in AllDims(model) : IsParam(d)

Staticized(model, length) ==
  [model EXCEPT
     !.inputs = [name \in INPUTS |->
                   [model.inputs[name] EXCEPT !.shape = Fixed(@, length)]],
     !.inner  = {IF IsParam(d) THEN length ELSE d : d \in @}]

-----------------------------------------------------------------------------
irpa_key(name) == name[1]

Keys(model)    == {irpa_key(n) : n \in DOMAIN model.inits}
Weights(model) ==
  [k \in Keys(model) |->
     model.inits[CHOOSE n \in DOMAIN model.inits : irpa_key(n) = k].bytes]

\* references = REFERENCE_RE.findall(core): each key once and no other.
References(refs) == UNION {{k} \X (1..refs[k]) : k \in DOMAIN refs}

EachOnce(refs, keys) ==
  DOMAIN refs = keys /\ Cardinality(References(refs)) = Cardinality(keys)

\* A text has function bodies, by their token width (Dynamic for the entry of
\* the core), which may keep a dynamic dimension and load globals.
Dynamic == 0

check_core(core, length, keys) ==
  /\ core.entries = 1 /\ DOMAIN core.bodies = {length}
  /\ ~ core.bodies[length].dynamic
  /\ EachOnce(core.refs, keys)
  /\ core.globals = Cardinality(keys)
  /\ core.payload # "dense_resource"

\* check_e5_bridge.py: the archive holds the initializers, byte for byte.
ParameterIdentity(model, archive) ==
  /\ Cardinality(Keys(model)) = Cardinality(DOMAIN model.inits)
  /\ archive.end = "whole"
  /\ DOMAIN archive.bytes = Keys(model)
  /\ \A n \in DOMAIN model.inits :
       /\ model.inits[n].raw
       /\ archive.bytes[irpa_key(n)] = model.inits[n].bytes

check_no_dense_payloads(core) == core.payload \in {"none", "scalar"}

\* The names that LENGTH_SUFFIX_RE matches.
LengthSpecific == {"word_s16"}

\* The wrapper itself is judged by BridgeChecker; here it has its clones.
check_static_clones(core, lengths, count) ==
  /\ core.end = "whole"
  /\ DOMAIN core.bodies = {Dynamic} \cup lengths
  /\ \A length \in lengths : ~ core.bodies[length].dynamic
  /\ \A width \in DOMAIN core.bodies : core.bodies[width].loads = count

CoreStructure(model, core, lengths) ==
  LET keys == Keys(model)
  IN /\ EachOnce(core.refs, keys)
     /\ core.globals = Cardinality(keys)
     /\ check_no_dense_payloads(core)
     /\ keys \cap LengthSpecific = {}
     /\ core.markers = IF lengths = {} THEN 1 ELSE 0
     /\ lengths # {} => check_static_clones(core, lengths, Cardinality(keys))

-----------------------------------------------------------------------------
\* inventory_e5_core.py: the revision of the manifest, and the operations and
\* dynamic types of the text, as many as there are.
render(revision, core) ==
  [revision |-> revision, operations |-> <<core.graph, core.globals>>,
   types |-> core.bodies]

=============================================================================
