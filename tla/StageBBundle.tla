---------------------------- MODULE StageBBundle ----------------------------
(***************************************************************************)
(* The Stage B weights: make_stage_b_artifact.py writes them to an .npz    *)
(* (an exporter may put another in its place), check_stage_b_artifact.py   *)
(* judges it, make_stage_b_bundle.py turns it into an MLIR module and an   *)
(* IREE archive, and check_stage_b_bundle.py judges these two.             *)
(*                                                                         *)
(* A key of the .npz is a name and a length: x_s16 is <<"x", 16>>, q_w is  *)
(* <<"q_w", 0>>.  Of the values of an array only their number is kept.     *)
(***************************************************************************)
EXTENDS Integers, Sequences, FiniteSetsExt, SequencesExt

CONSTANTS
  SampleLengths, \* the --lengths of an artifact
  Scopes,        \* the --scope options
  ValidScopes,   \* those that SCOPE_RE matches
  Sources,       \* the --source files
  MaxEdits,      \* bound on what exporters change
  MaxStops       \* bound on writers that are stopped

ASSUME BoundsAssumption == MaxEdits \in Nat /\ MaxStops \in Nat

\* The text of a source: whether it is a module, the references and the number
\* of loads it brings, of those the checker counts, which are in the generic
\* form, and whether it has a dense payload.
ASSUME SourcesAssumption ==
  Sources \subseteq [module : BOOLEAN, dense : BOOLEAN, loads : Nat,
                     refs : Seq(STRING \X STRING)]

VARIABLES
  npz,      \* the artifact: key -> [shape, type]
  mlir,     \* the module of the bundle
  irpa,     \* the archive of the bundle: name -> bytes
  building, \* the arrays of a build that has yet to write its archive
  judged,   \* what was built or accepted last, while it is unchanged
  edits, stops

vars == <<npz, mlir, irpa, building, judged, edits, stops>>

-----------------------------------------------------------------------------
\* The three tables of parameters.
HIDDEN == 64
INTERMEDIATE == 256

Names  == <<"q_w", "k_w", "v_w", "o_w", "norm_scale", "norm_bias", "ff_w1",
            "ff_b1", "ff_w2", "ff_b2">>
Params == ToSet(Names)

ArtifactShape(name) ==
  CASE name \in {"q_w", "k_w", "v_w", "o_w"}         -> <<HIDDEN, HIDDEN>>
    [] name \in {"norm_scale", "norm_bias", "ff_b2"} -> <<HIDDEN>>
    [] name = "ff_w1" -> <<HIDDEN, INTERMEDIATE>>
    [] name = "ff_b1" -> <<INTERMEDIATE>>
    [] name = "ff_w2" -> <<INTERMEDIATE, HIDDEN>>

BundleShape(name) ==
  CASE name \in {"q_w", "k_w", "v_w", "o_w"}         -> <<64, 64>>
    [] name \in {"norm_scale", "norm_bias", "ff_b2"} -> <<64>>
    [] name = "ff_w1" -> <<64, 256>>
    [] name = "ff_b1" -> <<256>>
    [] name = "ff_w2" -> <<256, 64>>

PARAM_BYTES(name) ==
  CASE name \in {"q_w", "k_w", "v_w", "o_w"}         -> 64 * 64 * 4
    [] name \in {"norm_scale", "norm_bias", "ff_b2"} -> 64 * 4
    [] name \in {"ff_w1", "ff_w2"}                   -> 64 * 256 * 4
    [] name = "ff_b1"                                -> 256 * 4

Array(shape)  == [shape |-> shape, type |-> "f32"]
Nbytes(array) == FoldLeft(LAMBDA x, y : x * y,
                          IF array.type = "f32" THEN 4 ELSE 8, array.shape)

Param(name)        == <<name, 0>>
ParamBytes(data)   == [n \in Params |-> Nbytes(data[Param(n)])]
Sample(length)     == <<"x", length>>
IsSample(key)      == key[1] = "x" /\ key[2] > 0
CopiedParams(data) == {key \in DOMAIN data : key[2] > 0 /\ ~ IsSample(key)}

Nothing == [what |-> "nothing"]
NoBody  == [refs |-> <<>>, loads |-> 0, dense |-> FALSE]

-----------------------------------------------------------------------------
\* make_stage_b_artifact.py; a list may name a length twice.
parse_lengths(list) == list # <<>> /\ \A i \in DOMAIN list : list[i] > 0

MakeArtifact ==
  /\ \E list \in SampleLengths :
       /\ parse_lengths(list)
       /\ npz' = [key \in {Param(n) : n \in Params} \cup {Sample(s) : s \in ToSet(list)}
                    |-> IF IsSample(key) THEN Array(<<1, key[2], HIDDEN>>)
                                         ELSE Array(ArtifactShape(key[1]))]
  /\ judged' = Nothing
  /\ UNCHANGED <<mlir, irpa, building, edits, stops>>

\* An artifact of which a part was written is no zip file.
StopArtifact ==
  /\ stops < MaxStops /\ stops' = stops + 1
  /\ npz' = <<>> /\ judged' = Nothing
  /\ UNCHANGED <<mlir, irpa, building, edits>>

\* Another exporter: an array is missing, has another shape or type, or is one
\* more, as a copy of a parameter for one length or as a sample.
Export ==
  /\ npz # <<>> /\ edits < MaxEdits /\ edits' = edits + 1
  /\ \/ \E key \in DOMAIN npz :
          npz' \in {[k \in DOMAIN npz \ {key} |-> npz[k]],
                    [npz EXCEPT ![key].shape = Reverse(@)],
                    [npz EXCEPT ![key].shape = Append(@, 2)],
                    [npz EXCEPT ![key].type = "f64"]}
     \/ \E key \in {<<"q_w", 4>>, <<"scale", 0>>, <<"x", 0>>, Sample(7)} :
          npz' = [k \in DOMAIN npz \cup {key} |->
                    IF k = key THEN Array(<<1, 4, 64>>) ELSE npz[k]]
  /\ judged' = Nothing
  /\ UNCHANGED <<mlir, irpa, building, stops>>

-----------------------------------------------------------------------------
\* check_stage_b_artifact.py.  Mistake: the type of an array is not looked at.
check_array_shape(data, key, shape) ==
  key \in DOMAIN data /\ data[key].shape = shape

check_array(data, key, shape) ==
  key \in DOMAIN data /\ data[key].shape = shape /\ data[key].type = "f32"

CheckArtifact ==
  /\ LET samples == {key \in DOMAIN npz : IsSample(key)}
     IN judged' = IF /\ \A n \in Params : check_array(npz, Param(n), ArtifactShape(n))
                     /\ samples # {}
                     /\ \A key \in samples : check_array(npz, key, <<1, key[2], HIDDEN>>)
                     /\ CopiedParams(npz) = {}
                    THEN [what  |-> "artifact",
                          bytes |-> SumFunction(ParamBytes(npz))]
                    ELSE Nothing
  /\ UNCHANGED <<npz, mlir, irpa, building, edits, stops>>

-----------------------------------------------------------------------------
\* make_stage_b_bundle.py.  Mistake: the shapes are taken as they are.
load_parameters_of_any_shape(data) ==
  /\ \A n \in Params : Param(n) \in DOMAIN data /\ data[Param(n)].type = "f32"
  /\ CopiedParams(data) = {}

load_parameters(data) ==
  /\ \A n \in Params : /\ Param(n) \in DOMAIN data
                       /\ data[Param(n)].shape = BundleShape(n)
                       /\ data[Param(n)].type = "f32"
  /\ CopiedParams(data) = {}

\* What lies between the first "module {" and the last "}".
source_body(source) ==
  [refs |-> source.refs, loads |-> source.loads, dense |-> source.dense]

\* The text of the module, in its order: a global for every parameter, which
\* refers to it in the archive, the adapter with a load of every global, and
\* the body of the source.
render_mlir(source, scope) ==
  [end     |-> "whole",
   refs    |-> [i \in DOMAIN Names |-> <<scope, Names[i]>>],
   adapter |-> TRUE,
   loads   |-> Len(Names),
   body    |-> source_body(source)]

\* build_bundle: the module is written before the archive.
BuildMlir ==
  /\ building = <<>> /\ load_parameters(npz)
  /\ \E source \in Sources, scope \in Scopes \cap ValidScopes :
       source.module /\ mlir' = render_mlir(source, scope)
  /\ building' = ParamBytes(npz)
  /\ judged' = Nothing
  /\ UNCHANGED <<npz, irpa, edits, stops>>

write_archive ==
  /\ building # <<>> /\ irpa' = building /\ building' = <<>>
  /\ judged' = [what |-> "built", scope |-> mlir.refs[1][1],
                bytes |-> SumFunction(building)]
  /\ UNCHANGED <<npz, mlir, edits, stops>>

\* What there is of a text that ends early: some of the globals, the adapter
\* up to one of its loads, or all of it and part of the body.
Cut(refs, adapter, loads, body) ==
  [end |-> "cut", refs |-> refs, adapter |-> adapter, loads |-> loads, body |-> body]

CutBodies(body) ==
  {[refs |-> refs, loads |-> n, dense |-> dense] :
     refs \in Prefixes(body.refs), n \in 0..body.loads, dense \in {FALSE, body.dense}}

Cuts(ir) ==
  {Cut(refs, FALSE, 0, NoBody) : refs \in Prefixes(ir.refs)}
  \cup {Cut(ir.refs, ir.adapter, n, NoBody) : n \in 0..ir.loads}
  \cup {Cut(ir.refs, ir.adapter, ir.loads, body) : body \in CutBodies(ir.body)}

\* The module is written in part, or the archive is not written, or cannot be
\* loaded.
StopBuild ==
  /\ building # <<>> /\ stops < MaxStops /\ stops' = stops + 1
  /\ \/ irpa' \in {irpa, <<>>} /\ UNCHANGED mlir
     \/ mlir' \in Cuts(mlir) /\ UNCHANGED irpa
  /\ building' = <<>> /\ judged' = Nothing
  /\ UNCHANGED <<npz, edits>>

-----------------------------------------------------------------------------
\* check_stage_b_bundle.py.  The references and loads are those of the whole
\* text, whoever wrote them; an adapter of the source's own would come after
\* the builder's.  Mistake: there may be more loads than parameters.
check_mlir_enough(ir, scope) ==
  /\ ~ ir.body.dense
  /\ ir.refs \o ir.body.refs = [i \in DOMAIN Names |-> <<scope, Names[i]>>]
  /\ ir.loads + ir.body.loads >= Cardinality(Params)
  /\ ir.adapter

check_mlir(ir, scope) ==
  /\ ~ ir.body.dense
  /\ ir.refs \o ir.body.refs = [i \in DOMAIN Names |-> <<scope, Names[i]>>]
  /\ ir.loads + ir.body.loads = Cardinality(Params)
  /\ ir.adapter

check_irpa(entries) ==
  /\ DOMAIN entries = Params
  /\ \A n \in Params : entries[n] = PARAM_BYTES(n)

\* It may run at any time, between the two writes of a build too.
CheckBundle ==
  /\ \E scope \in Scopes :
       judged' = IF check_mlir(mlir, scope) /\ check_irpa(irpa)
                   THEN [what |-> "bundle", scope |-> scope]
                   ELSE Nothing
  /\ UNCHANGED <<npz, mlir, irpa, building, edits, stops>>

-----------------------------------------------------------------------------
Init ==
  /\ npz = <<>> /\ irpa = <<>> /\ building = <<>> /\ judged = Nothing
  /\ mlir = [end |-> "missing", refs |-> <<>>, adapter |-> FALSE, loads |-> 0,
             body |-> NoBody]
  /\ edits = 0 /\ stops = 0

Next == \/ MakeArtifact \/ StopArtifact \/ Export \/ CheckArtifact
        \/ BuildMlir \/ write_archive \/ StopBuild \/ CheckBundle

Spec == Init /\ [][Next]_vars

-----------------------------------------------------------------------------
\* The invariant of docs/stage-b-weight-bundle.md, of every bundle that
\* check_stage_b_bundle.py accepts, whichever builds its two files are left from
\* and wherever they were stopped: of each parameter there is one reference, one
\* load in the adapter, one key in the archive with the bytes of the global's
\* type, and none of them is hidden by what the source adds.  The checker's
\* totals tell this only because of the order the text is written in.  That the
\* text goes on behind the last load is not said: it may be cut there.
ParametersOnce ==
  judged.what = "bundle" =>
    /\ mlir.refs = [i \in DOMAIN Names |-> <<judged.scope, Names[i]>>]
    /\ mlir.adapter /\ mlir.loads = Len(Names)
    /\ mlir.body = NoBody
    /\ DOMAIN irpa = Params
    /\ \A n \in Params : irpa[n] = Nbytes(Array(BundleShape(n)))

\* An artifact that check_stage_b_artifact.py accepts can be made a bundle, and
\* the bytes it reports are those the other scripts count.
AcceptedArtifactBuilds ==
  judged.what = "artifact" =>
    /\ load_parameters(npz)
    /\ judged.bytes = SumFunction([n \in Params |-> PARAM_BYTES(n)])

\* A bundle that was built from any artifact that could be loaded is accepted
\* for the scope it was built with exactly if its source brings no payload, no
\* reference and no load of its own; its archive is accepted in any case, with
\* the bytes the build reported.
BuiltBundleChecks ==
  judged.what = "built" =>
    /\ judged.bytes = SumFunction(irpa)
    /\ check_irpa(irpa)
    /\ check_mlir(mlir, judged.scope) <=> mlir.body = NoBody

=============================================================================
