----------------------------- MODULE E5Pipeline -----------------------------
(***************************************************************************)
(* The programs that share the E5 artifact directory: the target check-e5  *)
(* (fetch, validate, adapt, build the bridge, check it, specialize it,     *)
(* compile, compare), build_e5_static_oracles.py, and bench_e5_iree.py,    *)
(* which runs the second on what the first has left.                       *)
(*                                                                         *)
(* One program runs at a time.  It is the sequence of the commands it has  *)
(* still to take; a command that fails ends it.  Any command may fail or   *)
(* be killed, and may leave a part of its output.  Between two programs    *)
(* the manifest may be changed to pin another model.                       *)
(*                                                                         *)
(* A file says what it was made from.  The tools of IREE and MLIR write    *)
(* what their input asks for or something else.  A text that only the next *)
(* command reads is kept with the running program.                         *)
(***************************************************************************)
EXTENDS E5Model, SequencesExt, FiniteSetsExt

CONSTANTS
  Committed,     \* what the manifest may say at first: [revision, release]
  Pinnable,      \* what it may be changed to
  NumEntries,    \* the entries of the canonical archive
  ExactLengths,  \* the lengths of the multiversioned core
  OracleLengths, \* the length lists oracles are built for
  Variants,      \* the lists of variants that are benchmarked
  MaxFailures,   \* bound on commands that are stopped or do the wrong thing
  MaxPins        \* bound on changes of the manifest

ASSUME PinsAssumption ==
  \A pin \in Committed \cup Pinnable : IsModel(pin.release.model)

ASSUME LengthsAssumption ==
  /\ ExactLengths \subseteq 1..512 /\ ExactLengths # {}
  /\ \A lengths \in OracleLengths :
       /\ lengths \in Seq(1..512) /\ lengths # <<>>
       /\ \A i, j \in DOMAIN lengths : i < j => lengths[i] < lengths[j]

ASSUME VariantsAssumption ==
  Variants \subseteq SUBSET {"dynamic", "dispatched", "static-oracle"}

ASSUME BoundsAssumption == MaxFailures \in Nat /\ MaxPins \in Nat

VARIABLES
  manifest, \* the revision and the release the manifest pins
  reviewed, \* docs/e5-core-inventory.md
  dir,      \* the artifact directory
  todo,     \* the commands the running program has still to take
  locals,   \* what the running program holds in memory
  passed,   \* the program that ran to its end last
  failures, pins

bounds == <<failures, pins>>
vars   == <<manifest, reviewed, dir, todo, locals, passed, bounds>>

-----------------------------------------------------------------------------
\* The programs.
Cmd(name, width) == [name |-> name, width |-> width]
Cmds(names)      == [i \in DOMAIN names |-> Cmd(names[i], Dynamic)]

BridgeStages == <<"imported", "torch", "builtin", "marked", "generic", "core">>
OracleStages == <<"imported", "torch", "builtin", "generic", "core">>

\* The stages that one run of an IREE or MLIR tool makes from the one before.
Lowered == {"torch", "builtin", "generic", "core"}

Before(stage, width) ==
  LET stages == IF width = Dynamic THEN BridgeStages ELSE OracleStages
  IN stages[CHOOSE i \in 1..(Len(stages) - 1) : stages[i + 1] = stage]

build_e5_bridge == BridgeStages \o <<"dynamic">>

\* check-e5 depends on fetch-e5.  Left out: adapter_numerical.py and the second
\* mlir-opt, which look for mistakes of the adapter's graph and of the printer
\* that are none here, and the tests of the scripts themselves.
CheckE5 == Cmds(<<"fetch", "validate", "adapt", "reload">> \o build_e5_bridge
                \o <<"inventory", "check", "baseline", "specialize", "recheck",
                     "multiversioned", "compare">>)

build_oracle == <<"begin", "staticize">> \o OracleStages \o <<"end">>

\* One oracle after the other, and static_oracles.json.
BuildOracles(lengths) ==
  LET n == Len(build_oracle)
  IN [i \in 1..n * Len(lengths) |->
        Cmd(build_oracle[((i - 1) % n) + 1], lengths[((i - 1) \div n) + 1])]
     \o Cmds(<<"manifest">>)

\* bench_e5_iree.py
Bench(variants, lengths) ==
  Cmds(<<"exist", "check">>)
  \o (IF "dispatched" \in variants THEN Cmds(<<"recheck">>) ELSE <<>>)
  \o Cmds(<<"count">>)
  \o (IF "static-oracle" \in variants THEN BuildOracles(lengths) ELSE <<>>)
  \o Cmds(<<"artifacts", "measure">>)

Doing(name) == todo # <<>> /\ Head(todo).name = name
Width       == Head(todo).width

Idle == [program |-> "none", text |-> <<>>]

\* The command is done and the program goes on with what it now holds, or it
\* ends.
Holding(ok, held) ==
  /\ todo' = IF ok THEN Tail(todo) ELSE <<>>
  /\ passed' = IF ok /\ Tail(todo) = <<>> THEN locals.program ELSE "none"
  /\ locals' = IF todo' = <<>> THEN Idle ELSE held
  /\ UNCHANGED <<manifest, reviewed, pins>>

\* A command of the repository, which writes its output if it succeeds.
Writes(ok, out) ==
  /\ Holding(ok, locals)
  /\ dir' = IF ok THEN out ELSE dir
  /\ UNCHANGED failures

Check(ok) == Writes(ok, dir)

\* A tool does what it should, or something else.
Tool(good, bad, Do(_)) ==
  \/ Do(good) /\ UNCHANGED failures
  \/ \E out \in bad \ {good} : Do(out) /\ failures < MaxFailures /\ failures' = failures + 1

-----------------------------------------------------------------------------
\* Files.
Missing     == [end |-> "missing"]
NoText      == [end |-> "missing", refs |-> EmptyBag]
Whole(file) == file.end = "whole"

Widths    == {Dynamic} \cup UNION {ToSet(lengths) : lengths \in OracleLengths}
TextNames == ({"core"} \X Widths)
               \cup ({"generic", "multiversioned"} \X {Dynamic})

Text(stage, width)      == dir.texts[<<stage, width>>]
Archive                 == dir.archives["e5.irpa"]
PutText(stage, w, text) ==
  IF <<stage, w>> \in TextNames THEN [dir EXCEPT !.texts[<<stage, w>>] = text] ELSE dir
PutOnnx(w, model)       == [dir EXCEPT !.onnx[w] = [end |-> "whole", model |-> model]]

\* A module of an imported model: one global and one load for each of its
\* initializers, which name their parameters by the normalized keys.
ImportedText(model, width) ==
  LET count == Cardinality(DOMAIN model.inits)
  IN [end |-> "whole", graph |-> model.graph, entries |-> 1,
      bodies |-> [w \in {width} |->
                    [dynamic |-> \E d \in AllDims(model) : ~ IsValue(d),
                     loads   |-> count]],
      refs |-> [k \in Keys(model) |->
                  Cardinality({n \in DOMAIN model.inits : irpa_key(n) = k})],
      globals |-> count, payload |-> "none", markers |-> 0]

\* The multiversioned module: the generic body and a clone for every length.
SpecializedText(core) ==
  [core EXCEPT
     !.markers = 0,
     !.bodies  = [w \in {Dynamic} \cup ExactLengths |->
                    [core.bodies[Dynamic] EXCEPT !.dynamic = (w = Dynamic)]]]

\* What a tool that goes wrong makes of a text: another function, another
\* entry, a payload instead of a parameter, a parameter twice, or a body that
\* stays dynamic.
Wrong(text) ==
  {[text EXCEPT !.graph = "miscompiled"],
   [text EXCEPT !.graph = "miscompiled", !.entries = 0]}
  \cup {[text EXCEPT !.bodies[w].dynamic = TRUE] : w \in DOMAIN text.bodies}
  \cup UNION {{[text EXCEPT !.payload = "dense_resource", !.globals = @ - 1,
                            !.refs = @ (-) SetToBag({k})],
               [text EXCEPT !.globals = @ + 1, !.refs = @ (+) SetToBag({k})]} :
                k \in BagToSet(text.refs)}

Module(text) == [end |-> "whole", graph |-> text.graph, refs |-> text.refs,
                 widths |-> DOMAIN text.bodies]

\* iree-run-module agrees with ONNX Runtime at this width.
Agrees(module, archive, model, width) ==
  /\ module.graph = model.graph
  /\ module.widths \cap {Dynamic, width} # {}
  /\ \A k \in BagToSet(module.refs) : /\ k \in DOMAIN archive.bytes
                                      /\ k \in Keys(model)
                                      /\ archive.bytes[k] = Weights(model)[k]

-----------------------------------------------------------------------------
\* check-e5.  fetch_e5_artifacts.py (see FetchArtifacts).  Mistake: a file that
\* is there is not fetched again.
FetchMissing ==
  /\ Doing("fetch")
  /\ Writes(TRUE, IF dir.source.model = Missing
                   THEN [dir EXCEPT !.source = manifest.release] ELSE dir)

\* Each pinned file is replaced by itself.
Fetch == Doing("fetch") /\ Writes(TRUE, [dir EXCEPT !.source = manifest.release])

validate_hashes == dir.source = manifest.release

Validate ==
  /\ Doing("validate")
  /\ Check(validate_hashes /\ ValidMetadata(dir.source.model, dir.source.config))

\* Mistake: an output that is there is kept.
AdaptOnce ==
  /\ Doing("adapt")
  /\ LET model == Adapted(dir.source.model)
     IN Writes(CanAdapt(dir.source.model) /\ validate_dynamic_contract(model),
               IF Whole(dir.onnx[Dynamic]) THEN dir ELSE PutOnnx(Dynamic, model))

Adapt ==
  /\ Doing("adapt")
  /\ LET model == Adapted(dir.source.model)
     IN Writes(CanAdapt(dir.source.model) /\ validate_dynamic_contract(model),
               PutOnnx(Dynamic, model))

\* The adapter reads its output again.
Reload ==
  /\ Doing("reload")
  /\ Check(assert_initializer_identity(dir.source.model.inits,
                                       dir.onnx[Dynamic].model))

\* iree-import-onnx: the bridge saves the parameters, an oracle does not; or
\* what is saved is other bytes, or is saved though it should not be.
Irpa(model)          == [end |-> "whole", bytes |-> Weights(model)]
Repacked(archive)    == [archive EXCEPT !.bytes = [k \in DOMAIN @ |-> "repacked"]]
Saved(name, archive) ==
  [n \in DOMAIN dir.archives \cup {name} |->
     IF n = name THEN archive ELSE dir.archives[n]]

Import ==
  /\ Doing("imported")
  /\ LET model == dir.onnx[Width].model
         text  == ImportedText(model, Width)
         saved == IF Width = Dynamic THEN Saved("e5.irpa", Irpa(model))
                                     ELSE dir.archives
         wrong == {Saved("e5.irpa", Repacked(Irpa(model)))}
                    \cup IF Width = Dynamic THEN {}
                         ELSE {Saved("other.irpa", Irpa(model))}
         Do(out) == /\ dir' = [dir EXCEPT !.archives = out[1]]
                    /\ Holding(TRUE, [locals EXCEPT !.text = out[2]])
     IN Tool(<<saved, text>>, ({saved} \X Wrong(text)) \cup (wrong \X {text}), Do)

\* iree-opt and mlir-opt.
Lower ==
  /\ todo # <<>> /\ Head(todo).name \in Lowered
  /\ LET Do(out) == /\ dir' = PutText(Head(todo).name, Width, out)
                    /\ Holding(TRUE, [locals EXCEPT !.text = out])
     IN Tool(locals.text, Wrong(locals.text), Do)

mark_entry ==
  /\ Doing("marked")
  /\ Holding(locals.text.entries = 1, [locals EXCEPT !.text.markers = 1])
  /\ UNCHANGED <<dir, failures>>

\* iree-compile.
Compile ==
  /\ Doing("dynamic") \/ Doing("multiversioned")
  /\ LET name   == Head(todo).name
         module == Module(Text(IF name = "dynamic" THEN "core" ELSE name, Dynamic))
         Do(out) == dir' = [dir EXCEPT !.modules[name] = out] /\ Holding(TRUE, locals)
     IN Tool(module, {[module EXCEPT !.graph = "miscompiled"]}, Do)

Inventory ==
  /\ Doing("inventory")
  /\ Check(reviewed = render(manifest.revision, Text("generic", Dynamic)))

\* check_e5_bridge.py
CheckBridge ==
  /\ Doing("check")
  /\ LET onnx == dir.onnx[Dynamic]
     IN Check(/\ Whole(onnx) /\ ParameterIdentity(onnx.model, Archive)
              /\ CoreStructure(onnx.model, Text("core", Dynamic), {}))

\* test/e5/iree_dynamic_numerical.py
Baseline ==
  /\ Doing("baseline")
  /\ Check(Agrees(dir.modules["dynamic"], Archive, dir.onnx[Dynamic].model, 17))

\* mlir-opt with the pass (see SpecializePass), which wants the marked entry.
Specialize ==
  /\ Doing("specialize")
  /\ LET text    == SpecializedText(Text("core", Dynamic))
         Do(out) == /\ dir' = PutText("multiversioned", Dynamic, out)
                    /\ Holding(TRUE, locals)
     IN Tool(text, Wrong(text), Do)

Recheck ==
  /\ Doing("recheck")
  /\ LET onnx == dir.onnx[Dynamic]
     IN Check(/\ Whole(onnx) /\ ParameterIdentity(onnx.model, Archive)
              /\ CoreStructure(onnx.model, Text("multiversioned", Dynamic),
                               ExactLengths))

\* test/e5/full_numerical.py
Compare ==
  /\ Doing("compare")
  /\ Check(\A name \in {"dynamic", "multiversioned"}, w \in ExactLengths \cup {17} :
             Agrees(dir.modules[name], Archive, dir.onnx[Dynamic].model, w))

-----------------------------------------------------------------------------
\* build_e5_static_oracles.py
Begin ==
  /\ Doing("begin")
  /\ Holding(DOMAIN dir.archives = {"e5.irpa"},
             [locals EXCEPT !.canonical = Archive])
  /\ UNCHANGED <<dir, failures>>

staticize_model ==
  /\ Doing("staticize")
  /\ LET onnx == dir.onnx[Dynamic]
         ok   == Whole(onnx) /\ CanStaticize(onnx.model)
     IN Writes(ok, IF ok THEN PutOnnx(Width, Staticized(onnx.model, Width)) ELSE dir)

\* Mistake: the archive that counts is the one that is there at the end.
EndUnhashed ==
  /\ Doing("end")
  /\ LET keys == Keys(dir.onnx[Width].model)
     IN Holding(/\ check_core(Text("core", Width), Width, keys)
                /\ DOMAIN dir.archives = {"e5.irpa"},
                [locals EXCEPT !.records = Append(@,
                   [length |-> Width, initializer_count |-> Cardinality(keys),
                    canonical |-> locals.canonical])])
  /\ UNCHANGED <<dir, failures>>

End ==
  /\ Doing("end")
  /\ LET keys == Keys(dir.onnx[Width].model)
     IN Holding(/\ check_core(Text("core", Width), Width, keys)
                /\ DOMAIN dir.archives = {"e5.irpa"}
                /\ Archive = locals.canonical,
                [locals EXCEPT !.records = Append(@,
                   [length |-> Width, initializer_count |-> Cardinality(keys),
                    canonical |-> locals.canonical])])
  /\ UNCHANGED <<dir, failures>>

WriteManifest ==
  Doing("manifest") /\ Writes(TRUE, [dir EXCEPT !.oracles = locals.records])

-----------------------------------------------------------------------------
\* bench_e5_iree.py
Exist ==
  /\ Doing("exist")
  /\ Check(/\ "e5.irpa" \in DOMAIN dir.archives
           /\ dir.onnx[Dynamic].end # "missing" /\ Text("core", Dynamic).end # "missing"
           /\ "dispatched" \in locals.variants =>
                Text("multiversioned", Dynamic).end # "missing")

Count == Doing("count") /\ Check(Cardinality(DOMAIN Archive.bytes) = NumEntries)

Source(variant, length) ==
  CASE variant = "dynamic"       -> Text("core", Dynamic)
    [] variant = "dispatched"    -> Text("multiversioned", Dynamic)
    [] variant = "static-oracle" -> Text("core", length)

\* Every module is compiled from a copy of its source; an oracle also needs
\* its record in static_oracles.json.
Artifacts ==
  /\ Doing("artifacts")
  /\ LET cells == locals.variants \X ToSet(locals.lengths)
         ok == /\ \A c \in cells : Whole(Source(c[1], c[2]))
               /\ "static-oracle" \in locals.variants =>
                    ToSet(locals.lengths) \subseteq
                      {dir.oracles[i].length : i \in DOMAIN dir.oracles}
     IN Holding(ok, IF ok THEN [locals EXCEPT !.modules =
                                  [c \in cells |-> Module(Source(c[1], c[2]))]]
                          ELSE locals)
  /\ UNCHANGED <<dir, failures>>

\* Mistake: only the first variant is compared with ONNX Runtime.
MeasureUnchecked ==
  /\ Doing("measure")
  /\ Writes(\A c \in DOMAIN locals.modules :
              c[1] = "dynamic" =>
                Agrees(locals.modules[c], Archive, dir.onnx[Dynamic].model, c[2]),
            [dir EXCEPT !.summary = locals.modules])

\* A cell is measured after its numbers were compared with ONNX Runtime.
Measure ==
  /\ Doing("measure")
  /\ Writes(\A c \in DOMAIN locals.modules :
              Agrees(locals.modules[c], Archive, dir.onnx[Dynamic].model, c[2]),
            [dir EXCEPT !.summary = locals.modules])

-----------------------------------------------------------------------------
\* What the directory may look like when the running command has failed or was
\* killed: its output is there in part, or as a whole, or as it was.  The
\* globals are at the beginning of a text, and are all there or not.
Torn(text) == {[text EXCEPT !.end = "cut"], [NoText EXCEPT !.end = "stub"]}

TornText(stage, w, text) == \E t \in Torn(text) : dir' = PutText(stage, w, t)
TornOnnx(w)              == dir' = [dir EXCEPT !.onnx[w] = [end |-> "cut"]]

Remains(cmd) ==
  \/ dir' = dir
  \/ /\ cmd.name = "fetch"
     /\ \E m \in {dir.source.model, manifest.release.model},
           c \in {dir.source.config, manifest.release.config} :
          dir' = [dir EXCEPT !.source = [model |-> m, config |-> c]]
  \/ cmd.name = "adapt" /\ TornOnnx(Dynamic)
  \/ cmd.name = "staticize" /\ TornOnnx(cmd.width)
  \/ /\ cmd.name = "imported" /\ cmd.width = Dynamic
     /\ \E archive \in {Irpa(dir.onnx[Dynamic].model), [end |-> "cut"]} :
          dir' = [dir EXCEPT !.archives = Saved("e5.irpa", archive)]
  \/ cmd.name \in Lowered /\ TornText(cmd.name, cmd.width, locals.text)
  \/ /\ cmd.name = "specialize"
     /\ TornText("multiversioned", Dynamic, SpecializedText(Text("core", Dynamic)))
  \/ /\ cmd.name \in DOMAIN dir.modules
     /\ dir' = [dir EXCEPT !.modules[cmd.name] = [end |-> "cut"]]

Abort ==
  /\ todo # <<>> /\ failures < MaxFailures /\ failures' = failures + 1
  /\ Remains(Head(todo))
  /\ todo' = <<>> /\ passed' = "none" /\ locals' = Idle
  /\ UNCHANGED <<manifest, reviewed, pins>>

\* A benchmark writes to a directory of its own.
Start(commands, held) ==
  /\ todo = <<>> /\ todo' = commands
  /\ passed' = "none" /\ locals' = held
  /\ dir' = [dir EXCEPT !.summary = <<>>]
  /\ UNCHANGED <<manifest, reviewed, bounds>>

StartCheck == Start(CheckE5, [program |-> "check-e5", text |-> <<>>])

StartOracles ==
  \E lengths \in OracleLengths :
    Start(BuildOracles(lengths),
          [program |-> "oracles", text |-> <<>>, canonical |-> Missing, records |-> <<>>])

StartBench ==
  \E lengths \in OracleLengths, variants \in Variants :
    /\ "dispatched" \in variants => ToSet(lengths) \subseteq ExactLengths
    /\ Start(Bench(variants, lengths),
             [program |-> "bench", lengths |-> lengths, variants |-> variants,
              text |-> <<>>, canonical |-> Missing, records |-> <<>>, modules |-> <<>>])

\* A person looks at the inventory of the generic text and commits it.
Review ==
  /\ todo = <<>> /\ Whole(Text("generic", Dynamic))
  /\ reviewed' = render(manifest.revision, Text("generic", Dynamic))
  /\ UNCHANGED <<manifest, dir, todo, locals, passed, bounds>>

\* A person commits another manifest.
Repin ==
  /\ todo = <<>> /\ pins < MaxPins /\ pins' = pins + 1
  /\ manifest' \in Pinnable \ {manifest} /\ passed' = "none"
  /\ UNCHANGED <<reviewed, dir, todo, locals, failures>>

\* The models that satisfy the contract of E5.
Acceptable(pin) ==
  LET model == Adapted(pin.release.model)
  IN /\ ValidMetadata(pin.release.model, pin.release.config)
     /\ CanAdapt(pin.release.model) /\ validate_dynamic_contract(model)
     /\ Cardinality(Keys(model)) = Cardinality(DOMAIN model.inits)
     /\ \A n \in DOMAIN model.inits : model.inits[n].raw
     /\ Keys(model) \cap LengthSpecific = {}

InventoryOf(pin) ==
  render(pin.revision, ImportedText(Adapted(pin.release.model), Dynamic))

\* A model of the contract is committed with its inventory.
Init ==
  /\ manifest \in Committed
  /\ reviewed = IF Acceptable(manifest) THEN InventoryOf(manifest) ELSE Missing
  /\ dir = [source   |-> [model |-> Missing, config |-> Missing],
            onnx     |-> [w \in Widths |-> Missing],
            archives |-> <<>>,
            texts    |-> [name \in TextNames |-> NoText],
            modules  |-> [name \in {"dynamic", "multiversioned"} |-> Missing],
            oracles  |-> <<>>,
            summary  |-> <<>>]
  /\ todo = <<>> /\ locals = Idle /\ passed = "none"
  /\ failures = 0 /\ pins = 0

Command ==
  \/ Fetch \/ Validate \/ Adapt \/ Reload \/ Import \/ Lower \/ mark_entry
  \/ Compile \/ Inventory \/ CheckBridge \/ Baseline \/ Specialize \/ Recheck
  \/ Compare \/ Begin \/ staticize_model \/ End \/ WriteManifest \/ Exist
  \/ Count \/ Artifacts \/ Measure

Next == \/ Command \/ Abort \/ StartCheck \/ StartOracles \/ StartBench
        \/ Review \/ Repin

\* A program that is not killed takes its commands; somebody runs check-e5
\* again and again.
Spec == Init /\ [][Next]_vars /\ WF_vars(Command) /\ SF_vars(StartCheck)

-----------------------------------------------------------------------------
\* After check-e5 everything it hands on comes from the model the manifest
\* pins: whatever failed, was killed or was pinned before, no file is left over
\* from another model or from a command that was stopped, and no mistake of a
\* tool got through.
PassedChain ==
  passed = "check-e5" =>
    LET model == Adapted(manifest.release.model)
        FromModel(file) == /\ Whole(file) /\ file.graph = model.graph
                           /\ EachOnce(file.refs, Keys(model))
    IN /\ dir.onnx[Dynamic] = [end |-> "whole", model |-> model]
       /\ Whole(Archive) /\ Archive.bytes = Weights(model)
       /\ \A stage \in {"core", "multiversioned"} :
            FromModel(Text(stage, Dynamic)) /\ Text(stage, Dynamic).payload = "none"
       /\ \A width \in ExactLengths :
            ~ Text("multiversioned", Dynamic).bodies[width].dynamic
       /\ \A name \in DOMAIN dir.modules : FromModel(dir.modules[name])
       /\ dir.modules["multiversioned"].widths = {Dynamic} \cup ExactLengths

\* What check-e5 accepts has the contract the documentation states: three i64
\* inputs of batch 1 and of one sequence dimension, which is the only dynamic
\* dimension of the graph; f32 parameters but for the position ids; and a key
\* of its own in the archive for every parameter.
PassedContract ==
  passed = "check-e5" =>
    LET model == dir.onnx[Dynamic].model
    IN /\ \E s \in AllDims(model) :
            /\ IsParam(s) /\ \A d \in AllDims(model) : IsValue(d) \/ d = s
            /\ model.inputs = [n \in INPUTS |-> [elem |-> "i64", shape |-> <<1, s>>]]
       /\ model.outputs = [name \in {OUTPUT} |-> <<1, 384>>]
       /\ NonF32(model) = {PositionIds}
       /\ \A n \in DOMAIN model.inits :
            Archive.bytes[irpa_key(n)] = model.inits[n].bytes

\* The oracles of a build are static modules that take the same parameters
\* from the one archive their records name, which the build left alone.
OracleClaims ==
  passed = "oracles" =>
    /\ DOMAIN dir.archives = {"e5.irpa"}
    /\ \A i \in DOMAIN dir.oracles :
         LET record == dir.oracles[i]
             core   == Text("core", record.length)
         IN /\ record.canonical = Archive
            /\ Whole(core) /\ core.entries = 1
            /\ DOMAIN core.bodies = {record.length}
            /\ ~ core.bodies[record.length].dynamic
            /\ EachOnce(core.refs, Keys(dir.onnx[Dynamic].model))
            /\ record.initializer_count = core.globals

\* The modules that one summary compares compute one function, load every
\* parameter once, and are the variants it calls them: the dynamic one has no
\* static body, the dispatched one has a clone for every length it is measured
\* at, the oracle nothing else.
MeasuredTogether ==
  \A c, d \in DOMAIN dir.summary :
    LET module == dir.summary[c]
    IN /\ module.graph = dir.summary[d].graph /\ module.graph # "miscompiled"
       /\ module.refs = dir.summary[d].refs
       /\ Cardinality(References(module.refs)) = NumEntries
       /\ module.widths = CASE c[1] = "dynamic"       -> {Dynamic}
                            [] c[1] = "dispatched"    -> {Dynamic} \cup ExactLengths
                            [] c[1] = "static-oracle" -> {c[2]}

\* Nothing that failed, was killed or was left in the directory keeps check-e5
\* from passing: if the manifest stays at a model that satisfies the contract,
\* and its inventory stays committed, check-e5 passes again and again.
Settled == Acceptable(manifest) /\ reviewed = InventoryOf(manifest)

Recovers == <>[]Settled => []<>(passed = "check-e5")

=============================================================================
