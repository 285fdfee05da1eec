# Verification of the encoder multiversioner

This directory holds TLA+ models of the `shortseq-specialize` MLIR pass and of
the scripts around it, the TLC configurations that check them, and TLAPS proofs
about every part of the pass, the fetching of artifacts, the E5 pipeline, the
causality benchmark and the Stage B bundle. It is written from the code:
`lib/ShortSeqSpecializePass.cpp` and the Python under `scripts/` and
`benchmarks/`.

## The system

`shortseq-specialize` takes a module with one marked inference function whose
token dimension is dynamic. For each requested length `N` it clones the
function, refines the clone to the static length, and puts a dispatch wrapper
under the function's name: a call whose sequence arguments all have width `N`
goes to the clone, any other call to the unmodified generic function. It
supports three contracts: the Stage A MLP, the Stage B tiny encoder and
E5-small-v2. Around the pass there is a pipeline that fetches a pinned E5
model, adapts and imports it, checks the resulting IR, and measures it.

| component | source | state | operations | correct when | module |
| --- | --- | --- | --- | --- | --- |
| types and contracts | pass, 28-285, 461-528, 868-913 | none | which dynamic types, reshapes and refinements exist | see the users | `TensorTypes` |
| body validation and clone refinement | pass, 266-728, 842-980 | the body, the values taken for the sequence length, the clone | collect, validate, refine | the clone's static types are the shapes the generic function computes | `SpecializedBody` |
| entry signature | pass, 105-189, 730-866, 903-913 | the function type | `validateEntry`, static types | accepts the documented signature only; the clone's signature fits the wrapper's casts | `EntrySignature` |
| driver | pass, 68-89, 1090-1236 | the module, its symbols and markers | one run of the pass | all or nothing before the first change; callers reach the wrapper | `SpecializePass` |
| dispatch wrapper | pass, 982-1088 | the builder's insertion point and the emitted blocks; at run time one call | emit, call | every call reaches the right function with its own operands | `Dispatch`, `Routing` |
| pass registration | `lib/Passes.cpp` | none | plugin entry point | - | not modelled |
| artifact fetching | `scripts/fetch_e5_artifacts.py` | files and `.part` files | download, hash, replace | what is reported verified is the pinned file | `FetchArtifacts` |
| bridge check | `scripts/check_e5_bridge.py` | none (reads the IR and the archive) | match the wrapper; compare parameters, references, markers, clones | accepts what the pass emits, and nothing that routes otherwise | `BridgeChecker`, `E5Model` |
| parameter accounting | `scripts/check_parameter_accounting.py` | none (reads the IR) | match the calls of the wrapper | an accepted wrapper forwards every parameter in its place | `BridgeChecker` |
| E5 bridge build, adapter | `scripts/build_e5_bridge.py`, `adapt_e5_onnx.py` | files of the artifact directory | a sequence of tools | what it hands on comes from the pinned model, whatever was there before | `E5Pipeline`, `E5Model` |
| E5 validation and inventory | `scripts/validate_e5_artifacts.py`, `inventory_e5_core.py`, `e5_common.py` | none (reads files) | hashes, metadata, inventory | only models of the contract get through | `E5Pipeline`, `E5Model` |
| E5 static oracles | `scripts/build_e5_static_oracles.py` | oracle files, `static_oracles.json` | build one oracle per length, record them | the oracles take the same parameters from the one archive | `E5Pipeline`, `E5Model` |
| E5 benchmark | `benchmarks/bench_e5_iree.py` | its modules and summary | check, build oracles, compile, compare, measure | a summary compares variants of one model | `E5Pipeline` |
| build targets | `CMakeLists.txt` | - | `fetch-e5`, `check-e5` | passes again after any failure | `E5Pipeline` |
| Stage B artifact and bundle | `scripts/make_stage_b_*.py`, `check_stage_b_*.py` | an `.npz`, an MLIR module, an archive | write, check | an accepted bundle has each parameter once; what is built is accepted unless the source adds to it | `StageBBundle` |
| causality benchmark | `benchmarks/bench_e5_static_causality.py` | the output directory, the records of each path | build, compile, check, trials, gate | the report describes its own run, and calls it controlled only if it was | `CausalityBench` |
| other benchmarks | `benchmarks/` | samples | measure, print | - | not modelled |

The components interact through the module the pass rewrites (driver, body,
signature, wrapper), through the IR file the checker reads, and through files
in the artifact directory (fetch, build, check, benchmark). The pass is
sequential. What is hard about it: a fixed point over asserts that may come in
any order, a chain of local checks that has to add up to a global fact about
shapes, a recursion that shares one insertion point, and a module that must
stay as it was until every check has passed. The scripts are sequential too,
but they meet failed downloads, kills, restarts, each other, tools that go
wrong, and what an earlier run over another model has left in the directory
they share.

## Modules

**`TensorTypes`** has types as records of an element type and a shape, `Dyn`
for `ShapedType::kDynamic`; the tables of dynamic families and reshape pairs
are the ones of the code, shape by shape.

**`SpecializedBody`** is the core. A body is written operation by operation
(`Build`: one action per kind of operation, any operands), then `RunPass`
starts the pass: `validateE5Lengths` seeds the values known to be the sequence
length, `collectE5SequenceLengths` visits the equality asserts one by one in
the order of the body, `EndWalk` ends one walk of the do-while loop,
`validateSpecializedBody` decides, `refineClone` writes the clone. Then the
program runs on inputs that the wrapper routes to this clone (`Enter`): the
generic function is executed one operation at a time, and `extents` records the
dynamic extents and index values it computes; an assert that fails ends the run
(`Trap`). The clone is right when these extents are the static ones
(`CloneAgrees`). Everything the importer may write is allowed in a body: the
validator, not the model, excludes what is wrong. The linalg operations of the
allow list are one operation whose result has the type and the extents of its
destination operand; `tensor.pad` stands for any operation outside the list.
Element values are left out.

**`EntrySignature`** writes signatures by edits of the documented ones and runs
`validateEntry` under each marker, then derives the clones' signatures.

**`SpecializePass`** has a module as a sequence of functions with a name,
markers, visibility, calls and contract. Each check of `runOnOperation` is one
action that fails or goes on, and the renaming, every clone and the wrapper are
actions of their own, so that a state between any two of them is seen. Users
run the pass, mark a function of its output and run it again, or start over.
Whether a body is valid is a field of the function here.

**`Routing`** says what the function under the entry's name promises.
**`Dispatch`** has the emission of the wrapper as the code does it, a builder
with one insertion point and a stack of activations of `emitDispatchChain`, and
then executes what was emitted. `Routes == R!Spec` maps it to `Routing`: the
sequence arguments and lengths of the contract, the widths of the call in
progress and the function it has reached.

**`FetchArtifacts`** has directory entries that name inodes, so that a move and
an open stream behave as they do on a file system, a response that may be cut,
corrupted or reset at any block, and a process that may be killed anywhere.

**`BridgeChecker`** extends `Dispatch`. Once the wrapper is emitted, an editor
may change it as long as it stays valid IR (an operand becomes another value of
the same type that dominates the use, a branch calls another clone with the
casts that needs), then `check_dispatch_wrapper` judges it, and only an
accepted wrapper is called. A wrapper of Stage B, which has parameters, is
judged by `check_parameter_forwarding` of the accounting script instead, and
the editor may swap two weights of one type. The text of a block is the
sequence of its operations in print order, and a regular expression of the
script a predicate on one operation: what the expressions bind is the SSA name,
and names are unique. The editor is external; the checker is translated pattern
by pattern, including `one_match`, which fails unless exactly one operation
matches.

**`CausalityBench`** has one action per step of `main` from the argument checks
to `summary.json`, for several processes that share the output directory. A
file is who wrote it. The paths and effects are the ones of the script for the
target lengths, and the order of a session's trials is one of `Orders`. Timings
are left out, and the arithmetic of the claim gate with them: of an effect only
the pairing of its trials is kept. A host is what its processor does and which
files of `/sys` it has to tell; a file that is missing reads as `None`.
`HostChange` changes it; `ReallyControlled` is what the script tries to find
out, `read_cpu_control` what it concludes from the files. The plugin may expose
any of the clones in either module (`Transform`).

**`E5Model`** has what the E5 scripts look at in a model, an archive and the
text of a core, as records, and the conditions they check, as operators with
the names of the functions. An ONNX model is its inputs and outputs with their
shapes, the dimensions of the values inside, its initializers with their types
and bytes, and the function it computes, which is only the same or another.

**`E5Pipeline`** is the artifact directory and the programs that work on it. A
program is the sequence of the commands it has still to take (`CheckE5`,
`BuildOracles`, `Bench`); a command reads and writes `dir` and fails or goes
on, and `todo` is empty when no program runs. `passed` is the program that ran
to its end last, while nothing was started since. A tool of IREE or MLIR writes
what its input asks for or something else (`Wrong`, and for the importer also
`Repacked` bytes in the archive, or an archive of an oracle's own); any command
may fail or be killed and leave its output in part (`Abort`, `Remains`);
between two programs a person may pin another release (`Repin`) or commit the
inventory of what was built (`Review`). Files say what they were made from, so
that a leftover is told from a file that only looks like it. Texts that only
the next command of the same build reads are kept in `locals`: nobody else
opens them. One program runs at a time.

**`StageBBundle`** has the Stage B weights from the `.npz` to the bundle. The
three tables of shapes and the table of bytes are the four scripts' own.
`Export` is another exporter of the contract, which changes the artifact;
`BuildMlir` and `write_archive` are the two writes of one build, between which
a build may stop and the checker may run. The module is its text in order: the
globals with their references, the adapter with its loads, and the body of the
source with whatever references, loads and payloads that has. A stopped build
leaves a prefix of it (`Cuts`). `check_mlir` counts in all of the text, as the
script does; `ParametersOnce` asks for the builder's own part of it.

## Runs

| run | question | result |
| --- | --- | --- |
| `BodyE5` | does the loop collect exactly what the asserted equalities prove (`KnownAreProven`, `KnownAreAll`), do the collected values hold at run time, and do the clone's types, the slice bounds and the reshapes agree with the run? | holds on every body of up to 5 dims, constants, clamps and asserts, and of up to 3 shape operations at the lengths 2, 512 and 513 |
| `BodyNestedAsserts` | and if an assert may sit where a run does not go? | `KnownHold` is violated, see Findings |
| `Dispatch` | does the wrapper implement `Routing`, with blocks and operands the verifier accepts (`WrapperVerifies`), casts that hold, operands in place and results of the wrapper's type? | holds for the three contracts, chains of 1 to 3 clones, all widths from 0 to 4 |
| `Specialize` | symbols unique and calls resolved (`SymbolsSound`), callers on the wrapper, clones as requested (`Layout`), rejected runs unchanged, marker earned | holds on 450 modules, 7 length options, 2 runs |
| `EntrySignature` | exactly the documented signatures accepted, static signatures castable | holds for every signature within two edits |
| `FetchAlone` | verified files are the pinned ones, an output only improves, restarts get everything | holds for 2 files, 2 kills, any remains of earlier runs |
| `FetchTogether` | and two processes at once? | `VerifiedIsExpected` is violated, see Findings |
| `BridgeEdited` | of the wrappers two edits away from an emitted one, does a checker accept any that routes otherwise or forwards a parameter out of place (`AccountedForwards`), or reject the emitted one? | no, for E5 and Stage B, chains of 1 and 2 clones and all widths |
| `BridgeLengthOne` | and for a clone of length 1? | `AcceptsEmitted` is violated, see Findings |
| `CausalityTogether` | does only one of two invocations in a directory compile and measure (`OneMeasures`), and is its summary complete, about modules that export what it says, and right when it calls the processor controlled (`ControlledTrials`)? | holds with failures and kills anywhere, on a controlled host and four that are not |
| `E5Pipeline` | after `check-e5` passes, does everything it hands on come from the pinned model (`PassedChain`), within the contract (`PassedContract`)? Do the oracles take the one archive (`OracleClaims`), and does a summary compare variants of one model (`MeasuredTogether`)? Does `check-e5` pass again whatever was left behind (`Recovers`)? | holds with one fault at any command for each of 18 releases in a fresh directory, and for two more pinned over its files |
| `StageBBundle` | can an accepted artifact be built (`AcceptedArtifactBuilds`), does an accepted bundle have each parameter once (`ParametersOnce`), and is what is built accepted exactly if its source adds nothing that is counted (`BuiltBundleChecks`)? | holds for artifacts two changes away from the script's, six sources, and one writer stopped anywhere |

**Bounds.** `MaxOps` bounds the operations of a body: a proof of equality that
needs a second walk takes two dims or constants and two asserts, and five
operations give a chain of three values with asserts in the wrong order. Three
shape operations give a source, a reshape or a slice, and a use. The proofs
remove this bound. A wrapper's levels differ only in their depth: two levels
show the recursion, three show an activation that is neither first nor last;
length 1 coincides with the axis constant. Modules have three functions: the
entry, one that calls or is called, and one that clashes. `MaxRuns` is 2
because a second run is what meets the symbols of the first. Two edits break
two checks of a signature at once or repair one another. A file has two blocks
so that a response can be cut, corrupted or reset between them; two files show
that the loop goes on; `MaxCrashes` bounds kills because each one only repeats.
A wrapper is edited at most twice (`MaxEdits`): most single edits break a
pattern, and the second is what could repair it while the routing stays wrong.
The benchmark has one target length of its two (both are treated alike), two
sessions (the least it accepts; one is refused), two orders of the trials (the
order given and its reverse), two invocations (`MaxAttempts`), and at most one
change of the host (`MaxHostChanges`). The hosts are a controlled one and four
with a clock, a boost or a thread that is not and no file that tells: no
`cpufreq`, another driver's boost, no sibling list, no `online` file. With one
length the plugin of the run exposes its clone or does not; the theorem is
about any lengths and any subset of the clones. In the pipeline one fault
(`MaxFailures`) at any command of any program, in a directory that already
holds everything of another release (`MaxPins`), is what leaves files of two
origins side by side. A release of another contract differs from the first in
one thing, one for nearly every condition of the validators, and is tried in a
fresh directory; the two releases a person may pin later satisfy the contract,
one with other weights and another graph and one that only the graph tells from
the first, so that no check of the parameters hides what is left over; two
lengths of the four show that a record or a file of one is not taken for the
other; two initializers are enough for one to be missing, repeated or to share
a key (`NumEntries` stands for 198). An artifact of Stage B is changed twice
(`MaxEdits`), so that one change could hide another, and one writer is stopped
(`MaxStops`), since a second one only overwrites. The sources are one of the
contract, one with a payload, one with a reference, one with a load, one with
both, and one that is no module: a reference or a load of the source is what
could stand in for one that a stopped build left out.

`BodyE5` explores the bodies of the two questions it asks, those of the loop
and those of the shape operations, and not their product (`BoundedNext`). The
Stage A and B validators have no run: `CloneAgrees` is proved for every
contract.

**Fairness.** The wrapper is sequential and never waits, so a step that can be
taken is taken: weak fairness of `Emit` and `Execute`. Nothing is assumed of
callers, users or kills. `Fetched` assumes that a script which failed is
started again and that the server answers with the file now and then (strong
fairness of that answer): without these no script could promise anything.
`Recovers` assumes that a program which is not killed takes its commands (weak
fairness of `Command`) and that somebody runs `check-e5` again and again,
though others may run the oracles or the benchmark in between (strong fairness
of `StartCheck`); faults are finitely many by `MaxFailures`, and it claims
nothing of a manifest whose model or inventory was not brought in line
(`Settled`).

**Deadlock** is checked for `Dispatch`, `E5Pipeline` and `StageBBundle`. The
other models end: a body has been run, runs and edits are bounded, files are
fetched, a rejected wrapper is not called, and invocations are bounded.

## Findings

*Asserts a run may skip.* `collectE5SequenceLengths` walks into regions, and
takes every `cf.assert` it meets for a proof (the comment at 433-435). An
assert inside a branch that is not taken proves nothing, and the validator
accepts a size that is not the sequence length. The pinned core is straight-line
code (`docs/e5-core-inventory.md` lists every operation of it, none with a
branch), so the shipped artifact is not affected. The other runs and the proofs
set `NestedAsserts = FALSE`, which is that fact.

*One `.part` name.* Two runs of `fetch_e5_artifacts.py` on one directory share
the `.part` file. One may truncate what the other has hashed and is about to
move over the output, and the other prints `verified` for a partial file.

*A clone for length 1.* `check_e5_bridge.py` looks for the constant of a level
in the text of the whole wrapper, where the constant of the sequence axis is
also `arith.constant 1 : index`. It finds two and rejects the wrapper the pass
emits for `lengths=1`, a length the pass and the script's own
`--specialized-lengths` allow.

Two more behaviours, of the causality benchmark, are in the model without a run
of their own. Two invocations that both find the directory empty write the same
sources; only `phases.mkdir`, which comes later, stops one of them, and the
hash that the other records can be that of a source it did not compile. And the
processor is looked at once, after the trials: `ControlledTrials` holds of a
host that stays as it is, and of no other.

Three more, of the Stage B bundle. A module that is cut behind the adapter's
last load satisfies every test of `check_stage_b_bundle.py`, which looks for
substrings, and no parser takes it; `ParametersOnce` therefore says nothing of
the text from there on. A source with a load, a reference or a payload of its
own is built and then refused. And a module and an archive of two builds are
accepted together, since all artifacts have one shape and no checksum ties the
files to one another.

## Proofs

Every theorem is about the model's own specification, for all values of the
constants that satisfy the `ASSUME`s of its module. The bounds (`MaxOps`,
`MaxRuns`, `MaxEdits`, ...) are arbitrary numbers there, so what a run shows of
a small instance holds of any. None of the invariants is inductive as the runs
state it; each proof module begins with the inductive invariant `IInv` it rests
on, has one step for each action, and ends with the theorems
(`E5PipelineProofs` and `DispatchProofs` hold the proofs of two specifications
one after the other, the second with the invariants `FetchInv` and
`CheckerInv`). Each of them was checked by TLC on
the instance of its run before it was proved.

| module | theorem | states |
| --- | --- | --- |
| `SpecializedBodyProofs` | `TypeCorrect`, `KnownAreProvenTheorem`, `KnownAreAllTheorem`, `KnownHoldTheorem`, `CloneAgreesTheorem`, `SlicesInBoundsTheorem`, `ReshapesKeepCountTheorem`, `CloneVerifiesTheorem` | the eight invariants of `BodyE5` |
| `DispatchProofs` | `Verifies`, `Casts`, `Forwarded`, `CastBack`, `ImplementsRouting` | the four invariants of `Dispatch`, and the safety part of `Routes` |
| `DispatchProofs` | `RoutesWhatIsAccepted`, `FallsBackIfAccepted`, `ForwardsIfAccounted`, `AcceptsWhatIsEmitted` | the four invariants of `BridgeEdited` |
| `SpecializePassProofs` | `UniqueSymbols`, `Rejected`, `Callers`, `LaidOut`, `Earned` | the four invariants and the action property of `Specialize` |
| `EntrySignatureProofs` | `OnlyContract`, `CloneFits` | the two invariants of `EntrySignature` |
| `E5PipelineProofs` | `EverythingFromThePin`, `AcceptedIsE5`, `OraclesShareTheArchive`, `ComparedLikeWithLike` | the four invariants of `E5Pipeline` |
| `E5PipelineProofs` | `Verified`, `NeverWorse` | the invariant and the action property of `FetchAlone` |
| `CausalityBenchProofs` | `OneMeasuresTheorem`, `SummaryCompleteTheorem`, `VisibilityTheorem`, `ControlledTheorem` | the four invariants of `CausalityTogether` |
| `StageBBundleProofs` | `Once`, `Builds`, `Checks` | the three invariants of `StageBBundle` |

`SequenceLemmas` has what these proofs keep needing of sequences whose elements
have no common type: what `Append`, `\o`, `SubSeq`, `Tail` and `EXCEPT` return.

**`SpecializedBody`.** For every contract, set of lengths, widths, types and
constants, every body of any size and every run, under `NestedAsserts = FALSE`.
`CloneAgrees` speaks of the end of a run and says nothing about the body that
was accepted, so `IInv` has four parts:

- `WellFormed`: operands come before their uses, sizes are as many as dynamic
  axes, types are of the body's set. It is what the builder and the importer
  give.
- `WalkInv`: every assignment of numbers to the index values that gives the
  entry's dims the specialized length and satisfies the asserts gives every
  collected value that length. A visited assert adds a value only next to one
  already collected, so the step preserves it; this is the argument the loop
  rests on, and it is stronger than the checked `KnownAreProven`, which looks
  at two numbers only.
- `PassInv`: what the phase says about the checks passed so far. Past
  `validate` every operation has been accepted, past `refine` the clone is
  the body's refinement.
- `RunInv`: the extents computed so far. The run itself is an assignment of the
  kind `WalkInv` quantifies over as far as it has got, asserts included; so the
  collected values have been the length, and, operation by operation from the
  validator's case, every dynamic extent is the length.

`ReshapesKeepCount` then is arithmetic on the shapes of the reshape tables.
`KnownAreAllTheorem` needs neither `IInv` nor straight-line code. Its invariant
`ClosedInv` says that an assert this walk has visited is balanced (both sides
collected, or neither) unless the walk has added a value; a walk that added
nothing leaves every assert balanced, and then the assignment that gives the
collected values the length and all others another number satisfies the asserts,
so that a value outside is not forced.

**`Dispatch`.** `EmitInv` gives the text of every block in terms of the depth of
the recursion alone: level `i` is block `2i - 1`, its then region block `2i`,
and the block with the insertion point is the one of the innermost activation,
with the terminators below it still missing. `RunInv` says where a call is by
the level: it has passed the tests of all earlier levels in vain, what it has
computed is the prefix of the block, and the function it reached is
`R!CalleeFor(widths)`. `ImplementsRouting` maps `Init` and every step to a step
or a stutter of `Routing`.

**`BridgeChecker`**, for every list of lengths, all widths and any number of
edits. The argument has four layers:

- `Shaped` is what no edit changes. Each level still ends in an `scf.if` over
  its two regions, perhaps exchanged, behind tests that use values above them,
  or the editor has cut it off by putting a call in its place; every other block
  is a leaf with one call.
- `WholeText`: the text of the wrapper is the operations of the blocks that are
  not cut off, `TextElements` says the same of each region. `Text` and `LevelsOk`
  are recursive functions, whose values are computed level by level from the
  last one. `UpTo` and `DownTo` are induction for a set of numbers, derived from
  the library's theorem that strict inclusion of finite sets is well-founded.
- `Accepted` is what a verdict of acceptance means. For E5 (`DispatchesByWidth`)
  the guard of every level asks whether all three widths are its length, the
  region taken calls the clone for it, and the last other region calls the
  generic function with the arguments. The patterns give this level by level,
  because a match is an operation of the text and names what it uses
  (`AcceptedLevels`, `AcceptedAsks`). For Stage A and B (`AllForward`) the script
  looks at the last call of each function only. That is enough because every
  function has a call, and there are as many functions as leaves to hold one
  (`InTreeLeaf`, `NamesDiffer`).
- `Choosing` is where a run of an accepted wrapper is: at a level, having missed
  the lengths before it and with every value above it computed as its operation
  says, or in the region that its widths chose.

`AcceptedRoutes`, `AcceptedFallback` and `AccountedForwards` are about the call
that such a run makes. `AcceptsEmitted` needs the converse: the patterns are
met, each once, by the wrapper of `EmitInv` (`EmittedWrapper`), whose calls come
in the order of the lengths with the generic function last (`CallsInOrder`). It
has a hypothesis, that no list begins with `kSequenceAxis`, which is 1: the run
`BridgeLengthOne` shows the theorem false without it. Lists ascend, so a later
length is not 1.

**`SpecializePass`.** In each phase the module is given exactly as a function of
the input: untouched while checks are running, then with the entry renamed, `n`
clones behind it, the wrapper behind them and the rest moved up (`Rewritten`).
`InputsAssumption` is that `mlir-opt` has parsed and verified the module: its
symbols are unique and its calls resolved. That a run's output satisfies it
again is part of the proof, which is what lets a second run follow. The
properties then are about names: `f`, `f_generic` and `f_s<N>` differ, and
`CheckCollisions` has compared them with all that was there.

**`EntrySignature`.** `IInv` is that a rejected signature is not the documented
one and an accepted one is, that an edited one still is a signature, and that
the clones' types are computed from it. `OtherTypesAssumption` says that the
types an author may write are tensor types of any element and shape.

**`E5Pipeline`**, for all releases a manifest may pin, all lists of lengths and
variants and any number of failures and changes of the manifest. `IInv` says
what is in the files and what the running program knows:

- `FileInv`: a whole file has the form its reader counts on, whoever wrote it and
  however often a build was stopped since. A command that dies leaves no whole
  file but the one it would have written or the one that was there (`Stopped`).
- `Checking(k)`: `check-e5` is before its `k`-th command of 18 and `Chain(k)`
  holds, which grows link by link: the source is the pinned release, its metadata
  have been validated, the adapted model is made from that source and keeps the
  dynamic contract, the archive is of that model or holds other bytes
  (`ImportedArchive`, until they are compared: `RightArchive`), the core has the
  structure that was compared with model and archive, and each compiled module
  is of the text that lies beside it, its graph compared with the model's. A
  file that an earlier build left is in the chain only from the command on that
  has rewritten it or compared it. A tool that went wrong is allowed to all along
  (`Compiled`) and is excluded by the comparison behind it.
- `Oracling`, `Benching`: what may come after each command (`Follows`), rather
  than the command list, because that is flattened from the list of lengths.
  What a build of oracles has recorded is sound and of smaller lengths than the
  one at work (`Building`), so a later length never overwrites a file that a
  record speaks of. `Vouched` is what the benchmark has checked by itself of the
  archive and the two modules.

`OraclesShareTheArchive` needs a fact about bags, `OnceEach`: as many references
as keys, and every key among them, is each key exactly once, which is why the
script may count instead of compare. `PinsAssumption` says what a
model in ONNX format is, and nothing about its contract: that is for the
validator to find out. `LengthsAssumption` is what `parse_lengths` returns
(`build_e5_static_oracles.py:33-39`, `bench_e5_iree.py:88-94`): lengths of 1 to
512, none twice, in order.

**`FetchArtifacts`**, for one process (`Fetchers = {p}`); of two the theorem is
false, as the run `FetchTogether` shows. No inode has two names (`NoSharing`), a
stream is open only while its file is written and is the current `.part`, and
before `Replace` what the `.part` names hashes as pinned (`Streams`). The
process may die anywhere and be started again over whatever is there.

**`CausalityBench`**, for any number of processes, target lengths, sessions,
orders and hosts. The evidence directory of the first module is a lock that is
never released: `mkdir` gives it to one process, only a process that has it
(`Locked`) compiles, so every `.vmfb` and the summary are of its owner, who has
an id of its own. A process therefore measures the modules whose exports it has
checked (`Exports`), although the sources beside them may be another's.
`Progress` counts checks and trials by position: in a session that has `queue`
left, each path has been timed once more unless the queue has it.
`OrdersAssumption` is that a shuffle permutes. `ControlledTheorem` goes through
every file that may be missing: a bound of the clock that is `None` is no fixed
clock, a processor without an `online` file counts as running, and without a
list of siblings nothing is known of them.

**`StageBBundle`**, for any sources and scopes, changes by other exporters and
stopped writers. The four tables agree (`Tables`), so a build holds the bytes
of the checker's table between its two writes; a text has nothing of the
source's body unless all that the builder writes before it is there (`TextOk`,
which every cut keeps: `CutText`); and a verdict is about files nobody has
touched since. `SourcesAssumption` gives the type of what a source may bring,
any number of references and loads included. `Once` is where the totals of the
checker meet the order of the text. A reference or a load of the body is only
there behind all of the builder's own, so that none of them can make up for a
missing one: a text that has as many references as parameters, and the adapter,
has the builder's references before it, and loads of the body only come after
the adapter's ten. The same facts give the equivalence of `Checks`.

Not proved, and why:

- liveness under fairness is outside the prover: `Fetched`, `Recovers`, and the
  half of `Routes` that says every call is answered stay with TLC.

## Not modelled

Element values and numerics (the tests compare them with references: in the
pipeline a comparison tells one function from another and one set of weights
from another), MLIR's parser, printer and verifier beyond the parts named
above, the text of diagnostics, pass registration, the ONNX nodes the adapter
appends, the encodings of tensor types, tokenisation, and the statistics of the
benchmarks, the bootstrap and thresholds of the claim gate included.
`validate_e5_inputs.py` checks fixtures that the scripts make themselves. Stage
A and B benchmarks measure and print; the state they keep is a list of samples.
The output directory of `bench_e5_iree.py` is not shared in the model: that two
invocations may meet in one is what `CausalityTogether` asks of its sibling.
Two programs of `E5Pipeline` at once are not in the model either: the targets
take the terminal, and what two of them would do to one another in one
directory is listed among the hazards.

## Plan

1. (done) `TensorTypes`, `SpecializedBody` and its proofs, `Routing`,
   `Dispatch`, `SpecializePass`, `EntrySignature`, `FetchArtifacts`,
   `BridgeChecker`, `CausalityBench`.
2. (done) The file pipeline of `check-e5` with the static oracles and the
   benchmark that reads them, over failures, kills and changes of the manifest;
   the parameter accounting; the Stage B bundle.
3. (done) Proofs of every invariant and action property of `SpecializedBody`,
   `Dispatch`, `SpecializePass`, `EntrySignature`, `FetchArtifacts` (one
   process), `E5Pipeline`, `BridgeChecker`, `CausalityBench` and `StageBBundle`,
   and of the refinement of `Routing` step by step.
4. Left: two programs at once in the artifact directory of `E5Pipeline`.
