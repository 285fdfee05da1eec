---------------------------- MODULE CausalityBench ----------------------------
(***************************************************************************)
(* benchmarks/bench_e5_static_causality.py builds three modules in an      *)
(* output directory, checks every path numerically, times every path once  *)
(* in each session, in an order drawn anew, and writes a summary with a    *)
(* claim gate.  Processes may be started in one directory one after        *)
(* another or at once, may fail or be killed at any step, and the host     *)
(* they measure on may change.                                             *)
(*                                                                         *)
(* Timings are left out, and with them what the bootstrap and the gate's   *)
(* thresholds make of them: of an effect only the pairing of its trials is *)
(* kept.                                                                   *)
(***************************************************************************)
EXTENDS Integers, Sequences, FiniteSets

SE == INSTANCE SequencesExt

CONSTANTS
  Processes,       \* the processes that run the script
  TARGET_LENGTHS,  \* the specialized lengths, a sequence
  SessionCounts,   \* the values --sessions is given
  Cpus,            \* what --cpu and --no-affinity select
  Hosts,           \* the states the host can be in
  Orders,          \* the orders the shuffle may give, of 1..Len(specs)
  MaxAttempts,     \* bound on invocations
  MaxHostChanges   \* bound on changes of the host

ASSUME LengthsAssumption ==
  TARGET_LENGTHS \in Seq(Nat) /\ SE!IsInjective(TARGET_LENGTHS)
ASSUME BoundsAssumption == MaxAttempts \in Nat /\ MaxHostChanges \in Nat
ASSUME SessionsAssumption == SessionCounts \subseteq Nat

VARIABLES
  source,       \* module -> its .mlir in the directory
  evidence,     \* module -> who made its compiler-evidence directory
  vmfb,         \* module -> its .vmfb
  summary,      \* who wrote summary.json
  attempts,     \* how many invocations there were
  run,          \* process -> its invocation, a record
  host,         \* the state of the host
  hostChanges   \* how often it changed

directory == <<source, evidence, vmfb, summary>>
vars == <<source, evidence, vmfb, summary, attempts, run, host, hostChanges>>

FALLBACK_LENGTH == 257
NoCpu  == -1
Absent == 0

\* The modules in the order they are compiled.
ModuleNames == <<"dynamic", "multiversioned-production",
                 "multiversioned-observable">>
Modules     == SE!ToSet(ModuleNames)
NoText      == [by |-> Absent, public |-> {}]

-----------------------------------------------------------------------------
\* The exported functions, and the paths that are compared.
Wrapper   == <<"sentence_embedding", 0>>
Generic   == <<"sentence_embedding_generic", 0>>
Static(l) == <<"sentence_embedding_s", l>>

PathSpec(length, path, module, function) ==
  [length |-> length, path |-> path, module |-> module, function |-> function]

TargetSpecs(l) ==
  << PathSpec(l, "dynamic", "dynamic", Wrapper),
     PathSpec(l, "production-generic", "multiversioned-production", Generic),
     PathSpec(l, "production-dispatched", "multiversioned-production",
              Wrapper),
     PathSpec(l, "observable-generic", "multiversioned-observable", Generic),
     PathSpec(l, "direct-static-diagnostic", "multiversioned-observable",
              Static(l)),
     PathSpec(l, "observable-dispatched", "multiversioned-observable",
              Wrapper) >>

specs ==
  [i \in 1..(6 * Len(TARGET_LENGTHS)) |->
     TargetSpecs(TARGET_LENGTHS[((i - 1) \div 6) + 1])[((i - 1) % 6) + 1]]
  \o << PathSpec(FALLBACK_LENGTH, "generic-fallback-control",
                 "multiversioned-production", Generic),
        PathSpec(FALLBACK_LENGTH, "dispatched-fallback",
                 "multiversioned-production", Wrapper) >>

Specs == SE!ToSet(specs)

\* shuffle permutes the paths.
ASSUME OrdersAssumption ==
  \A order \in Orders : /\ order \in Seq(DOMAIN specs)
                         /\ SE!IsInjective(order)
                         /\ SE!ToSet(order) = DOMAIN specs

SpecOf(length, path) ==
  CHOOSE spec \in Specs : spec.length = length /\ spec.path = path

\* The effects, each a pair of paths of one length.
Effect(length, reference, candidate) ==
  [length |-> length, reference |-> reference, candidate |-> candidate]

Targets == SE!ToSet(TARGET_LENGTHS)

Clones  == {Static(l) : l \in Targets}

EffectPaths ==
  { <<"production-generic", "production-dispatched">>,
    <<"observable-generic", "direct-static-diagnostic">>,
    <<"direct-static-diagnostic", "observable-dispatched">>,
    <<"dynamic", "production-generic">>,
    <<"production-generic", "observable-generic">>,
    <<"production-dispatched", "observable-dispatched">> }

Effects ==
  {Effect(l, paths[1], paths[2]) : l \in Targets, paths \in EffectPaths}
  \cup {Effect(FALLBACK_LENGTH, "generic-fallback-control",
               "dispatched-fallback")}

-----------------------------------------------------------------------------
\* A host: the bounds of the clock, the boost, the threads of the core and
\* those that run; and, of /sys, which files there are to tell it.  A file that
\* is not there gives None.
None == "none"

minimum == IF host.cpufreq THEN host.min ELSE None
maximum == IF host.cpufreq THEN host.max ELSE None

no_turbo == IF ~ host.intel_pstate THEN None
            ELSE IF host.turbo THEN "0" ELSE "1"

online(c) == IF c \notin host.hotplug THEN None
             ELSE IF c \in host.online THEN "1" ELSE "0"

\* Mistake: two files that are not there have the same contents.
read_cpu_control_of_any_files(cpu) ==
  IF cpu = NoCpu
    THEN [frequency |-> FALSE, smt |-> FALSE]
    ELSE [frequency |-> minimum = maximum /\ no_turbo = "1",
          smt |-> /\ host.topology
                  /\ \A c \in host.siblings \ {cpu} : online(c) = "0"]

read_cpu_control(cpu) ==
  IF cpu = NoCpu
    THEN [frequency |-> FALSE, smt |-> FALSE]
    ELSE [frequency |-> /\ minimum # None /\ minimum = maximum
                        /\ no_turbo = "1",
          smt |-> /\ host.topology
                  /\ \A c \in host.siblings \ {cpu} : online(c) = "0"]

\* What the script tries to find out, whatever files there are: the clock is
\* fixed, and nothing runs on the other threads of the core.
ReallyControlled(cpu) ==
  /\ cpu # NoCpu
  /\ host.min = host.max
  /\ ~ host.turbo
  /\ host.siblings \cap host.online \subseteq {cpu}

HostChange == /\ hostChanges < MaxHostChanges
              /\ \E h \in Hosts \ {host} : host' = h
              /\ hostChanges' = hostChanges + 1
              /\ UNCHANGED <<directory, attempts, run>>

-----------------------------------------------------------------------------
\* One invocation.  A step changes some fields of its record.
Idle == [pc |-> "idle", id |-> Absent, sessions |-> 0, cpu |-> NoCpu,
         item |-> 1, artifacts |-> <<>>, checked |-> {}, session |-> 0,
         queue |-> <<>>, records |-> [spec \in Specs |-> <<>>],
         disturbed |-> FALSE,
         control |-> [frequency |-> FALSE, smt |-> FALSE]]

Changed(record, label, fields) ==
  [field \in DOMAIN record |->
     IF field = "pc" THEN label
     ELSE IF field \in DOMAIN fields THEN fields[field] ELSE record[field]]

Goto(p, label, fields) ==
  run' = [run EXCEPT ![p] = Changed(run[p], label, fields)]

At(p, label) == run[p].pc = label
Item(p)      == ModuleNames[run[p].item]
NoFields     == [p \in {} |-> None]

Ended == {"idle", "done", "failed", "rejected"}

\* The process ends without a summary, and forgets what it knew.
End(p, label) == run' = [run EXCEPT ![p] = Changed(Idle, label, NoFields)]

\* A command fails, a file is missing, or the process is killed.
Stop(p) == /\ run[p].pc \notin Ended
           /\ End(p, "failed")
           /\ UNCHANGED <<directory, attempts, host, hostChanges>>

\* The arguments are checked before anything is touched.
Start(p) ==
  /\ run[p].pc \in Ended
  /\ attempts < MaxAttempts
  /\ attempts' = attempts + 1
  /\ \E sessions \in SessionCounts, cpu \in Cpus :
       run' = [run EXCEPT ![p] =
                 Changed(Idle, IF sessions < 2 THEN "rejected" ELSE "look",
                         [id |-> attempts + 1, sessions |-> sessions,
                          cpu |-> cpu])]
  /\ UNCHANGED <<directory, host, hostChanges>>

Empty == /\ \A n \in Modules : /\ source[n].by = Absent
                               /\ evidence[n] = Absent
                               /\ vmfb[n].by = Absent
         /\ summary = Absent

\* The directory is looked at here and written to from the next step on;
\* mkdir itself accepts one that exists.
make_output_dir(p) ==
  /\ At(p, "look")
  /\ IF Empty THEN Goto(p, "copy", NoFields) ELSE End(p, "failed")
  /\ UNCHANGED <<directory, attempts, host, hostChanges>>

\* shutil.copy2 of the audited core, which exports its entry only.
CopyDynamic(p) ==
  /\ At(p, "copy")
  /\ source' = [source EXCEPT !["dynamic"] =
                  [by |-> run[p].id, public |-> {Wrapper}]]
  /\ Goto(p, "transform", [item |-> 2])
  /\ UNCHANGED <<evidence, vmfb, summary, attempts, host, hostChanges>>

\* The pass is run, with expose-static-variants for the observable module.
\* Which clones are public is up to the plugin that was given.
Transform(p) ==
  /\ At(p, "transform")
  /\ \E clones \in SUBSET Clones :
       source' = [source EXCEPT ![Item(p)] =
                    [by |-> run[p].id,
                     public |-> {Wrapper, Generic} \cup clones]]
  /\ Goto(p, "verify", NoFields)
  /\ UNCHANGED <<evidence, vmfb, summary, attempts, host, hostChanges>>

\* mlir-opt and the bridge checker read the file again; neither looks at the
\* visibility of the clones.
Verify(p) ==
  /\ At(p, "verify")
  /\ IF run[p].item < Len(ModuleNames)
       THEN Goto(p, "transform", [item |-> run[p].item + 1])
       ELSE Goto(p, "evidence", [item |-> 1])
  /\ UNCHANGED <<directory, attempts, host, hostChanges>>

\* Mistake: the evidence directory may exist.
MakeEvidenceAnyway(p) ==
  /\ At(p, "evidence")
  /\ Goto(p, "compile", NoFields)
  /\ evidence' = [evidence EXCEPT ![Item(p)] = run[p].id]
  /\ UNCHANGED <<source, vmfb, summary, attempts, host, hostChanges>>

\* mkdir without exist_ok.
MakeEvidence(p) ==
  /\ At(p, "evidence")
  /\ IF evidence[Item(p)] = Absent
       THEN /\ evidence' = [evidence EXCEPT ![Item(p)] = run[p].id]
            /\ Goto(p, "compile", NoFields)
       ELSE End(p, "failed") /\ UNCHANGED evidence
  /\ UNCHANGED <<source, vmfb, summary, attempts, host, hostChanges>>

Compile(p) ==
  /\ At(p, "compile")
  /\ vmfb' = [vmfb EXCEPT ![Item(p)] =
                [by |-> run[p].id, public |-> source[Item(p)].public,
                 text |-> <<Item(p), source[Item(p)]>>]]
  /\ Goto(p, "describe", NoFields)
  /\ UNCHANGED <<source, evidence, summary, attempts, host, hostChanges>>

\* The exports are read from the module, the hash of the source is taken from
\* the file as it is now.
Describe(p) ==
  /\ At(p, "describe")
  /\ LET artifact == [exports |-> vmfb[Item(p)].public,
                      source_sha256 |-> <<Item(p), source[Item(p)]>>]
         last     == run[p].item = Len(ModuleNames)
     IN Goto(p, IF last THEN "exports" ELSE "evidence",
             [artifacts |-> Append(run[p].artifacts, artifact),
              item |-> IF last THEN 1 ELSE run[p].item + 1])
  /\ UNCHANGED <<directory, attempts, host, hostChanges>>

\* Mistake: nothing is asked of the production module's clones.
check_exports_required(p) ==
  /\ At(p, "exports")
  /\ LET required == {Wrapper, Generic}
         ok == /\ required \subseteq run[p].artifacts[2].exports
               /\ required \cup Clones \subseteq run[p].artifacts[3].exports
     IN IF ok THEN Goto(p, "numerics", NoFields) ELSE End(p, "failed")
  /\ UNCHANGED <<directory, attempts, host, hostChanges>>

\* The wrapper and the generic function are public in both modules, the clones
\* in the observable one only.
check_exports(p) ==
  /\ At(p, "exports")
  /\ LET required == {Wrapper, Generic}
         ok == /\ required \subseteq run[p].artifacts[2].exports
               /\ run[p].artifacts[2].exports \cap Clones = {}
               /\ required \cup Clones \subseteq run[p].artifacts[3].exports
     IN IF ok THEN Goto(p, "numerics", NoFields) ELSE End(p, "failed")
  /\ UNCHANGED <<directory, attempts, host, hostChanges>>

\* Otherwise the run of the path fails, and only Stop is possible.
Exported(spec) == spec.function \in vmfb[spec.module].public

\* Mistake: the last path is not checked.
check_numerics_but_last(p) ==
  /\ At(p, "numerics")
  /\ LET spec == specs[run[p].item]
     IN IF run[p].item < Len(specs)
          THEN /\ Exported(spec)
               /\ Goto(p, "numerics",
                       [checked |-> run[p].checked \cup {spec},
                        item |-> run[p].item + 1])
          ELSE Goto(p, "session", NoFields)
  /\ UNCHANGED <<directory, attempts, host, hostChanges>>

\* Every path is run once against the expected output.
check_numerics(p) ==
  /\ At(p, "numerics")
  /\ LET spec == specs[run[p].item]
         seen == run[p].checked \cup {spec}
     IN /\ Exported(spec)
        /\ IF run[p].item < Len(specs)
             THEN Goto(p, "numerics",
                       [checked |-> seen, item |-> run[p].item + 1])
             ELSE Goto(p, "session", [checked |-> seen])
  /\ UNCHANGED <<directory, attempts, host, hostChanges>>

NextSession(p) ==
  /\ At(p, "session")
  /\ IF run[p].session < run[p].sessions
       THEN \E order \in Orders :
              Goto(p, "trials",
                   [session |-> run[p].session + 1, queue |-> order])
       ELSE Goto(p, "memory", NoFields)
  /\ UNCHANGED <<directory, attempts, host, hostChanges>>

\* The session's trials, in the order of its shuffle.
run_trial(p) ==
  /\ At(p, "trials")
  /\ LET spec == specs[Head(run[p].queue)]
         rest == Tail(run[p].queue)
     IN /\ Exported(spec)
        /\ Goto(p, IF rest = <<>> THEN "session" ELSE "trials",
                [queue |-> rest,
                 records |-> [run[p].records EXCEPT ![spec] =
                                Append(@, run[p].session)],
                 disturbed |-> \/ run[p].disturbed
                               \/ ~ ReallyControlled(run[p].cpu)])
  /\ UNCHANGED <<directory, attempts, host, hostChanges>>

\* The memory of every path is probed; the standard deviation of its trials
\* needs two of them.
Measure(p) ==
  /\ At(p, "memory")
  /\ LET ok == \A spec \in Specs : Len(run[p].records[spec]) >= 2
     IN IF ok THEN Goto(p, "effects", NoFields) ELSE End(p, "rejected")
  /\ UNCHANGED <<directory, attempts, host, hostChanges>>

\* effect_record: the trials of two paths are paired by position.
MeasureEffects(p) ==
  /\ At(p, "effects")
  /\ LET trials(e, path) == run[p].records[SpecOf(e.length, path)]
         ok == \A e \in Effects :
                 Len(trials(e, e.reference)) = Len(trials(e, e.candidate))
     IN IF ok THEN Goto(p, "control", NoFields) ELSE End(p, "failed")
  /\ UNCHANGED <<directory, attempts, host, hostChanges>>

ReadControl(p) ==
  /\ At(p, "control")
  /\ Goto(p, "perf", [control |-> read_cpu_control(run[p].cpu)])
  /\ UNCHANGED <<directory, attempts, host, hostChanges>>

\* If perf was asked for and is there, a run of it that fails ends the
\* process, like every command.
collect_perf(p) ==
  /\ At(p, "perf")
  /\ Goto(p, "summary", NoFields)
  /\ UNCHANGED <<directory, attempts, host, hostChanges>>

WriteSummary(p) ==
  /\ At(p, "summary")
  /\ summary' = run[p].id
  /\ Goto(p, "done", NoFields)
  /\ UNCHANGED <<source, evidence, vmfb, attempts, host, hostChanges>>

-----------------------------------------------------------------------------
\* What the claim gate reports of the processor.
controlled(p) == run[p].control.frequency /\ run[p].control.smt

-----------------------------------------------------------------------------
Init ==
  /\ source = [n \in Modules |-> NoText]
  /\ evidence = [n \in Modules |-> Absent]
  /\ vmfb = [n \in Modules |-> [by |-> Absent, public |-> {}, text |-> <<>>]]
  /\ summary = Absent
  /\ attempts = 0
  /\ run = [p \in Processes |-> Idle]
  /\ host \in Hosts
  /\ hostChanges = 0

Next ==
  \/ HostChange
  \/ \E p \in Processes :
       \/ Start(p) \/ Stop(p) \/ make_output_dir(p) \/ CopyDynamic(p)
       \/ Transform(p) \/ Verify(p) \/ MakeEvidence(p) \/ Compile(p)
       \/ Describe(p) \/ check_exports(p) \/ check_numerics(p)
       \/ run_trial(p) \/ NextSession(p) \/ Measure(p) \/ MeasureEffects(p)
       \/ ReadControl(p) \/ collect_perf(p) \/ WriteSummary(p)

Spec == Init /\ [][Next]_vars

-----------------------------------------------------------------------------
Labels == Ended \cup {"look", "copy", "transform", "verify", "evidence",
                      "compile", "describe", "exports", "numerics", "session",
                      "trials", "memory", "effects", "control", "perf", "summary"}

\* A summary is written only about paths that were all checked numerically and
\* timed once in every session, so that the trials an effect pairs are of one
\* session.
SummaryComplete ==
  \A p \in Processes : At(p, "done") =>
    /\ run[p].checked = Specs
    /\ \A spec \in Specs :
         run[p].records[spec] = [i \in 1..run[p].sessions |-> i]

\* In what is measured the clones of the production module are private and
\* those of the diagnostic one public, whatever the plugin did.
VisibilityAsClaimed ==
  \A p \in Processes : run[p].pc \in {"session", "done"} =>
    \A n \in Modules :
      vmfb[n].public \cap Clones =
        IF n = "multiversioned-observable" THEN Clones ELSE {}

\* On a host that stays as it is, a summary that says that the processor was
\* controlled is about trials that ran on a controlled one, whichever files of
\* /sys the host lacks.
ControlledTrials ==
  \A p \in Processes :
    At(p, "done") /\ hostChanges = 0 /\ controlled(p) => ~ run[p].disturbed

\* However many are started in one directory, the modules there, what is
\* measured of them and the summary are of one invocation.
OneMeasures ==
  Cardinality(({vmfb[n].by : n \in Modules} \cup {summary}
               \cup {run[p].id : p \in {q \in Processes : At(q, "trials")}})
              \ {Absent}) <= 1

=============================================================================
