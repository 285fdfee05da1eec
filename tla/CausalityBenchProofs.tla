------------------------ MODULE CausalityBenchProofs ------------------------
(***************************************************************************)
(* For every number of processes, lengths, sessions, hosts and failures:   *)
(* what the summary of the causality benchmark claims is what was          *)
(* measured, of one set of modules.                                        *)
(*                                                                         *)
(* The directory of the first module's evidence, which mkdir creates once, *)
(* is a lock that is never released: the process that has it is the only   *)
(* one that ever compiles in this directory.                               *)
(***************************************************************************)
EXTENDS CausalityBench, SequenceLemmas, FiniteSetTheorems, TLAPS

Fields == {"pc", "id", "sessions", "cpu", "item", "artifacts", "checked",
           "session", "queue", "records", "disturbed", "control"}

\* Where a process is before it checks numbers, and after the last trial.
Early == {"look", "copy", "transform", "verify", "evidence", "compile",
          "describe", "exports"}
Late  == {"memory", "effects", "control", "perf", "summary", "done"}

\* The variable run is a table of records.
IsRun == /\ run = [p \in Processes |-> run[p]]
         /\ \A p \in Processes : DOMAIN run[p] = Fields

-----------------------------------------------------------------------------
(***************************************************************************)
(* What a step does to the record of its process.                          *)
(***************************************************************************)
Moved(p, label, fields) ==
  /\ IsRun'
  /\ \A q \in Processes : q # p => run'[q] = run[q]
  /\ run'[p].pc = label
  /\ \A k \in Fields : k # "pc" => 
       run'[p][k] = IF k \in DOMAIN fields THEN fields[k] ELSE run[p][k]

LEMMA IdleFields == DOMAIN Idle = Fields
BY DEF Idle, Fields

LEMMA GotoMoves ==
  ASSUME IsRun, NEW p \in Processes, NEW label, NEW fields,
         DOMAIN fields \subseteq Fields, "pc" \notin DOMAIN fields,
         Goto(p, label, fields)
  PROVE  Moved(p, label, fields)
<1> DEFINE new == Changed(run[p], label, fields)
<1>1. run' = [run EXCEPT ![p] = new]
  BY DEF Goto
<1>2. /\ DOMAIN new = Fields /\ new.pc = label
      /\ \A k \in Fields : k # "pc" =>
           new[k] = IF k \in DOMAIN fields THEN fields[k] ELSE run[p][k]
  BY DEF IsRun, Fields, Changed
<1> HIDE DEF new
<1> QED BY <1>1, <1>2 DEF Moved, IsRun

\* What End and Start leave of a record.
Reset(p, label, fields) ==
  /\ IsRun'
  /\ \A q \in Processes : q # p => run'[q] = run[q]
  /\ run'[p].pc = label
  /\ \A k \in Fields : k # "pc" => 
       run'[p][k] = IF k \in DOMAIN fields THEN fields[k] ELSE Idle[k]

LEMMA EndResets ==
  ASSUME IsRun, NEW p \in Processes, NEW label, End(p, label)
  PROVE  Reset(p, label, NoFields)
<1> DEFINE new == Changed(Idle, label, NoFields)
<1>1. run' = [run EXCEPT ![p] = new]
  BY DEF End
<1>2. DOMAIN NoFields = {}
  BY DEF NoFields
<1>3. /\ DOMAIN new = Fields /\ new.pc = label
      /\ \A k \in Fields : k # "pc" => new[k] = Idle[k]
  BY <1>2, IdleFields DEF Fields, Changed
<1> HIDE DEF new
<1> QED BY <1>1, <1>2, <1>3 DEF Reset, IsRun

-----------------------------------------------------------------------------
(***************************************************************************)
(* The paths: each is named once.                                          *)
(***************************************************************************)
L == Len(TARGET_LENGTHS)

LEMMA TargetPaths ==
  ASSUME NEW l, NEW m, NEW j \in 1..6, NEW k \in 1..6
  PROVE  /\ TargetSpecs(l)[j].length = l
         /\ TargetSpecs(l)[j].path = TargetSpecs(m)[k].path => j = k
         /\ TargetSpecs(l)[j].path \notin
              {"generic-fallback-control", "dispatched-fallback"}
<1>1. \A x, i \in 1..6 : TRUE
  OBVIOUS
<1> DEFINE Path(i) == TargetSpecs(l)[i].path
<1>2. \A n : /\ TargetSpecs(n)[1].path = "dynamic"
             /\ TargetSpecs(n)[2].path = "production-generic"
             /\ TargetSpecs(n)[3].path = "production-dispatched"
             /\ TargetSpecs(n)[4].path = "observable-generic"
             /\ TargetSpecs(n)[5].path = "direct-static-diagnostic"
             /\ TargetSpecs(n)[6].path = "observable-dispatched"
  BY DEF TargetSpecs, PathSpec
<1>3. \A i \in 1..6 : TargetSpecs(l)[i].length = l
  BY DEF TargetSpecs, PathSpec
<1>4. \A i \in 1..6 : i \in {1, 2, 3, 4, 5, 6}
  OBVIOUS
<1> QED BY <1>2, <1>3, <1>4

LEMMA SpecsAt ==
  /\ L \in Nat /\ DOMAIN specs = 1..6 * L + 2
  /\ \A i \in 1..6 * L :
       specs[i] = TargetSpecs(TARGET_LENGTHS[((i - 1) \div 6) + 1])[((i - 1) % 6) + 1]
  /\ specs[6 * L + 1].path = "generic-fallback-control"
  /\ specs[6 * L + 2].path = "dispatched-fallback"
<1> DEFINE Target(i) ==
             TargetSpecs(TARGET_LENGTHS[((i - 1) \div 6) + 1])[((i - 1) % 6) + 1]
           s == [i \in 1..6 * L |-> Target(i)]
           u == PathSpec(FALLBACK_LENGTH, "generic-fallback-control",
                         "multiversioned-production", Generic)
           v == PathSpec(FALLBACK_LENGTH, "dispatched-fallback",
                         "multiversioned-production", Wrapper)
<1>1. L \in Nat
  BY LengthsAssumption DEF L
<1>2. 6 * L \in Nat
  BY <1>1
<1>3. specs = s \o <<u, v>>
  BY DEF specs, L
<1>4. u.path = "generic-fallback-control" /\ v.path = "dispatched-fallback"
  BY DEF PathSpec
<1>5. \A i \in 1..6 * L : s[i] = Target(i)
  OBVIOUS
<1> HIDE DEF Target, u, v
<1>6. IsSeq(s) /\ Len(s) = 6 * L
  BY <1>2, FunctionIsSeq
<1>7. IsSeq(<<u, v>>)
  BY PairIsSeq
<1>8. Len(<<u, v>>) = 2 /\ <<u, v>>[1] = u /\ <<u, v>>[2] = v
  BY PairIsSeq
<1> DEFINE t == <<u, v>>
<1> HIDE DEF s, t
<1>a. IsSeq(t) /\ Len(t) = 2 /\ specs = s \o t
  BY <1>3, <1>7, <1>8 DEF t
<1>b. /\ IsSeq(s \o t)
      /\ Len(s \o t) = Len(s) + Len(t)
      /\ \A i \in 1..Len(s) : (s \o t)[i] = s[i]
      /\ \A i \in Len(s) + 1..Len(s) + Len(t) : (s \o t)[i] = t[i - Len(s)]
  BY <1>6, <1>a, ConcatIsSeq
<1>c. \A i \in 6 * L + 1..6 * L + 2 : specs[i] = t[i - 6 * L]
  BY <1>6, <1>a, <1>b
<1>9. /\ IsSeq(specs) /\ Len(specs) = 6 * L + 2
      /\ \A i \in 1..6 * L : specs[i] = s[i]
      /\ \A i \in 6 * L + 1..6 * L + 2 : specs[i] = <<u, v>>[i - 6 * L]
  BY <1>2, <1>6, <1>a, <1>b, <1>c DEF t
<1>10. DOMAIN specs = 1..6 * L + 2
  BY <1>2, <1>9 DEF IsSeq
<1>11. specs[6 * L + 1] = u /\ specs[6 * L + 2] = v
  BY <1>2, <1>8, <1>9
<1>12. \A i \in 1..6 * L : specs[i] = Target(i)
  BY <1>5, <1>9
<1> QED BY <1>1, <1>4, <1>10, <1>11, <1>12 DEF Target

LEMMA SpecsInjective ==
  ASSUME NEW i \in DOMAIN specs, NEW j \in DOMAIN specs, specs[i] = specs[j]
  PROVE  i = j
<1>1. L \in Nat /\ i \in 1..6 * L + 2 /\ j \in 1..6 * L + 2
  BY SpecsAt
<1> DEFINE Length(k) == ((k - 1) \div 6) + 1
           Place(k)  == ((k - 1) % 6) + 1
<1>2. ASSUME NEW k \in 1..6 * L
      PROVE  Length(k) \in 1..L /\ Place(k) \in 1..6 /\ k = 6 * Length(k) + Place(k) - 6
  BY <1>1, <1>2
<1>3. \A k \in 1..6 * L : specs[k] = TargetSpecs(TARGET_LENGTHS[Length(k)])[Place(k)]
  BY SpecsAt
<1> HIDE DEF Length, Place
<1>4. CASE i \in 1..6 * L /\ j \in 1..6 * L
  <2>1. /\ Length(i) \in 1..L /\ Place(i) \in 1..6
        /\ Length(j) \in 1..L /\ Place(j) \in 1..6
    BY <1>2, <1>4
  <2>2. TargetSpecs(TARGET_LENGTHS[Length(i)])[Place(i)] =
          TargetSpecs(TARGET_LENGTHS[Length(j)])[Place(j)]
    BY <1>3, <1>4
  <2>3. Place(i) = Place(j)
    BY <2>1, <2>2, TargetPaths
  <2>4. TARGET_LENGTHS[Length(i)] = TARGET_LENGTHS[Length(j)]
    BY <2>1, <2>2, TargetPaths
  <2>5. Length(i) = Length(j)
    <3>1. DOMAIN TARGET_LENGTHS = 1..L
      BY LengthsAssumption DEF L
    <3> QED BY <2>1, <2>4, <3>1, LengthsAssumption DEF SE!IsInjective
  <2> QED BY <1>2, <1>4, <2>3, <2>5
<1>5. \A k \in 1..6 * L :
        specs[k].path \notin {"generic-fallback-control", "dispatched-fallback"}
  BY <1>2, <1>3, TargetPaths
<1>6. \A k \in 1..6 * L + 2 : k \in 1..6 * L \/ k = 6 * L + 1 \/ k = 6 * L + 2
  BY <1>1
<1> QED BY <1>1, <1>4, <1>5, <1>6, SpecsAt

-----------------------------------------------------------------------------
(***************************************************************************)
(* The inductive invariant.                                                *)
(***************************************************************************)
Upto(n) == [i \in 1..n |-> i]

\* Every path has been timed in the sessions 1..n.
Timed(r, n) == \A i \in DOMAIN specs : r.records[specs[i]] = Upto(n)

\* What a process has checked and timed when it is at its label.
Progress(r) ==
  /\ r.pc \in Labels
  /\ r.sessions \in Nat
  /\ DOMAIN r.records = Specs
  /\ r.pc \in Early => r.checked = {} /\ r.session = 0 /\ Timed(r, 0)
  /\ r.pc = "exports" => r.item = 1
  /\ r.pc = "numerics" =>
       /\ r.item \in DOMAIN specs
       /\ r.checked = {specs[i] : i \in 1..r.item - 1}
       /\ r.session = 0 /\ Timed(r, 0)
  /\ r.pc \in {"session", "trials"} \cup Late => r.checked = Specs
  /\ r.pc = "session" => r.session \in 0..r.sessions /\ Timed(r, r.session)
  /\ r.pc = "trials" =>
       /\ r.session \in 1..r.sessions
       /\ IsSeq(r.queue) /\ Len(r.queue) # 0
       /\ \A i \in 1..Len(r.queue) : r.queue[i] \in DOMAIN specs
       /\ \A i, j \in 1..Len(r.queue) : r.queue[i] = r.queue[j] => i = j
       /\ \A i \in DOMAIN specs :
            r.records[specs[i]] =
              Upto(IF \E j \in 1..Len(r.queue) : r.queue[j] = i
                     THEN r.session - 1 ELSE r.session)
  /\ r.pc \in Late => Timed(r, r.sessions)

ProgressInv == \A p \in Processes : Progress(run[p])

\* From the first evidence directory on a process has the lock.
Owner == evidence["dynamic"]

Locked(r) == \/ r.pc \in {"compile", "describe", "exports", "numerics",
                          "session", "trials"} \cup Late
             \/ r.pc = "evidence" /\ r.item # 1

Modest(r) ==
  /\ r.id \in 0..attempts
  /\ r.pc \notin {"idle", "failed", "rejected"} => r.id # Absent
  /\ r.pc \in {"transform", "verify"} => r.item \in 2..3
  /\ r.pc \in {"evidence", "compile", "describe"} => r.item \in 1..3

LockInv ==
  /\ attempts \in Nat
  /\ evidence = [n \in Modules |-> evidence[n]]
  /\ vmfb = [n \in Modules |-> vmfb[n]]
  /\ \A p \in Processes : Modest(run[p])
  /\ \A p, q \in Processes : run[p].id = run[q].id /\ run[p].id # Absent => p = q
  /\ \A p \in Processes : Locked(run[p]) => run[p].id = Owner
  /\ \A n \in Modules : vmfb[n].by \in {Absent, Owner}
  /\ summary \in {Absent, Owner}

\* The exports a process has read are those of the modules that are there.
Visible ==
  /\ vmfb["multiversioned-production"].public \cap Clones = {}
  /\ Clones \subseteq vmfb["multiversioned-observable"].public

Described(r, n) ==
  /\ IsSeq(r.artifacts) /\ Len(r.artifacts) = n
  /\ \A i \in 1..n : r.artifacts[i].exports = vmfb[ModuleNames[i]].public

Exports(r) ==
  /\ r.pc \in {"look", "copy", "transform", "verify"} => Described(r, 0)
  /\ r.pc \in {"evidence", "compile", "describe"} => Described(r, r.item - 1)
  /\ r.pc = "exports" => Described(r, 3)
  /\ r.pc \in {"numerics", "session", "trials"} \cup Late => Visible

ExportsInv ==
  /\ source = [n \in Modules |-> source[n]]
  /\ source["dynamic"].public \subseteq {Wrapper}
  /\ vmfb["dynamic"].public \subseteq {Wrapper}
  /\ \A p \in Processes : Exports(run[p])

\* On a host that has not changed, a disturbed trial is one on a processor that
\* is not controlled.
Control(r) ==
  /\ r.disturbed => ~ ReallyControlled(r.cpu)
  /\ r.pc \in {"perf", "summary", "done"} /\ r.control.frequency /\ r.control.smt =>
       ReallyControlled(r.cpu)

ControlInv ==
  /\ hostChanges \in Nat
  /\ hostChanges = 0 => \A p \in Processes : Control(run[p])

IInv == IsRun /\ ProgressInv /\ LockInv /\ ExportsInv /\ ControlInv

-----------------------------------------------------------------------------
(***************************************************************************)
(* The steps, as what they do to the record of their process.              *)
(***************************************************************************)
Fails(p) == Reset(p, "failed", NoFields)

LEMMA StepRecords ==
  ASSUME IsRun, NEW p \in Processes
  PROVE
  /\ Stop(p) => Fails(p)
  /\ Start(p) =>
       \E sessions \in SessionCounts, cpu \in Cpus :
         Reset(p, IF sessions < 2 THEN "rejected" ELSE "look",
               [id |-> attempts + 1, sessions |-> sessions, cpu |-> cpu])
  /\ make_output_dir(p) => Moved(p, "copy", NoFields) \/ Fails(p)
  /\ CopyDynamic(p) => Moved(p, "transform", [item |-> 2])
  /\ Transform(p) => Moved(p, "verify", NoFields)
  /\ Verify(p) => IF run[p].item < 3
                    THEN Moved(p, "transform", [item |-> run[p].item + 1])
                    ELSE Moved(p, "evidence", [item |-> 1])
  /\ MakeEvidence(p) => Moved(p, "compile", NoFields) \/ Fails(p)
  /\ Compile(p) => Moved(p, "describe", NoFields)
  /\ Describe(p) =>
       \E artifact :
         /\ artifact.exports = vmfb[Item(p)].public
         /\ Moved(p, IF run[p].item = 3 THEN "exports" ELSE "evidence",
                  [artifacts |-> Append(run[p].artifacts, artifact),
                   item |-> IF run[p].item = 3 THEN 1 ELSE run[p].item + 1])
  /\ check_exports(p) => Moved(p, "numerics", NoFields) \/ Fails(p)
  /\ check_numerics(p) =>
       IF run[p].item < Len(specs)
         THEN Moved(p, "numerics",
                    [checked |-> run[p].checked \cup {specs[run[p].item]},
                     item |-> run[p].item + 1])
         ELSE Moved(p, "session",
                    [checked |-> run[p].checked \cup {specs[run[p].item]}])
  /\ NextSession(p) =>
       IF run[p].session < run[p].sessions
         THEN \E order \in Orders :
                Moved(p, "trials",
                      [session |-> run[p].session + 1, queue |-> order])
         ELSE Moved(p, "memory", NoFields)
  /\ run_trial(p) =>
       LET spec == specs[Head(run[p].queue)]
           rest == Tail(run[p].queue)
       IN Moved(p, IF rest = <<>> THEN "session" ELSE "trials",
                [queue |-> rest,
                 records |-> [run[p].records EXCEPT ![spec] =
                                Append(@, run[p].session)],
                 disturbed |-> \/ run[p].disturbed
                               \/ ~ ReallyControlled(run[p].cpu)])
  /\ Measure(p) => Moved(p, "effects", NoFields) \/ Reset(p, "rejected", NoFields)
  /\ MeasureEffects(p) => Moved(p, "control", NoFields) \/ Fails(p)
  /\ ReadControl(p) =>
       Moved(p, "perf", [control |-> read_cpu_control(run[p].cpu)])
  /\ collect_perf(p) => Moved(p, "summary", NoFields)
  /\ WriteSummary(p) => Moved(p, "done", NoFields)
<1>1. \A label, fields :
        /\ DOMAIN fields \subseteq Fields /\ "pc" \notin DOMAIN fields
        /\ Goto(p, label, fields)
        => Moved(p, label, fields)
  BY GotoMoves
<1>2. \A label : Goto(p, label, NoFields) => Moved(p, label, NoFields)
  BY <1>1 DEF NoFields
<1>3. \A label : End(p, label) => Reset(p, label, NoFields)
  BY EndResets
<1>4. Len(ModuleNames) = 3
  BY DEF ModuleNames
<1>5. \A label, x : Goto(p, label, [item |-> x]) => Moved(p, label, [item |-> x])
  BY <1>1 DEF Fields
<1>6. Stop(p) => Fails(p)
  BY <1>3 DEF Stop, Fails
<1>7. ASSUME Start(p)
      PROVE  \E sessions \in SessionCounts, cpu \in Cpus :
               Reset(p, IF sessions < 2 THEN "rejected" ELSE "look",
                     [id |-> attempts + 1, sessions |-> sessions, cpu |-> cpu])
  <2>1. PICK sessions \in SessionCounts, cpu \in Cpus :
          run' = [run EXCEPT ![p] =
                    Changed(Idle, IF sessions < 2 THEN "rejected" ELSE "look",
                            [id |-> attempts + 1, sessions |-> sessions,
                             cpu |-> cpu])]
    BY <1>7 DEF Start
  <2> DEFINE label == IF sessions < 2 THEN "rejected" ELSE "look"
             fields == [id |-> attempts + 1, sessions |-> sessions, cpu |-> cpu]
             new == Changed(Idle, label, fields)
  <2>2. DOMAIN fields \subseteq Fields /\ "pc" \notin DOMAIN fields
    BY DEF Fields
  <2>3. run' = [run EXCEPT ![p] = new]
    BY <2>1
  <2> HIDE DEF label, fields
  <2>4. /\ DOMAIN new = Fields /\ new.pc = label
        /\ \A k \in Fields : k # "pc" =>
             new[k] = IF k \in DOMAIN fields THEN fields[k] ELSE Idle[k]
    BY <2>2, IdleFields DEF Fields, Changed
  <2> HIDE DEF new
  <2>5. Reset(p, label, fields)
    BY <2>3, <2>4 DEF Reset, IsRun
  <2> QED BY <2>5 DEF label, fields
<1>8. make_output_dir(p) => Moved(p, "copy", NoFields) \/ Fails(p)
  BY <1>2, <1>3 DEF make_output_dir, Fails
<1>9. CopyDynamic(p) => Moved(p, "transform", [item |-> 2])
  BY <1>5 DEF CopyDynamic
<1>10. Transform(p) => Moved(p, "verify", NoFields)
  BY <1>2 DEF Transform
<1>11. Verify(p) => IF run[p].item < 3
                      THEN Moved(p, "transform", [item |-> run[p].item + 1])
                      ELSE Moved(p, "evidence", [item |-> 1])
  BY <1>4, <1>5 DEF Verify
<1>12. MakeEvidence(p) => Moved(p, "compile", NoFields) \/ Fails(p)
  BY <1>2, <1>3 DEF MakeEvidence, Fails
<1>13. Compile(p) => Moved(p, "describe", NoFields)
  BY <1>2 DEF Compile
<1>14. ASSUME Describe(p)
       PROVE  \E artifact :
                /\ artifact.exports = vmfb[Item(p)].public
                /\ Moved(p, IF run[p].item = 3 THEN "exports" ELSE "evidence",
                         [artifacts |-> Append(run[p].artifacts, artifact),
                          item |-> IF run[p].item = 3 THEN 1 ELSE run[p].item + 1])
  <2> DEFINE artifact == [exports |-> vmfb[Item(p)].public,
                          source_sha256 |-> <<Item(p), source[Item(p)]>>]
             label == IF run[p].item = 3 THEN "exports" ELSE "evidence"
             fields == [artifacts |-> Append(run[p].artifacts, artifact),
                        item |-> IF run[p].item = 3 THEN 1 ELSE run[p].item + 1]
  <2>1. Goto(p, label, fields)
    BY <1>4, <1>14 DEF Describe
  <2>2. DOMAIN fields \subseteq Fields /\ "pc" \notin DOMAIN fields
    BY DEF Fields
  <2>3. artifact.exports = vmfb[Item(p)].public
    OBVIOUS
  <2>4. Moved(p, label, fields)
    <3> HIDE DEF label, fields
    <3> QED BY <1>1, <2>1, <2>2
  <2> HIDE DEF artifact
  <2> QED BY <2>3, <2>4
<1>15. check_exports(p) => Moved(p, "numerics", NoFields) \/ Fails(p)
  BY <1>2, <1>3 DEF check_exports, Fails
<1>16. check_numerics(p) =>
         IF run[p].item < Len(specs)
           THEN Moved(p, "numerics",
                      [checked |-> run[p].checked \cup {specs[run[p].item]},
                       item |-> run[p].item + 1])
           ELSE Moved(p, "session",
                      [checked |-> run[p].checked \cup {specs[run[p].item]}])
  <2>1. \A x, y : Goto(p, "numerics", [checked |-> x, item |-> y])
                    => Moved(p, "numerics", [checked |-> x, item |-> y])
    BY <1>1 DEF Fields
  <2>2. \A x : Goto(p, "session", [checked |-> x])
                 => Moved(p, "session", [checked |-> x])
    BY <1>1 DEF Fields
  <2> QED BY <2>1, <2>2 DEF check_numerics
<1>17. NextSession(p) =>
         IF run[p].session < run[p].sessions
           THEN \E order \in Orders :
                  Moved(p, "trials",
                        [session |-> run[p].session + 1, queue |-> order])
           ELSE Moved(p, "memory", NoFields)
  <2>1. \A x, y : Goto(p, "trials", [session |-> x, queue |-> y])
                    => Moved(p, "trials", [session |-> x, queue |-> y])
    BY <1>1 DEF Fields
  <2> QED BY <1>2, <2>1 DEF NextSession
<1>18. run_trial(p) =>
         LET spec == specs[Head(run[p].queue)]
             rest == Tail(run[p].queue)
         IN Moved(p, IF rest = <<>> THEN "session" ELSE "trials",
                  [queue |-> rest,
                   records |-> [run[p].records EXCEPT ![spec] =
                                  Append(@, run[p].session)],
                   disturbed |-> \/ run[p].disturbed
                                 \/ ~ ReallyControlled(run[p].cpu)])
  <2>1. \A l, x, y, z :
          Goto(p, l, [queue |-> x, records |-> y, disturbed |-> z])
            => Moved(p, l, [queue |-> x, records |-> y, disturbed |-> z])
    BY <1>1 DEF Fields
  <2> QED BY <2>1, Zenon DEF run_trial
<1>19. Measure(p) => Moved(p, "effects", NoFields) \/ Reset(p, "rejected", NoFields)
  BY <1>2, <1>3 DEF Measure
<1>20. MeasureEffects(p) => Moved(p, "control", NoFields) \/ Fails(p)
  BY <1>2, <1>3 DEF MeasureEffects, Fails
<1>21. ReadControl(p) =>
         Moved(p, "perf", [control |-> read_cpu_control(run[p].cpu)])
  <2>1. \A x : Goto(p, "perf", [control |-> x])
                 => Moved(p, "perf", [control |-> x])
    BY <1>1 DEF Fields
  <2> QED BY <2>1 DEF ReadControl
<1>22. collect_perf(p) => Moved(p, "summary", NoFields)
  BY <1>2 DEF collect_perf
<1>23. WriteSummary(p) => Moved(p, "done", NoFields)
  BY <1>2 DEF WriteSummary
<1> QED BY <1>6, <1>7, <1>8, <1>9, <1>10, <1>11, <1>12, <1>13, <1>14, <1>15,
           <1>16, <1>17, <1>18, <1>19, <1>20, <1>21, <1>22, <1>23

-----------------------------------------------------------------------------
(***************************************************************************)
(* Progress.                                                               *)
(***************************************************************************)
\* r and s differ in nothing that Progress looks at but label and item.
Alike(r, s) == /\ s.sessions = r.sessions /\ s.records = r.records
               /\ s.checked = r.checked /\ s.session = r.session

LEMMA EarlyProgress ==
  ASSUME NEW r, NEW s, Progress(r), Alike(r, s), r.pc \in Early,
         s.pc \in Early, s.pc = "exports" => s.item = 1
  PROVE  Progress(s)
BY DEF Progress, Alike, Early, Late, Labels, Ended, Timed

LEMMA LateProgress ==
  ASSUME NEW r, NEW s, Progress(r), Alike(r, s), r.pc \in Late, s.pc \in Late
  PROVE  Progress(s)
BY DEF Progress, Alike, Early, Late, Labels, Ended, Timed

LEMMA ResetProgress ==
  ASSUME NEW p \in Processes, NEW label, NEW fields,
         label \in {"failed", "rejected", "look"},
         Reset(p, label, fields), DOMAIN fields \subseteq {"id", "sessions", "cpu"},
         "sessions" \in DOMAIN fields => fields["sessions"] \in Nat
  PROVE  Progress(run'[p])
<1>1. /\ run'[p].pc = label /\ run'[p].records = Idle.records
      /\ run'[p].checked = {} /\ run'[p].session = 0
      /\ run'[p].sessions \in Nat
  BY DEF Reset, Fields, Idle
<1>2. /\ DOMAIN Idle.records = Specs
      /\ \A i \in DOMAIN specs : Idle.records[specs[i]] = <<>>
  BY DEF Idle, Specs, SE!ToSet
<1>3. Upto(0) = <<>>
  BY DEF Upto
<1> QED BY <1>1, <1>2, <1>3 DEF Progress, Early, Late, Labels, Ended, Timed

LEMMA OneProgress ==
  ASSUME ProgressInv, NEW p \in Processes,
         \A q \in Processes : q # p => run'[q] = run[q], Progress(run'[p])
  PROVE  ProgressInv'
BY DEF ProgressInv

LEMMA MovedAlike ==
  ASSUME NEW p \in Processes, NEW label, NEW fields, Moved(p, label, fields),
         DOMAIN fields \cap {"sessions", "records", "checked", "session"} = {}
  PROVE  Alike(run[p], run'[p]) /\ run'[p].pc = label
BY DEF Moved, Alike, Fields

\* The steps before the numbers are checked.
LEMMA EarlySteps ==
  ASSUME IsRun, ProgressInv, NEW p \in Processes,
         \/ make_output_dir(p) \/ CopyDynamic(p) \/ Transform(p) \/ Verify(p)
         \/ MakeEvidence(p) \/ Compile(p) \/ Describe(p)
  PROVE  \/ Fails(p)
         \/ /\ IsRun' /\ \A q \in Processes : q # p => run'[q] = run[q]
            /\ Progress(run'[p])
<1> USE DEF Early
<1>1. Progress(run[p])
  BY DEF ProgressInv
<1>2. ASSUME NEW label, NEW fields, Moved(p, label, fields),
             DOMAIN fields \cap {"sessions", "records", "checked", "session"} = {},
             run[p].pc \in Early, label \in Early,
             label = "exports" => run'[p].item = 1
      PROVE  /\ IsRun' /\ \A q \in Processes : q # p => run'[q] = run[q]
             /\ Progress(run'[p])
  BY <1>1, <1>2, MovedAlike, EarlyProgress DEF Moved
<1>3. CASE make_output_dir(p)
  <2>1. run[p].pc = "look" /\ (Fails(p) \/ Moved(p, "copy", NoFields))
    BY <1>3, StepRecords DEF make_output_dir, At
  <2> QED BY <1>2, <2>1 DEF NoFields
<1>4. CASE CopyDynamic(p)
  <2>1. run[p].pc = "copy" /\ Moved(p, "transform", [item |-> 2])
    BY <1>4, StepRecords DEF CopyDynamic, At
  <2> QED BY <1>2, <2>1
<1>5. CASE Transform(p)
  <2>1. run[p].pc = "transform" /\ Moved(p, "verify", NoFields)
    BY <1>5, StepRecords DEF Transform, At
  <2> QED BY <1>2, <2>1 DEF NoFields
<1>6. CASE Verify(p)
  <2>1. /\ run[p].pc = "verify"
        /\ \/ Moved(p, "transform", [item |-> run[p].item + 1])
           \/ Moved(p, "evidence", [item |-> 1])
    BY <1>6, StepRecords DEF Verify, At
  <2> QED BY <1>2, <2>1
<1>7. CASE MakeEvidence(p)
  <2>1. run[p].pc = "evidence" /\ (Fails(p) \/ Moved(p, "compile", NoFields))
    BY <1>7, StepRecords DEF MakeEvidence, At
  <2> QED BY <1>2, <2>1 DEF NoFields
<1>8. CASE Compile(p)
  <2>1. run[p].pc = "compile" /\ Moved(p, "describe", NoFields)
    BY <1>8, StepRecords DEF Compile, At
  <2> QED BY <1>2, <2>1 DEF NoFields
<1>9. CASE Describe(p)
  <2>1. run[p].pc = "describe"
    BY <1>9 DEF Describe, At
  <2>2. PICK artifact :
          Moved(p, IF run[p].item = 3 THEN "exports" ELSE "evidence",
                [artifacts |-> Append(run[p].artifacts, artifact),
                 item |-> IF run[p].item = 3 THEN 1 ELSE run[p].item + 1])
    BY <1>9, StepRecords
  <2> DEFINE label == IF run[p].item = 3 THEN "exports" ELSE "evidence"
             fields == [artifacts |-> Append(run[p].artifacts, artifact),
                        item |-> IF run[p].item = 3 THEN 1 ELSE run[p].item + 1]
  <2>3. Moved(p, label, fields)
    BY <2>2
  <2>4. run'[p].item = fields.item
    BY <2>3 DEF Moved, Fields
  <2>5. label \in Early /\ (label = "exports" => run'[p].item = 1)
    BY <2>4
  <2>6. DOMAIN fields \cap {"sessions", "records", "checked", "session"} = {}
    OBVIOUS
  <2> HIDE DEF label, fields
  <2> QED BY <1>2, <2>1, <2>3, <2>5, <2>6
<1> QED BY <1>3, <1>4, <1>5, <1>6, <1>7, <1>8, <1>9
LEMMA SpecsIsSeq == Len(specs) = 6 * L + 2
<1> DEFINE s == [i \in 1..6 * L |->
                   TargetSpecs(TARGET_LENGTHS[((i - 1) \div 6) + 1])[((i - 1) % 6) + 1]]
<1>1. L \in Nat /\ 6 * L \in Nat
  BY LengthsAssumption DEF L
<1>2. IsSeq(s) /\ Len(s) = 6 * L
  BY <1>1, FunctionIsSeq
<1> HIDE DEF s
<1>3. \A u, v : IsSeq(<<u, v>>) /\ Len(<<u, v>>) = 2
  BY PairIsSeq
<1>4. \A u, v : Len(s \o <<u, v>>) = Len(s) + Len(<<u, v>>)
  BY <1>2, <1>3, ConcatIsSeq
<1>5. \E u, v : specs = s \o <<u, v>>
  BY DEF specs, L, s
<1> QED BY <1>2, <1>3, <1>4, <1>5

LEMMA AppendUpto ==
  ASSUME NEW n \in Nat \ {0} PROVE Append(Upto(n - 1), n) = Upto(n)
<1>1. IsSeq(Upto(n - 1)) /\ Len(Upto(n - 1)) = n - 1
  BY FunctionIsSeq DEF Upto
<1>2. IsSeq(Upto(n)) /\ Len(Upto(n)) = n
  BY FunctionIsSeq DEF Upto
<1>3. /\ IsSeq(Append(Upto(n - 1), n)) /\ Len(Append(Upto(n - 1), n)) = n
      /\ \A i \in 1..n - 1 : Append(Upto(n - 1), n)[i] = Upto(n - 1)[i]
      /\ Append(Upto(n - 1), n)[n] = n
  BY <1>1, AppendIsSeq
<1>4. \A i \in 1..n : Append(Upto(n - 1), n)[i] = Upto(n)[i]
  BY <1>3 DEF Upto
<1> QED BY <1>2, <1>3, <1>4, EqualSeqs


\* The numbers of one path are checked after those of another.
LEMMA NumericsSteps ==
  ASSUME IsRun, ProgressInv, NEW p \in Processes,
         check_exports(p) \/ check_numerics(p)
  PROVE  \/ Fails(p)
         \/ /\ IsRun' /\ \A q \in Processes : q # p => run'[q] = run[q]
            /\ Progress(run'[p])
<1>1. Progress(run[p])
  BY DEF ProgressInv
<1>2. L \in Nat /\ DOMAIN specs = 1..6 * L + 2 /\ Len(specs) = 6 * L + 2
  BY SpecsAt, SpecsIsSeq
<1>3. Specs = {specs[i] : i \in DOMAIN specs}
  BY DEF Specs, SE!ToSet
<1>4. CASE check_exports(p)
  <2>1. run[p].pc = "exports" /\ (Fails(p) \/ Moved(p, "numerics", NoFields))
    BY <1>4, StepRecords DEF check_exports, At
  <2>2. SUFFICES ASSUME Moved(p, "numerics", NoFields) PROVE Progress(run'[p])
    BY <2>1 DEF Moved
  <2>3. Alike(run[p], run'[p]) /\ run'[p].pc = "numerics"
    BY <2>2, MovedAlike DEF NoFields
  <2>4. run'[p].item = 1
    BY <1>1, <2>1, <2>2 DEF Moved, Fields, NoFields, Progress
  <2>5. {specs[i] : i \in 1..1 - 1} = {}
    OBVIOUS
  <2> QED BY <1>1, <1>2, <2>1, <2>3, <2>4, <2>5
          DEF Progress, Alike, Early, Late, Labels, Ended, Timed
<1>5. CASE check_numerics(p)
  <2> DEFINE seen == run[p].checked \cup {specs[run[p].item]}
  <2>1. run[p].pc = "numerics"
    BY <1>5 DEF check_numerics, At
  <2>2. /\ run[p].item \in DOMAIN specs
        /\ seen = {specs[i] : i \in 1..run[p].item}
        /\ run[p].session = 0 /\ Timed(run[p], 0) /\ run[p].sessions \in Nat
        /\ DOMAIN run[p].records = Specs
    <3>1. /\ run[p].item \in DOMAIN specs
          /\ run[p].checked = {specs[i] : i \in 1..run[p].item - 1}
          /\ run[p].session = 0 /\ Timed(run[p], 0) /\ run[p].sessions \in Nat
          /\ DOMAIN run[p].records = Specs
      BY <1>1, <2>1 DEF Progress
    <3>2. 1..run[p].item = (1..run[p].item - 1) \cup {run[p].item}
      BY <1>2, <3>1
    <3> QED BY <3>1, <3>2
  <2> HIDE DEF seen
  <2>3. CASE run[p].item < Len(specs)
    <3>1. Moved(p, "numerics", [checked |-> seen, item |-> run[p].item + 1])
      BY <1>5, <2>3, StepRecords DEF seen
    <3>2. /\ run'[p].pc = "numerics" /\ run'[p].checked = seen
          /\ run'[p].item = run[p].item + 1
          /\ run'[p].session = run[p].session
          /\ run'[p].sessions = run[p].sessions
          /\ run'[p].records = run[p].records
      BY <3>1 DEF Moved, Fields
    <3>3. run'[p].item \in DOMAIN specs /\ run'[p].item - 1 = run[p].item
      BY <1>2, <2>2, <2>3, <3>2
    <3>4. Progress(run'[p])
      BY <2>2, <3>2, <3>3 DEF Progress, Early, Late, Labels, Ended, Timed
    <3> QED BY <3>1, <3>4 DEF Moved
  <2>4. CASE ~ run[p].item < Len(specs)
    <3>1. Moved(p, "session", [checked |-> seen])
      BY <1>5, <2>4, StepRecords DEF seen
    <3>2. /\ run'[p].pc = "session" /\ run'[p].checked = seen
          /\ run'[p].session = run[p].session
          /\ run'[p].sessions = run[p].sessions
          /\ run'[p].records = run[p].records
      BY <3>1 DEF Moved, Fields
    <3>3. seen = Specs
      BY <1>2, <1>3, <2>2, <2>4
    <3>4. Progress(run'[p])
      BY <2>2, <3>2, <3>3 DEF Progress, Early, Late, Labels, Ended, Timed
    <3> QED BY <3>1, <3>4 DEF Moved
  <2> QED BY <2>3, <2>4
<1> QED BY <1>4, <1>5

\* A session begins with every path in its queue.
LEMMA SessionSteps ==
  ASSUME IsRun, ProgressInv, NEW p \in Processes, NextSession(p)
  PROVE  /\ IsRun' /\ \A q \in Processes : q # p => run'[q] = run[q]
         /\ Progress(run'[p])
<1>1. /\ run[p].pc = "session" /\ run[p].checked = Specs
      /\ run[p].sessions \in Nat /\ run[p].session \in 0..run[p].sessions
      /\ Timed(run[p], run[p].session) /\ DOMAIN run[p].records = Specs
  BY DEF ProgressInv, Progress, NextSession, At
<1>2. CASE run[p].session < run[p].sessions
  <2>1. PICK order \in Orders :
          Moved(p, "trials", [session |-> run[p].session + 1, queue |-> order])
    BY <1>2, StepRecords
  <2>2. /\ run'[p].pc = "trials" /\ run'[p].checked = run[p].checked
        /\ run'[p].session = run[p].session + 1 /\ run'[p].queue = order
        /\ run'[p].sessions = run[p].sessions
        /\ run'[p].records = run[p].records
    BY <2>1 DEF Moved, Fields
  <2>3. /\ order \in Seq(DOMAIN specs) /\ SE!ToSet(order) = DOMAIN specs
        /\ SE!IsInjective(order)
    BY OrdersAssumption
  <2>4. IsSeq(order) /\ DOMAIN order = 1..Len(order)
    BY <2>3, SeqIsSeq DEF IsSeq
  <2>5. 1 \in DOMAIN specs
    BY SpecsAt
  <2>6. \A i \in DOMAIN specs : \E j \in 1..Len(order) : order[j] = i
    BY <2>3, <2>4 DEF SE!ToSet
  <2>7. Len(order) # 0
    BY <2>4, <2>5, <2>6 DEF IsSeq
  <2>8. /\ \A i \in 1..Len(order) : order[i] \in DOMAIN specs
        /\ \A i, j \in 1..Len(order) : order[i] = order[j] => i = j
    BY <2>3, <2>4 DEF SE!IsInjective
  <2>9. run[p].session + 1 \in 1..run[p].sessions
        /\ run[p].session + 1 - 1 = run[p].session
    BY <1>1, <1>2
  <2>10. \A i \in DOMAIN specs :
           run'[p].records[specs[i]] =
             Upto(IF \E j \in 1..Len(order) : order[j] = i
                    THEN run'[p].session - 1 ELSE run'[p].session)
    BY <1>1, <2>2, <2>6, <2>9 DEF Timed
  <2>11. Progress(run'[p])
    BY <1>1, <2>2, <2>4, <2>7, <2>8, <2>9, <2>10
       DEF Progress, Early, Late, Labels, Ended
  <2> QED BY <2>1, <2>11 DEF Moved
<1>3. CASE ~ run[p].session < run[p].sessions
  <2>1. Moved(p, "memory", NoFields)
    BY <1>3, StepRecords
  <2>2. Alike(run[p], run'[p]) /\ run'[p].pc = "memory"
    BY <2>1, MovedAlike DEF NoFields
  <2>3. run[p].session = run[p].sessions
    BY <1>1, <1>3
  <2>4. Progress(run'[p])
    BY <1>1, <2>2, <2>3 DEF Progress, Alike, Early, Late, Labels, Ended, Timed
  <2> QED BY <2>1, <2>4 DEF Moved
<1> QED BY <1>2, <1>3

\* A trial adds its session to the records of one path, which leaves the queue.
LEMMA TrialSteps ==
  ASSUME IsRun, ProgressInv, NEW p \in Processes, run_trial(p)
  PROVE  /\ IsRun' /\ \A q \in Processes : q # p => run'[q] = run[q]
         /\ Progress(run'[p])
<1> DEFINE queue == run[p].queue
           n     == run[p].session
           old   == run[p].records
           new   == run'[p].records
           Left(k, q) == \E j \in 1..Len(q) : q[j] = k
<1>1. /\ run[p].pc = "trials" /\ run[p].checked = Specs
      /\ run[p].sessions \in Nat /\ n \in 1..run[p].sessions
      /\ DOMAIN old = Specs
      /\ \A i \in 1..Len(queue) : queue[i] \in DOMAIN specs
      /\ \A i, j \in 1..Len(queue) : queue[i] = queue[j] => i = j
      /\ \A i \in DOMAIN specs :
           old[specs[i]] = Upto(IF Left(i, queue) THEN n - 1 ELSE n)
  BY DEF ProgressInv, Progress, run_trial, At
<1>2. IsSeq(queue) /\ Len(queue) # 0
  BY <1>1 DEF ProgressInv, Progress
<1>3. Len(queue) \in Nat /\ 1 \in 1..Len(queue) /\ Head(queue) = queue[1]
  <2>1. queue \in Seq(Elements(queue)) /\ Len(queue) \in Nat
    BY <1>2, IsSeqSeq DEF IsSeq
  <2>2. queue # <<>>
    BY <1>2, EmptyIsSeq
  <2> QED BY <1>2, <2>1, <2>2, HeadTailProperties
<1> DEFINE first == queue[1]
           rest  == Tail(queue)
<1>4. /\ Len(rest) = Len(queue) - 1
      /\ \A i \in 1..Len(queue) - 1 : rest[i] = queue[i + 1]
  BY <1>2, TailIsSeq
<1>5. IsSeq(rest)
  BY <1>2, TailIsSeq
<1>6. Moved(p, IF rest = <<>> THEN "session" ELSE "trials",
            [queue |-> rest,
             records |-> [old EXCEPT ![specs[first]] = Append(@, n)],
             disturbed |-> run[p].disturbed \/ ~ ReallyControlled(run[p].cpu)])
  BY <1>3, StepRecords
<1>7. /\ run'[p].pc = IF rest = <<>> THEN "session" ELSE "trials"
      /\ run'[p].queue = rest
      /\ new = [old EXCEPT ![specs[first]] = Append(@, n)]
      /\ run'[p].checked = run[p].checked
      /\ run'[p].session = n /\ run'[p].sessions = run[p].sessions
  BY <1>6 DEF Moved, Fields
<1> HIDE DEF queue, n, old, new, rest
<1>8. first \in DOMAIN specs
  BY <1>1, <1>3
<1>9. Append(Upto(n - 1), n) = Upto(n)
  BY <1>1, AppendUpto
<1>10. \A i \in DOMAIN specs : specs[i] \in Specs
  BY DEF Specs, SE!ToSet
<1>11. \A i \in DOMAIN specs : i # first => specs[i] # specs[first]
  BY <1>8, SpecsInjective
<1>12. /\ DOMAIN new = Specs /\ new[specs[first]] = Append(old[specs[first]], n)
       /\ \A i \in DOMAIN specs : i # first => new[specs[i]] = old[specs[i]]
  BY <1>1, <1>7, <1>8, <1>10, <1>11
<1>13. Left(first, queue) /\ ~ Left(first, rest)
  BY <1>1, <1>3, <1>4
<1>14. ASSUME NEW i \in DOMAIN specs, i # first
       PROVE  Left(i, rest) <=> Left(i, queue)
  <2>1. ASSUME Left(i, rest) PROVE Left(i, queue)
    <3>1. PICK j \in 1..Len(queue) - 1 : rest[j] = i
      BY <1>4, <2>1
    <3>2. j + 1 \in 1..Len(queue) /\ queue[j + 1] = i
      BY <1>3, <1>4, <3>1
    <3> QED BY <3>2
  <2>2. ASSUME Left(i, queue) PROVE Left(i, rest)
    <3>1. PICK j \in 1..Len(queue) : queue[j] = i
      BY <2>2
    <3>2. j # 1
      BY <1>14, <3>1
    <3>3. j - 1 \in 1..Len(queue) - 1 /\ j - 1 + 1 = j
      BY <1>3, <3>1, <3>2
    <3>4. rest[j - 1] = i
      BY <1>4, <3>1, <3>3
    <3> QED BY <1>4, <3>3, <3>4
  <2> QED BY <2>1, <2>2
<1> HIDE DEF first, Left
<1>15. \A i \in DOMAIN specs :
         new[specs[i]] = Upto(IF Left(i, rest) THEN n - 1 ELSE n)
  BY <1>1, <1>8, <1>9, <1>12, <1>13, <1>14
<1>16. /\ \A i \in 1..Len(rest) : rest[i] \in DOMAIN specs
       /\ \A i, j \in 1..Len(rest) : rest[i] = rest[j] => i = j
  <2>1. \A i \in 1..Len(rest) :
          i \in Int /\ i + 1 \in 1..Len(queue) /\ rest[i] = queue[i + 1]
    BY <1>3, <1>4
  <2>2. \A i \in 1..Len(rest) : rest[i] \in DOMAIN specs
    BY <1>1, <2>1
  <2>3. ASSUME NEW i \in 1..Len(rest), NEW j \in 1..Len(rest), rest[i] = rest[j]
        PROVE  i = j
    <3>1. i + 1 = j + 1
      BY <1>1, <2>1, <2>3
    <3> QED BY <2>1, <3>1
  <2> QED BY <2>2, <2>3
<1>17. CASE rest = <<>>
  <2>1. \A i \in DOMAIN specs : ~ Left(i, rest)
    BY <1>17, EmptyIsSeq DEF Left
  <2>2. Timed(run'[p], n)
    BY <1>15, <2>1 DEF Timed, new
  <2>3. n \in 0..run[p].sessions
    BY <1>1
  <2>4. Progress(run'[p])
    BY <1>1, <1>7, <1>12, <1>17, <2>2, <2>3
       DEF Progress, Early, Late, Labels, Ended, new
  <2> QED BY <1>6, <2>4 DEF Moved
<1>18. CASE rest # <<>>
  <2>1. Len(rest) # 0
    BY <1>5, <1>18, EmptyIsSeq, EqualSeqs
  <2>2. Progress(run'[p])
    BY <1>1, <1>5, <1>7, <1>12, <1>15, <1>16, <1>18, <2>1
       DEF Progress, Early, Late, Labels, Ended, new, Left
  <2> QED BY <1>6, <2>2 DEF Moved
<1> QED BY <1>17, <1>18

\* What is left when the trials are over changes no record of them.
LEMMA LateSteps ==
  ASSUME IsRun, ProgressInv, NEW p \in Processes,
         \/ Measure(p) \/ MeasureEffects(p) \/ ReadControl(p)
         \/ collect_perf(p) \/ WriteSummary(p)
  PROVE  \/ Fails(p) \/ Reset(p, "rejected", NoFields)
         \/ /\ IsRun' /\ \A q \in Processes : q # p => run'[q] = run[q]
            /\ Progress(run'[p])
<1> USE DEF Late
<1>1. Progress(run[p])
  BY DEF ProgressInv
<1>2. ASSUME NEW label, NEW fields, Moved(p, label, fields),
             DOMAIN fields \cap {"sessions", "records", "checked", "session"} = {},
             run[p].pc \in Late, label \in Late
      PROVE  /\ IsRun' /\ \A q \in Processes : q # p => run'[q] = run[q]
             /\ Progress(run'[p])
  BY <1>1, <1>2, MovedAlike, LateProgress DEF Moved
<1>3. CASE Measure(p)
  <2>1. /\ run[p].pc = "memory"
        /\ Moved(p, "effects", NoFields) \/ Reset(p, "rejected", NoFields)
    BY <1>3, StepRecords DEF Measure, At
  <2> QED BY <1>2, <2>1 DEF NoFields
<1>4. CASE MeasureEffects(p)
  <2>1. /\ run[p].pc = "effects"
        /\ Moved(p, "control", NoFields) \/ Fails(p)
    BY <1>4, StepRecords DEF MeasureEffects, At
  <2> QED BY <1>2, <2>1 DEF NoFields
<1>5. CASE ReadControl(p)
  <2>1. /\ run[p].pc = "control"
        /\ Moved(p, "perf", [control |-> read_cpu_control(run[p].cpu)])
    BY <1>5, StepRecords DEF ReadControl, At
  <2> QED BY <1>2, <2>1
<1>6. CASE collect_perf(p)
  <2>1. run[p].pc = "perf" /\ Moved(p, "summary", NoFields)
    BY <1>6, StepRecords DEF collect_perf, At
  <2> QED BY <1>2, <2>1 DEF NoFields
<1>7. CASE WriteSummary(p)
  <2>1. run[p].pc = "summary" /\ Moved(p, "done", NoFields)
    BY <1>7, StepRecords DEF WriteSummary, At
  <2> QED BY <1>2, <2>1 DEF NoFields
<1> QED BY <1>3, <1>4, <1>5, <1>6, <1>7

LEMMA ResetsProgress ==
  ASSUME IsRun, ProgressInv, NEW p \in Processes,
         \/ Start(p) \/ Fails(p) \/ Reset(p, "rejected", NoFields)
  PROVE  IsRun' /\ ProgressInv'
<1>1. CASE Fails(p) \/ Reset(p, "rejected", NoFields)
  <2>1. PICK label \in {"failed", "rejected"} : Reset(p, label, NoFields)
    BY <1>1 DEF Fails
  <2>2. Progress(run'[p])
    BY <2>1, ResetProgress DEF NoFields
  <2> QED BY <2>1, <2>2, OneProgress DEF Reset
<1>2. CASE Start(p)
  <2>1. PICK sessions \in SessionCounts, cpu \in Cpus :
          Reset(p, IF sessions < 2 THEN "rejected" ELSE "look",
                [id |-> attempts + 1, sessions |-> sessions, cpu |-> cpu])
    BY <1>2, StepRecords
  <2> DEFINE label == IF sessions < 2 THEN "rejected" ELSE "look"
             fields == [id |-> attempts + 1, sessions |-> sessions, cpu |-> cpu]
  <2>2. /\ label \in {"failed", "rejected", "look"}
        /\ DOMAIN fields \subseteq {"id", "sessions", "cpu"}
        /\ fields["sessions"] \in Nat
    BY SessionsAssumption
  <2>3. Reset(p, label, fields)
    BY <2>1
  <2> HIDE DEF label, fields
  <2>4. Progress(run'[p])
    BY <2>2, <2>3, ResetProgress
  <2> QED BY <2>3, <2>4, OneProgress DEF Reset
<1> QED BY <1>1, <1>2

Step(p) ==
  \/ Start(p) \/ Stop(p) \/ make_output_dir(p) \/ CopyDynamic(p)
  \/ Transform(p) \/ Verify(p) \/ MakeEvidence(p) \/ Compile(p)
  \/ Describe(p) \/ check_exports(p) \/ check_numerics(p)
  \/ run_trial(p) \/ NextSession(p) \/ Measure(p) \/ MeasureEffects(p)
  \/ ReadControl(p) \/ collect_perf(p) \/ WriteSummary(p)

LEMMA NextSteps ==
  ASSUME [Next]_vars
  PROVE  \/ HostChange
         \/ \E p \in Processes : Step(p)
         \/ UNCHANGED vars
BY DEF Next, Step

LEMMA NextProgress ==
  ASSUME IsRun, ProgressInv, [Next]_vars PROVE IsRun' /\ ProgressInv'
<1>1. CASE HostChange \/ UNCHANGED vars
  <2>1. run' = run
    BY <1>1 DEF HostChange, vars
  <2> QED BY <2>1 DEF IsRun, ProgressInv
<1>2. ASSUME NEW p \in Processes, Step(p) PROVE IsRun' /\ ProgressInv'
  <2>1. CASE Start(p) \/ Stop(p)
    BY <2>1, StepRecords, ResetsProgress
  <2>2. \/ Fails(p) \/ Reset(p, "rejected", NoFields) \/ Start(p) \/ Stop(p)
        \/ /\ IsRun' /\ \A q \in Processes : q # p => run'[q] = run[q]
           /\ Progress(run'[p])
    BY <1>2, EarlySteps, NumericsSteps, SessionSteps, TrialSteps, LateSteps
       DEF Step
  <2> QED BY <2>1, <2>2, ResetsProgress, OneProgress
<1> QED BY <1>1, <1>2, NextSteps

LEMMA InitProgress == Init => IsRun /\ ProgressInv
<1> SUFFICES ASSUME Init PROVE IsRun /\ ProgressInv
  OBVIOUS
<1>1. run = [p \in Processes |-> Idle]
  BY DEF Init
<1>2. Idle.pc = "idle" /\ Idle.sessions = 0 /\ DOMAIN Idle.records = Specs
  BY DEF Idle
<1>3. Progress(Idle)
  BY <1>2 DEF Progress, Early, Late, Labels, Ended
<1> QED BY <1>1, <1>3, IdleFields DEF IsRun, ProgressInv

-----------------------------------------------------------------------------
(***************************************************************************)
(* The lock.                                                               *)
(***************************************************************************)
\* A range of items is one of the places where they are bounded.
ItemOk(label, item) ==
  /\ label \in {"transform", "verify"} => item \in 2..3
  /\ label \in {"evidence", "compile", "describe"} => item \in 1..3

\* A step of a process that keeps its id and takes nothing.
LEMMA LockKept ==
  ASSUME LockInv, NEW p \in Processes, IsRun',
         \A q \in Processes : q # p => run'[q] = run[q],
         run'[p].id = run[p].id,
         run[p].pc \notin {"idle", "failed", "rejected"},
         ItemOk(run'[p].pc, run'[p].item),
         Locked(run'[p]) => Locked(run[p]),
         UNCHANGED <<evidence, vmfb, summary, attempts>>
  PROVE  LockInv'
<1>1. \A q \in Processes : run'[q].id = run[q].id
  OBVIOUS
<1>2. \A q \in Processes : Locked(run'[q]) => Locked(run[q])
  OBVIOUS
<1>3. \A q \in Processes : Modest(run[q])'
  BY DEF LockInv, Modest, ItemOk
<1>4. \A q \in Processes : Locked(run'[q]) => run'[q].id = Owner
  BY <1>1, <1>2 DEF LockInv
<1>5. Owner' = Owner
  BY DEF Owner
<1> QED BY <1>1, <1>3, <1>4, <1>5 DEF LockInv

LEMMA MovedLock ==
  ASSUME LockInv, NEW p \in Processes, NEW label, NEW fields,
         Moved(p, label, fields), "id" \notin DOMAIN fields,
         run[p].pc \notin {"idle", "failed", "rejected"},
         ItemOk(label, run'[p].item), Locked(run'[p]) => Locked(run[p]),
         UNCHANGED <<evidence, vmfb, summary, attempts>>
  PROVE  LockInv'
<1>1. run'[p].id = run[p].id /\ run'[p].pc = label
  BY DEF Moved, Fields
<1> QED BY <1>1, LockKept DEF Moved

\* A process that ends has no id any more.
LEMMA EndLock ==
  ASSUME LockInv, NEW p \in Processes, NEW label, label \in {"failed", "rejected"},
         Reset(p, label, NoFields),
         UNCHANGED <<evidence, vmfb, summary, attempts>>
  PROVE  LockInv'
<1>1. run'[p].id = 0 /\ run'[p].pc = label
  BY DEF Reset, NoFields, Fields, Idle, Absent
<1>2. ~ Locked(run'[p])
  BY <1>1 DEF Locked, Late
<1>3. Modest(run[p])'
  BY <1>1 DEF Modest, LockInv, Absent
<1>4. \A q \in Processes : Modest(run[q])'
  BY <1>3 DEF Reset, Modest, LockInv
<1>5. \A q, r \in Processes :
        run'[q].id = run'[r].id /\ run'[q].id # Absent => q = r
  BY <1>1 DEF Reset, LockInv, Absent
<1>6. \A q \in Processes : Locked(run'[q]) => run'[q].id = Owner
  BY <1>2 DEF Reset, LockInv
<1>7. Owner' = Owner
  BY DEF Owner
<1> QED BY <1>4, <1>5, <1>6, <1>7 DEF LockInv

\* An invocation has an id that no other process has.
LEMMA StartLock ==
  ASSUME LockInv, IsRun, NEW p \in Processes, Start(p) PROVE LockInv'
<1>1. PICK sessions \in SessionCounts, cpu \in Cpus :
        Reset(p, IF sessions < 2 THEN "rejected" ELSE "look",
              [id |-> attempts + 1, sessions |-> sessions, cpu |-> cpu])
  BY StepRecords
<1>2. /\ run'[p].id = attempts + 1 /\ run'[p].pc \in {"rejected", "look"}
      /\ \A q \in Processes : q # p => run'[q] = run[q]
  BY <1>1 DEF Reset, Fields
<1>3. attempts' = attempts + 1 /\ UNCHANGED <<evidence, vmfb, summary>>
  BY DEF Start, directory
<1>4. attempts \in Nat /\ \A q \in Processes : run[q].id \in 0..attempts
  BY DEF LockInv, Modest
<1>5. ~ Locked(run'[p])
  BY <1>2 DEF Locked, Late
<1>6. \A q \in Processes : Modest(run[q])'
  <2>1. Modest(run[p])'
    BY <1>2, <1>3, <1>4 DEF Modest, Absent
  <2>2. ASSUME NEW q \in Processes, q # p PROVE Modest(run[q])'
    BY <1>2, <1>3, <1>4, <2>2 DEF Modest, LockInv
  <2> QED BY <2>1, <2>2
<1>7. \A q, r \in Processes :
        run'[q].id = run'[r].id /\ run'[q].id # Absent => q = r
  <2>1. \A q \in Processes : q # p => run'[q].id # run'[p].id
    BY <1>2, <1>4
  <2>2. \A q, r \in Processes :
          run[q].id = run[r].id /\ run[q].id # Absent => q = r
    BY DEF LockInv
  <2> QED BY <1>2, <2>1, <2>2
<1>8. \A q \in Processes : Locked(run'[q]) => run'[q].id = Owner
  BY <1>2, <1>5 DEF LockInv
<1>9. Owner' = Owner
  BY <1>3 DEF Owner
<1>10. attempts' \in Nat
  BY <1>3, <1>4
<1>11. /\ evidence' = [n \in Modules |-> evidence'[n]]
       /\ vmfb' = [n \in Modules |-> vmfb'[n]]
       /\ \A n \in Modules : vmfb'[n].by \in {Absent, Owner}
       /\ summary' \in {Absent, Owner}
  BY <1>3 DEF LockInv
<1> QED BY <1>6, <1>7, <1>8, <1>9, <1>10, <1>11 DEF LockInv

LEMMA Names3 ==
  /\ ModuleNames[1] = "dynamic"
  /\ ModuleNames[2] = "multiversioned-production"
  /\ ModuleNames[3] = "multiversioned-observable"
  /\ Modules = {"dynamic", "multiversioned-production", "multiversioned-observable"}
<1>1. DOMAIN ModuleNames = {1, 2, 3}
  BY DEF ModuleNames
<1> QED BY <1>1 DEF ModuleNames, Modules, SE!ToSet

\* mkdir succeeds for one process only.
LEMMA EvidenceLock ==
  ASSUME LockInv, IsRun, NEW p \in Processes, MakeEvidence(p) PROVE LockInv'
<1>1. run[p].pc = "evidence" /\ UNCHANGED <<vmfb, summary, attempts>>
  BY DEF MakeEvidence, At
<1>2. Modest(run[p]) /\ run[p].item \in 1..3 /\ run[p].id # Absent
  BY <1>1 DEF LockInv, Modest
<1>3. CASE evidence[Item(p)] # Absent
  <2>1. Fails(p) /\ UNCHANGED evidence
    BY <1>3, EndResets DEF MakeEvidence, Fails
  <2> QED BY <1>1, <2>1, EndLock DEF Fails
<1>4. CASE evidence[Item(p)] = Absent
  <2>1. /\ evidence' = [evidence EXCEPT ![Item(p)] = run[p].id]
        /\ Goto(p, "compile", NoFields)
    BY <1>4 DEF MakeEvidence
  <2>2. Moved(p, "compile", NoFields)
    BY <2>1, GotoMoves DEF NoFields
  <2>3. /\ run'[p].id = run[p].id /\ run'[p].pc = "compile"
        /\ run'[p].item = run[p].item
        /\ \A q \in Processes : q # p => run'[q] = run[q]
    BY <2>2 DEF Moved, NoFields, Fields
  <2>4. \A q \in Processes : Modest(run[q])'
    BY <1>1, <1>2, <2>3 DEF LockInv, Modest
  <2>5. \A q, r \in Processes :
          run'[q].id = run'[r].id /\ run'[q].id # Absent => q = r
    BY <2>3 DEF LockInv
  <2>6. evidence' = [n \in Modules |-> evidence'[n]]
    BY <2>1 DEF LockInv
  <2>7. CASE run[p].item = 1
    <3>1. Item(p) = "dynamic" /\ Owner = Absent
      BY <1>4, <2>7, Names3 DEF Item, Owner
    <3>2. Owner' = run[p].id
      <4>1. "dynamic" \in DOMAIN evidence
        BY Names3 DEF LockInv
      <4> QED BY <2>1, <3>1, <4>1 DEF Owner
    <3>3. \A q \in Processes : ~ Locked(run[q])
      <4>1. \A q \in Processes : Locked(run[q]) => run[q].id # Absent
        BY DEF LockInv, Modest, Locked, Late
      <4> QED BY <3>1, <4>1 DEF LockInv
    <3>4. \A q \in Processes : Locked(run'[q]) => run'[q].id = Owner'
      BY <2>3, <3>2, <3>3
    <3>5. /\ \A n \in Modules : vmfb'[n].by \in {Absent, Owner'}
          /\ summary' \in {Absent, Owner'}
      BY <1>1, <3>1 DEF LockInv
    <3> QED BY <1>1, <2>4, <2>5, <2>6, <3>4, <3>5 DEF LockInv
  <2>8. CASE run[p].item # 1
    <3>1. Item(p) # "dynamic"
      BY <1>2, <2>8, Names3 DEF Item
    <3>2. Owner' = Owner
      <4>1. "dynamic" \in DOMAIN evidence
        BY Names3 DEF LockInv
      <4> QED BY <2>1, <3>1, <4>1 DEF Owner
    <3>3. Locked(run[p])
      BY <1>1, <2>8 DEF Locked
    <3>4. \A q \in Processes : Locked(run'[q]) => run'[q].id = Owner'
      BY <2>3, <3>2, <3>3 DEF LockInv
    <3>5. /\ \A n \in Modules : vmfb'[n].by \in {Absent, Owner'}
          /\ summary' \in {Absent, Owner'}
      BY <1>1, <3>2 DEF LockInv
    <3> QED BY <1>1, <2>4, <2>5, <2>6, <3>4, <3>5 DEF LockInv
  <2> QED BY <2>7, <2>8
<1> QED BY <1>3, <1>4

\* Who writes a module or the summary has the lock.
LEMMA CompileLock ==
  ASSUME LockInv, IsRun, NEW p \in Processes, Compile(p) \/ WriteSummary(p)
  PROVE  LockInv'
<1>1. /\ UNCHANGED <<evidence, attempts>>
      /\ run[p].pc \in {"compile", "summary"}
      /\ \E label \in {"describe", "done"} :
           /\ Moved(p, label, NoFields)
           /\ ItemOk(label, run[p].item)
  <2>1. CASE Compile(p)
    BY <2>1, StepRecords DEF Compile, At, LockInv, Modest, ItemOk
  <2>2. CASE WriteSummary(p)
    BY <2>2, StepRecords DEF WriteSummary, At, ItemOk
  <2> QED BY <2>1, <2>2
<1>2. Locked(run[p]) /\ run[p].id = Owner
  BY <1>1 DEF LockInv, Locked, Late
<1>3. PICK label \in {"describe", "done"} :
        Moved(p, label, NoFields) /\ ItemOk(label, run[p].item)
  BY <1>1
<1>4. /\ run'[p].id = run[p].id /\ run'[p].pc = label
      /\ run'[p].item = run[p].item
      /\ \A q \in Processes : q # p => run'[q] = run[q]
  BY <1>3 DEF Moved, NoFields, Fields
<1>5. Owner' = Owner
  BY <1>1 DEF Owner
<1>6. /\ vmfb' = [n \in Modules |-> vmfb'[n]]
      /\ \A n \in Modules : vmfb'[n].by \in {Absent, Owner}
      /\ summary' \in {Absent, Owner}
  <2>1. CASE Compile(p)
    <3>1. /\ summary' = summary
          /\ \E module : /\ module.by = run[p].id
                         /\ vmfb' = [vmfb EXCEPT ![Item(p)] = module]
      <4> DEFINE module == [by |-> run[p].id, public |-> source[Item(p)].public,
                            text |-> <<Item(p), source[Item(p)]>>]
      <4>1. module.by = run[p].id
        OBVIOUS
      <4>2. summary' = summary /\ vmfb' = [vmfb EXCEPT ![Item(p)] = module]
        BY <2>1 DEF Compile
      <4> HIDE DEF module
      <4> QED BY <4>1, <4>2
    <3> QED BY <1>2, <3>1 DEF LockInv
  <2>2. CASE WriteSummary(p)
    BY <1>2, <2>2 DEF WriteSummary, LockInv
  <2> QED BY <2>1, <2>2
<1>7. \A q \in Processes : Modest(run[q])'
  BY <1>1, <1>2, <1>3, <1>4 DEF LockInv, Modest, ItemOk
<1>8. \A q, r \in Processes :
        run'[q].id = run'[r].id /\ run'[q].id # Absent => q = r
  BY <1>4 DEF LockInv
<1>9. \A q \in Processes : Locked(run'[q]) => run'[q].id = Owner
  BY <1>2, <1>4 DEF LockInv
<1> QED BY <1>1, <1>5, <1>6, <1>7, <1>8, <1>9 DEF LockInv

\* The other steps before the numbers are checked.
LEMMA EarlyLock ==
  ASSUME LockInv, IsRun, NEW p \in Processes,
         \/ make_output_dir(p) \/ CopyDynamic(p) \/ Transform(p) \/ Verify(p)
         \/ Describe(p)
  PROVE  LockInv'
<1>1. Modest(run[p])
  BY DEF LockInv
<1>2. CASE make_output_dir(p)
  <2>1. /\ run[p].pc = "look" /\ UNCHANGED <<evidence, vmfb, summary, attempts>>
        /\ Fails(p) \/ Moved(p, "copy", NoFields)
    BY <1>2, StepRecords DEF make_output_dir, At, directory
  <2>2. CASE Moved(p, "copy", NoFields)
    <3>1. ~ Locked(run'[p]) /\ ItemOk("copy", run'[p].item)
      BY <2>2 DEF Moved, Locked, Late, ItemOk
    <3> QED BY <2>1, <2>2, <3>1, MovedLock DEF NoFields
  <2> QED BY <2>1, <2>2, EndLock DEF Fails
<1>3. CASE CopyDynamic(p)
  <2>1. /\ run[p].pc = "copy" /\ UNCHANGED <<evidence, vmfb, summary, attempts>>
        /\ Moved(p, "transform", [item |-> 2])
    BY <1>3, StepRecords DEF CopyDynamic, At
  <2>2. run'[p].item = 2 /\ run'[p].pc = "transform"
    BY <2>1 DEF Moved, Fields
  <2>3. ~ Locked(run'[p]) /\ ItemOk("transform", run'[p].item)
    BY <2>2 DEF Locked, Late, ItemOk
  <2> QED BY <2>1, <2>3, MovedLock
<1>4. CASE Transform(p)
  <2>1. /\ run[p].pc = "transform"
        /\ UNCHANGED <<evidence, vmfb, summary, attempts>>
        /\ Moved(p, "verify", NoFields)
    BY <1>4, StepRecords DEF Transform, At
  <2>2. run'[p].item = run[p].item /\ run'[p].pc = "verify"
    BY <2>1 DEF Moved, Fields, NoFields
  <2>3. ~ Locked(run'[p]) /\ ItemOk("verify", run'[p].item)
    BY <1>1, <2>1, <2>2 DEF Locked, Late, ItemOk, Modest
  <2> QED BY <2>1, <2>3, MovedLock DEF NoFields
<1>5. CASE Verify(p)
  <2>1. /\ run[p].pc = "verify"
        /\ UNCHANGED <<evidence, vmfb, summary, attempts>>
        /\ IF run[p].item < 3
             THEN Moved(p, "transform", [item |-> run[p].item + 1])
             ELSE Moved(p, "evidence", [item |-> 1])
    BY <1>5, StepRecords DEF Verify, At, directory
  <2>2. run[p].item \in 2..3
    BY <1>1, <2>1 DEF Modest
  <2>3. CASE run[p].item < 3
    <3>1. Moved(p, "transform", [item |-> run[p].item + 1])
      BY <2>1, <2>3
    <3>2. run'[p].item = run[p].item + 1 /\ run'[p].pc = "transform"
      BY <3>1 DEF Moved, Fields
    <3>3. ~ Locked(run'[p]) /\ ItemOk("transform", run'[p].item)
      BY <2>2, <2>3, <3>2 DEF Locked, Late, ItemOk
    <3> QED BY <2>1, <3>1, <3>3, MovedLock
  <2>4. CASE ~ run[p].item < 3
    <3>1. Moved(p, "evidence", [item |-> 1])
      BY <2>1, <2>4
    <3>2. run'[p].item = 1 /\ run'[p].pc = "evidence"
      BY <3>1 DEF Moved, Fields
    <3>3. ~ Locked(run'[p]) /\ ItemOk("evidence", run'[p].item)
      BY <3>2 DEF Locked, Late, ItemOk
    <3> QED BY <2>1, <3>1, <3>3, MovedLock
  <2> QED BY <2>3, <2>4
<1>6. CASE Describe(p)
  <2>1. run[p].pc = "describe" /\ UNCHANGED <<evidence, vmfb, summary, attempts>>
    BY <1>6 DEF Describe, At, directory
  <2>2. PICK artifact :
          Moved(p, IF run[p].item = 3 THEN "exports" ELSE "evidence",
                [artifacts |-> Append(run[p].artifacts, artifact),
                 item |-> IF run[p].item = 3 THEN 1 ELSE run[p].item + 1])
    BY <1>6, StepRecords
  <2> DEFINE label == IF run[p].item = 3 THEN "exports" ELSE "evidence"
             fields == [artifacts |-> Append(run[p].artifacts, artifact),
                        item |-> IF run[p].item = 3 THEN 1 ELSE run[p].item + 1]
  <2>3. Moved(p, label, fields)
    BY <2>2
  <2>4. run'[p].item = fields.item /\ run[p].item \in 1..3
    BY <1>1, <2>1, <2>3 DEF Moved, Fields, Modest
  <2>5. ItemOk(label, run'[p].item) /\ "id" \notin DOMAIN fields
    BY <2>4 DEF ItemOk
  <2>6. Locked(run[p])
    BY <2>1 DEF Locked
  <2> HIDE DEF label, fields
  <2> QED BY <2>1, <2>3, <2>5, <2>6, MovedLock
<1> QED BY <1>2, <1>3, <1>4, <1>5, <1>6

\* The steps behind the lock that write nothing.
LEMMA LateLock ==
  ASSUME LockInv, IsRun, NEW p \in Processes,
         \/ check_exports(p) \/ check_numerics(p) \/ NextSession(p)
         \/ run_trial(p) \/ Measure(p) \/ MeasureEffects(p) \/ ReadControl(p)
         \/ collect_perf(p)
  PROVE  LockInv'
<1>1. UNCHANGED <<evidence, vmfb, summary, attempts>>
  BY DEF check_exports, check_numerics, NextSession, run_trial, Measure,
     MeasureEffects, ReadControl, collect_perf, directory
<1>2. run[p].pc \in {"exports", "numerics", "session", "trials"} \cup Late
  BY DEF check_exports, check_numerics, NextSession, run_trial, Measure,
     MeasureEffects, ReadControl, collect_perf, At, Late
<1>3. Locked(run[p]) /\ run[p].pc \notin {"idle", "failed", "rejected"}
  BY <1>2 DEF Locked, Late
<1>4. ASSUME NEW label, NEW fields, Moved(p, label, fields),
             "id" \notin DOMAIN fields,
             label \in {"numerics", "session", "trials"} \cup Late
      PROVE  LockInv'
  <2>1. ItemOk(label, run'[p].item)
    BY <1>4 DEF ItemOk, Late
  <2> QED BY <1>1, <1>3, <1>4, <2>1, MovedLock
<1>5. \A label \in {"numerics"} \cup Late :
        Moved(p, label, NoFields) => LockInv'
  BY <1>4 DEF NoFields
<1>6. CASE check_exports(p) \/ Measure(p) \/ collect_perf(p)
  <2>1. \/ \E label \in {"numerics"} \cup Late : Moved(p, label, NoFields)
        \/ Fails(p) \/ Reset(p, "rejected", NoFields)
    BY <1>6, StepRecords DEF Late
  <2> QED BY <1>1, <1>5, <2>1, EndLock DEF Fails
<1>7. CASE check_numerics(p)
  <2>1. \A x, y : Moved(p, "numerics", [checked |-> x, item |-> y]) => LockInv'
    BY <1>4
  <2>2. \A x : Moved(p, "session", [checked |-> x]) => LockInv'
    BY <1>4
  <2> QED BY <1>7, <2>1, <2>2, StepRecords
<1>8. CASE NextSession(p)
  <2>1. \A x, y : Moved(p, "trials", [session |-> x, queue |-> y]) => LockInv'
    BY <1>4
  <2>2. Moved(p, "memory", NoFields) => LockInv'
    BY <1>5 DEF Late
  <2> QED BY <1>8, <2>1, <2>2, StepRecords
<1>9. CASE run_trial(p)
  <2> DEFINE rest == Tail(run[p].queue)
             label == IF rest = <<>> THEN "session" ELSE "trials"
  <2>1. PICK x, y, z :
          Moved(p, label, [queue |-> x, records |-> y, disturbed |-> z])
    BY <1>9, StepRecords, Zenon
  <2> DEFINE fields == [queue |-> x, records |-> y, disturbed |-> z]
  <2>2. label \in {"session", "trials"} /\ "id" \notin DOMAIN fields
    OBVIOUS
  <2>3. Moved(p, label, fields)
    BY <2>1
  <2> HIDE DEF label, fields
  <2> QED BY <1>4, <2>2, <2>3
<1>10. CASE MeasureEffects(p)
  <2>1. Moved(p, "control", NoFields) => LockInv'
    BY <1>5 DEF Late
  <2> QED BY <1>1, <1>10, <2>1, StepRecords, EndLock DEF Fails
<1>11. CASE ReadControl(p)
  <2>1. \A x : Moved(p, "perf", [control |-> x]) => LockInv'
    BY <1>4 DEF Late
  <2> QED BY <1>11, <2>1, StepRecords
<1> QED BY <1>6, <1>7, <1>8, <1>9, <1>10, <1>11

LEMMA NextLock ==
  ASSUME IsRun, LockInv, [Next]_vars PROVE LockInv'
<1>1. CASE HostChange \/ UNCHANGED vars
  <2>1. UNCHANGED <<run, evidence, vmfb, summary, attempts>>
    BY <1>1 DEF HostChange, vars, directory
  <2> QED BY <2>1 DEF LockInv, Modest, Owner
<1>2. ASSUME NEW p \in Processes, Step(p) PROVE LockInv'
  <2>1. CASE Stop(p)
    <3>1. UNCHANGED <<evidence, vmfb, summary, attempts>> /\ Fails(p)
      BY <2>1, StepRecords DEF Stop, directory
    <3> QED BY <3>1, EndLock DEF Fails
  <2> QED BY <1>2, <2>1, StartLock, EvidenceLock, CompileLock, EarlyLock, LateLock
          DEF Step
<1> QED BY <1>1, <1>2, NextSteps

LEMMA InitLock == Init => LockInv
<1> SUFFICES ASSUME Init PROVE LockInv
  OBVIOUS
<1>1. \A p \in Processes : run[p] = Idle
  BY DEF Init
<1>2. Idle.pc = "idle" /\ Idle.id = 0 /\ Idle.item = 1
  BY DEF Idle, Absent
<1>3. Modest(Idle) /\ ~ Locked(Idle)
  BY <1>2 DEF Modest, Locked, Late, Init
<1> QED BY <1>1, <1>2, <1>3, Names3 DEF Init, LockInv, Owner, Absent

\* Everything in the directory is of the owner of the lock.
LEMMA LockedMeasures == ASSUME LockInv PROVE OneMeasures
<1> DEFINE S == ({vmfb[n].by : n \in Modules} \cup {summary}
                 \cup {run[p].id : p \in {q \in Processes : At(q, "trials")}})
                \ {Absent}
<1>1. S \subseteq {Owner}
  BY DEF LockInv, At, Locked
<1>2. IsFiniteSet({Owner}) /\ Cardinality({Owner}) = 1
  BY FS_Singleton
<1>3. Cardinality(S) <= 1
  BY <1>1, <1>2, FS_Subset
<1> QED BY <1>3 DEF OneMeasures

-----------------------------------------------------------------------------
(***************************************************************************)
(* The exports.                                                            *)
(***************************************************************************)
\* The modules stay, and a process goes on.
LEMMA OneExports ==
  ASSUME ExportsInv, NEW p \in Processes,
         \A q \in Processes : q # p => run'[q] = run[q],
         vmfb' = vmfb, source' = source, Exports(run'[p])
  PROVE  ExportsInv'
<1>1. ASSUME NEW r PROVE Exports(r) => Exports(r)'
  BY DEF Exports, Described, Visible
<1>2. \A q \in Processes : Exports(run'[q])
  BY DEF ExportsInv
<1>3. \A q \in Processes : Exports(run[q])'
  BY <1>2 DEF Exports, Described, Visible
<1> QED BY <1>3 DEF ExportsInv

LEMMA ResetExports ==
  ASSUME NEW p \in Processes, NEW label, NEW fields,
         label \in {"failed", "rejected", "look"},
         Reset(p, label, fields), "artifacts" \notin DOMAIN fields
  PROVE  Exports(run'[p])
<1>1. run'[p].pc = label /\ run'[p].artifacts = <<>>
  BY DEF Reset, Fields, Idle
<1>2. Described(run'[p], 0)
  BY <1>1, EmptyIsSeq DEF Described
<1> QED BY <1>1, <1>2 DEF Exports, Late

LEMMA ResetsExports ==
  ASSUME IsRun, ExportsInv, NEW p \in Processes, vmfb' = vmfb, source' = source,
         \/ Start(p) \/ Fails(p) \/ Reset(p, "rejected", NoFields)
  PROVE  ExportsInv'
<1>1. CASE Fails(p) \/ Reset(p, "rejected", NoFields)
  <2>1. PICK label \in {"failed", "rejected"} : Reset(p, label, NoFields)
    BY <1>1 DEF Fails
  <2>2. Exports(run'[p])
    BY <2>1, ResetExports DEF NoFields
  <2> QED BY <2>1, <2>2, OneExports DEF Reset
<1>2. CASE Start(p)
  <2>1. PICK sessions \in SessionCounts, cpu \in Cpus :
          Reset(p, IF sessions < 2 THEN "rejected" ELSE "look",
                [id |-> attempts + 1, sessions |-> sessions, cpu |-> cpu])
    BY <1>2, StepRecords
  <2> DEFINE label == IF sessions < 2 THEN "rejected" ELSE "look"
             fields == [id |-> attempts + 1, sessions |-> sessions, cpu |-> cpu]
  <2>2. label \in {"failed", "rejected", "look"} /\ "artifacts" \notin DOMAIN fields
    OBVIOUS
  <2>3. Reset(p, label, fields)
    BY <2>1
  <2> HIDE DEF label, fields
  <2>4. Exports(run'[p])
    BY <2>2, <2>3, ResetExports
  <2> QED BY <2>3, <2>4, OneExports DEF Reset
<1> QED BY <1>1, <1>2

\* Before the first evidence directory there are no artifacts.
LEMMA TextExports ==
  ASSUME IsRun, LockInv, ExportsInv, NEW p \in Processes,
         \/ make_output_dir(p) \/ CopyDynamic(p) \/ Transform(p) \/ Verify(p)
  PROVE  ExportsInv'
<1>1. Exports(run[p]) /\ vmfb' = vmfb
  BY DEF ExportsInv, make_output_dir, CopyDynamic, Transform, Verify, directory
<1>2. run[p].pc \in {"look", "copy", "transform", "verify"}
  BY DEF make_output_dir, CopyDynamic, Transform, Verify, At
<1>3. Described(run[p], 0)
  BY <1>1, <1>2 DEF Exports
<1>4. \/ Fails(p)
      \/ /\ run'[p].artifacts = run[p].artifacts
         /\ \A q \in Processes : q # p => run'[q] = run[q]
         /\ \/ run'[p].pc \in {"copy", "transform", "verify"}
            \/ run'[p].pc = "evidence" /\ run'[p].item = 1
  <2>1. CASE make_output_dir(p)
    BY <2>1, StepRecords DEF Moved, Fields, NoFields
  <2>2. CASE CopyDynamic(p)
    BY <2>2, StepRecords DEF Moved, Fields
  <2>3. CASE Transform(p)
    BY <2>3, StepRecords DEF Moved, Fields, NoFields
  <2>4. CASE Verify(p)
    <3>1. \/ Moved(p, "transform", [item |-> run[p].item + 1])
          \/ Moved(p, "evidence", [item |-> 1])
      BY <2>4, StepRecords
    <3> QED BY <3>1 DEF Moved, Fields
  <2> QED BY <2>1, <2>2, <2>3, <2>4
<1>5. /\ source' = [n \in Modules |-> source'[n]]
      /\ source'["dynamic"].public \subseteq {Wrapper}
  <2>1. CASE make_output_dir(p) \/ Verify(p)
    BY <2>1 DEF make_output_dir, Verify, directory, ExportsInv
  <2>2. CASE CopyDynamic(p)
    BY <2>2 DEF CopyDynamic, ExportsInv
  <2>3. CASE Transform(p)
    <3>1. run[p].item \in 2..3
      BY <2>3 DEF Transform, At, LockInv, Modest
    <3>2. Item(p) # "dynamic"
      BY <3>1, Names3 DEF Item
    <3>3. \E text : source' = [source EXCEPT ![Item(p)] = text]
      BY <2>3 DEF Transform
    <3> QED BY <3>2, <3>3 DEF ExportsInv
  <2> QED BY <2>1, <2>2, <2>3
<1>6. CASE Fails(p)
  <2>1. \A q \in Processes : Exports(run'[q])
    <3>1. Exports(run'[p])
      BY <1>6, ResetExports DEF Fails, NoFields
    <3> QED BY <1>6, <3>1 DEF Fails, Reset, ExportsInv
  <2>2. \A q \in Processes : Exports(run[q])'
    BY <1>1, <2>1 DEF Exports, Described, Visible
  <2> QED BY <1>1, <1>5, <2>2 DEF ExportsInv
<1>7. CASE ~ Fails(p)
  <2>1. Described(run'[p], 0)
    BY <1>3, <1>4, <1>7 DEF Described
  <2>2. Exports(run'[p])
    BY <1>4, <1>7, <2>1 DEF Exports, Late
  <2>3. \A q \in Processes : Exports(run[q])'
    BY <1>1, <1>4, <1>7, <2>2 DEF Exports, Described, Visible, ExportsInv
  <2> QED BY <1>1, <1>5, <2>3 DEF ExportsInv
<1> QED BY <1>6, <1>7

\* What is compiled is compiled by the owner of the lock: no other process has
\* looked at a module yet.
LEMMA CompileExports ==
  ASSUME IsRun, LockInv, ExportsInv, NEW p \in Processes, Compile(p)
  PROVE  ExportsInv'
<1>1. /\ run[p].pc = "compile" /\ run[p].item \in 1..3 /\ source' = source
      /\ Exports(run[p]) /\ run[p].id = Owner /\ run[p].id # Absent
  BY DEF Compile, At, LockInv, Modest, Locked, ExportsInv
<1>2. PICK module : /\ module.public = source[Item(p)].public
                    /\ vmfb' = [vmfb EXCEPT ![Item(p)] = module]
  <2> DEFINE module == [by |-> run[p].id, public |-> source[Item(p)].public,
                        text |-> <<Item(p), source[Item(p)]>>]
  <2>1. module.public = source[Item(p)].public
    OBVIOUS
  <2>2. vmfb' = [vmfb EXCEPT ![Item(p)] = module]
    BY DEF Compile
  <2> HIDE DEF module
  <2> QED BY <2>1, <2>2
<1>3. Moved(p, "describe", NoFields)
  BY StepRecords
<1>4. /\ run'[p].pc = "describe" /\ run'[p].item = run[p].item
      /\ run'[p].artifacts = run[p].artifacts
      /\ \A q \in Processes : q # p => run'[q] = run[q]
  BY <1>3 DEF Moved, Fields, NoFields
<1>5. vmfb'["dynamic"].public \subseteq {Wrapper}
  <2>1. DOMAIN vmfb = Modules /\ "dynamic" \in Modules
    BY Names3 DEF LockInv
  <2> QED BY <1>2, <2>1 DEF ExportsInv
<1>6. \A i \in 1..run[p].item - 1 : vmfb'[ModuleNames[i]] = vmfb[ModuleNames[i]]
  <2>1. \A i \in 1..run[p].item - 1 :
          ModuleNames[i] \in Modules /\ ModuleNames[i] # Item(p)
    BY <1>1, Names3 DEF Item
  <2> QED BY <1>2, <2>1 DEF LockInv
<1>7. ASSUME NEW q \in Processes, q # p PROVE ~ Locked(run[q])
  BY <1>1, <1>7 DEF LockInv
<1>8. ASSUME NEW q \in Processes, q # p PROVE Exports(run[q])'
  <2>1. Exports(run[q]) /\ run'[q] = run[q]
    BY <1>4, <1>8 DEF ExportsInv
  <2>2. /\ run[q].pc \notin {"compile", "describe", "exports", "numerics",
                             "session", "trials"} \cup Late
        /\ run[q].pc = "evidence" => run[q].item = 1
    BY <1>7, <1>8 DEF Locked
  <2>3. run[q].pc \in {"look", "copy", "transform", "verify", "evidence"} =>
          IsSeq(run[q].artifacts) /\ Len(run[q].artifacts) = 0
    BY <2>1, <2>2 DEF Exports, Described
  <2> QED BY <2>1, <2>2, <2>3 DEF Exports, Described
<1>9. Exports(run[p])'
  <2>1. /\ IsSeq(run[p].artifacts) /\ Len(run[p].artifacts) = run[p].item - 1
        /\ \A i \in 1..run[p].item - 1 :
             run[p].artifacts[i].exports = vmfb[ModuleNames[i]].public
    BY <1>1 DEF Exports, Described
  <2> QED BY <1>4, <1>6, <2>1 DEF Exports, Described, Late
<1> QED BY <1>1, <1>5, <1>8, <1>9 DEF ExportsInv

\* The artifacts list the exports of the modules in their order.
LEMMA DescribeExports ==
  ASSUME IsRun, LockInv, ExportsInv, NEW p \in Processes, Describe(p)
  PROVE  ExportsInv'
<1>1. /\ run[p].pc = "describe" /\ run[p].item \in 1..3
      /\ UNCHANGED <<source, vmfb>> /\ Exports(run[p])
  BY DEF Describe, At, directory, LockInv, Modest, ExportsInv
<1> DEFINE list == run[p].artifacts
           n    == run[p].item
<1>2. /\ IsSeq(list) /\ Len(list) = n - 1
      /\ \A i \in 1..n - 1 : list[i].exports = vmfb[ModuleNames[i]].public
  BY <1>1 DEF Exports, Described
<1>3. PICK artifact :
        /\ artifact.exports = vmfb[Item(p)].public
        /\ Moved(p, IF n = 3 THEN "exports" ELSE "evidence",
                 [artifacts |-> Append(list, artifact),
                  item |-> IF n = 3 THEN 1 ELSE n + 1])
  BY StepRecords
<1>4. /\ run'[p].pc = IF n = 3 THEN "exports" ELSE "evidence"
      /\ run'[p].artifacts = Append(list, artifact)
      /\ run'[p].item = IF n = 3 THEN 1 ELSE n + 1
      /\ \A q \in Processes : q # p => run'[q] = run[q]
  BY <1>3 DEF Moved, Fields
<1> HIDE DEF list
<1>5. /\ IsSeq(Append(list, artifact)) /\ Len(Append(list, artifact)) = Len(list) + 1
      /\ \A i \in 1..Len(list) : Append(list, artifact)[i] = list[i]
      /\ Append(list, artifact)[Len(list) + 1] = artifact
  BY <1>2, AppendIsSeq
<1>6. \A i \in 1..n :
        Append(list, artifact)[i].exports = vmfb[ModuleNames[i]].public
  BY <1>1, <1>2, <1>3, <1>5 DEF Item
<1>7. Described(run'[p], n)
  BY <1>1, <1>2, <1>4, <1>5, <1>6 DEF Described
<1>8. Exports(run'[p])
  BY <1>1, <1>4, <1>7 DEF Exports, Late
<1> QED BY <1>1, <1>4, <1>8, OneExports

\* The clones are where they are claimed to be, or the process ends.
LEMMA CheckExports ==
  ASSUME IsRun, ExportsInv, NEW p \in Processes, check_exports(p)
  PROVE  ExportsInv'
<1>1. run[p].pc = "exports" /\ UNCHANGED <<source, vmfb>> /\ Exports(run[p])
  BY DEF check_exports, At, directory, ExportsInv
<1>2. /\ run[p].artifacts[2].exports = vmfb["multiversioned-production"].public
      /\ run[p].artifacts[3].exports = vmfb["multiversioned-observable"].public
  BY <1>1, Names3 DEF Exports, Described
<1> DEFINE ok == /\ {Wrapper, Generic} \subseteq run[p].artifacts[2].exports
                 /\ run[p].artifacts[2].exports \cap Clones = {}
                 /\ {Wrapper, Generic} \cup Clones \subseteq
                      run[p].artifacts[3].exports
<1>3. IF ok THEN Goto(p, "numerics", NoFields) ELSE End(p, "failed")
  BY DEF check_exports
<1>4. CASE ok
  <2>1. Moved(p, "numerics", NoFields)
    BY <1>3, <1>4, GotoMoves DEF NoFields
  <2>2. Visible
    BY <1>2, <1>4 DEF Visible
  <2>3. Exports(run'[p])
    BY <2>1, <2>2 DEF Moved, Exports
  <2> QED BY <1>1, <2>1, <2>3, OneExports DEF Moved
<1>5. CASE ~ ok
  <2>1. Fails(p)
    BY <1>3, <1>5, EndResets DEF Fails
  <2> QED BY <1>1, <2>1, ResetsExports
<1> QED BY <1>4, <1>5

\* From then on the process only reads them.
LEMMA LateExports ==
  ASSUME IsRun, ExportsInv, NEW p \in Processes,
         \/ MakeEvidence(p) \/ check_numerics(p) \/ NextSession(p)
         \/ run_trial(p) \/ Measure(p) \/ MeasureEffects(p) \/ ReadControl(p)
         \/ collect_perf(p) \/ WriteSummary(p)
  PROVE  ExportsInv'
<1>1. UNCHANGED <<source, vmfb>> /\ Exports(run[p])
  BY DEF MakeEvidence, check_numerics, NextSession, run_trial, Measure,
     MeasureEffects, ReadControl, collect_perf, WriteSummary, directory,
     ExportsInv
<1>2. ASSUME NEW label, NEW fields, Moved(p, label, fields),
             run[p].pc \in {"numerics", "session", "trials"} \cup Late,
             label \in {"numerics", "session", "trials"} \cup Late
      PROVE  ExportsInv'
  <2>1. Visible
    BY <1>1, <1>2 DEF Exports
  <2>2. Exports(run'[p])
    BY <1>2, <2>1 DEF Moved, Exports, Late
  <2> QED BY <1>1, <1>2, <2>2, OneExports DEF Moved
<1>3. \A label \in Late :
        run[p].pc \in Late /\ Moved(p, label, NoFields) => ExportsInv'
  BY <1>2
<1>4. CASE MakeEvidence(p)
  <2>1. run[p].pc = "evidence" /\ (Fails(p) \/ Moved(p, "compile", NoFields))
    BY <1>4, StepRecords DEF MakeEvidence, At
  <2>2. CASE Moved(p, "compile", NoFields)
    <3>1. /\ run'[p].pc = "compile" /\ run'[p].item = run[p].item
          /\ run'[p].artifacts = run[p].artifacts
      BY <2>2 DEF Moved, Fields, NoFields
    <3>2. Exports(run'[p])
      BY <1>1, <2>1, <3>1 DEF Exports, Described, Late
    <3> QED BY <1>1, <2>2, <3>2, OneExports DEF Moved
  <2> QED BY <1>1, <2>1, <2>2, ResetsExports
<1>5. CASE check_numerics(p)
  <2>1. run[p].pc = "numerics"
    BY <1>5 DEF check_numerics, At
  <2>2. \A x, y : Moved(p, "numerics", [checked |-> x, item |-> y]) => ExportsInv'
    BY <1>2, <2>1
  <2>3. \A x : Moved(p, "session", [checked |-> x]) => ExportsInv'
    BY <1>2, <2>1
  <2> QED BY <1>5, <2>2, <2>3, StepRecords
<1>6. CASE NextSession(p)
  <2>1. run[p].pc = "session"
    BY <1>6 DEF NextSession, At
  <2>2. \A x, y : Moved(p, "trials", [session |-> x, queue |-> y]) => ExportsInv'
    BY <1>2, <2>1
  <2>3. Moved(p, "memory", NoFields) => ExportsInv'
    BY <1>2, <2>1 DEF Late
  <2> QED BY <1>6, <2>2, <2>3, StepRecords
<1>7. CASE run_trial(p)
  <2>1. run[p].pc = "trials"
    BY <1>7 DEF run_trial, At
  <2> DEFINE rest == Tail(run[p].queue)
             label == IF rest = <<>> THEN "session" ELSE "trials"
  <2>2. PICK x, y, z :
          Moved(p, label, [queue |-> x, records |-> y, disturbed |-> z])
    BY <1>7, StepRecords, Zenon
  <2> DEFINE fields == [queue |-> x, records |-> y, disturbed |-> z]
  <2>3. label \in {"session", "trials"}
    OBVIOUS
  <2>4. Moved(p, label, fields)
    BY <2>2
  <2> HIDE DEF label, fields
  <2> QED BY <1>2, <2>1, <2>3, <2>4
<1>8. CASE Measure(p) \/ collect_perf(p) \/ WriteSummary(p)
  <2>1. run[p].pc \in Late
    BY <1>8 DEF Measure, collect_perf, WriteSummary, At, Late
  <2>2. \/ \E label \in Late : Moved(p, label, NoFields)
        \/ Reset(p, "rejected", NoFields)
    BY <1>8, StepRecords DEF Late
  <2> QED BY <1>1, <1>3, <2>1, <2>2, ResetsExports
<1>9. CASE MeasureEffects(p)
  <2>1. run[p].pc = "effects"
    BY <1>9 DEF MeasureEffects, At
  <2>2. Moved(p, "control", NoFields) => ExportsInv'
    BY <1>3, <2>1 DEF Late
  <2> QED BY <1>1, <1>9, <2>2, StepRecords, ResetsExports
<1>10. CASE ReadControl(p)
  <2>1. run[p].pc = "control"
    BY <1>10 DEF ReadControl, At
  <2>2. \A x : Moved(p, "perf", [control |-> x]) => ExportsInv'
    BY <1>2, <2>1 DEF Late
  <2> QED BY <1>10, <2>2, StepRecords
<1> QED BY <1>4, <1>5, <1>6, <1>7, <1>8, <1>9, <1>10

LEMMA NextExports ==
  ASSUME IsRun, LockInv, ExportsInv, [Next]_vars PROVE ExportsInv'
<1>1. CASE HostChange \/ UNCHANGED vars
  <2>1. UNCHANGED <<run, source, vmfb>>
    BY <1>1 DEF HostChange, vars, directory
  <2> QED BY <2>1 DEF ExportsInv, Exports, Described, Visible
<1>2. ASSUME NEW p \in Processes, Step(p) PROVE ExportsInv'
  <2>1. CASE Start(p) \/ Stop(p)
    <3>1. UNCHANGED <<source, vmfb>> /\ (Start(p) \/ Fails(p))
      BY <2>1, StepRecords DEF Start, Stop, directory
    <3> QED BY <3>1, ResetsExports
  <2> QED BY <1>2, <2>1, TextExports, CompileExports, DescribeExports,
             CheckExports, LateExports DEF Step
<1> QED BY <1>1, <1>2, NextSteps

LEMMA InitExports == Init => ExportsInv
<1> SUFFICES ASSUME Init PROVE ExportsInv
  OBVIOUS
<1>1. Idle.pc = "idle"
  BY DEF Idle
<1>2. \A p \in Processes : Exports(run[p])
  BY <1>1 DEF Init, Exports, Late
<1>3. /\ source = [n \in Modules |-> source[n]]
      /\ source["dynamic"].public = {} /\ vmfb["dynamic"].public = {}
  BY Names3 DEF Init, NoText
<1> QED BY <1>2, <1>3 DEF ExportsInv

LEMMA SeenAsClaimed == ASSUME ExportsInv PROVE VisibilityAsClaimed
<1> SUFFICES ASSUME NEW p \in Processes, run[p].pc \in {"session", "done"},
                    NEW n \in Modules
             PROVE  vmfb[n].public \cap Clones =
                      IF n = "multiversioned-observable" THEN Clones ELSE {}
  BY DEF VisibilityAsClaimed
<1>1. Visible /\ vmfb["dynamic"].public \subseteq {Wrapper}
  BY DEF ExportsInv, Exports, Late
<1>2. Wrapper \notin Clones
  BY DEF Wrapper, Clones, Static
<1> QED BY <1>1, <1>2, Names3 DEF Visible

-----------------------------------------------------------------------------
(***************************************************************************)
(* The host.                                                               *)
(***************************************************************************)
\* What the files of /sys say is so when they say that all is controlled.
LEMMA ControlRead ==
  ASSUME NEW cpu, read_cpu_control(cpu).frequency, read_cpu_control(cpu).smt
  PROVE  ReallyControlled(cpu)
<1>1. cpu # NoCpu
  BY DEF read_cpu_control
<1> DEFINE frequency == /\ minimum # None /\ minimum = maximum
                        /\ no_turbo = "1"
           smt == /\ host.topology
                  /\ \A c \in host.siblings \ {cpu} : online(c) = "0"
<1>2. read_cpu_control(cpu) = [frequency |-> frequency, smt |-> smt]
  BY <1>1 DEF read_cpu_control
<1>3. frequency /\ smt
  <2> HIDE DEF frequency, smt
  <2>1. /\ read_cpu_control(cpu).frequency = frequency
        /\ read_cpu_control(cpu).smt = smt
    BY <1>2
  <2> QED BY <2>1, Zenon
<1>4. host.min = host.max /\ ~ host.turbo
  BY <1>3 DEF minimum, maximum, no_turbo, None
<1>5. \A c \in host.siblings \ {cpu} : c \notin host.online
  BY <1>3 DEF online, None
<1> QED BY <1>1, <1>4, <1>5 DEF ReallyControlled

\* A trial is disturbed if the processor is not controlled while it runs.
LEMMA TrialControl ==
  ASSUME IsRun, NEW p \in Processes, run_trial(p), Control(run[p]), host' = host
  PROVE  /\ Control(run'[p]) /\ \A q \in Processes : q # p => run'[q] = run[q]
<1> DEFINE rest == Tail(run[p].queue)
           label == IF rest = <<>> THEN "session" ELSE "trials"
<1>1. PICK x, y :
        Moved(p, label, [queue |-> x, records |-> y,
                         disturbed |-> \/ run[p].disturbed
                                       \/ ~ ReallyControlled(run[p].cpu)])
  BY StepRecords, Zenon
<1> DEFINE fields == [queue |-> x, records |-> y,
                      disturbed |-> \/ run[p].disturbed
                                    \/ ~ ReallyControlled(run[p].cpu)]
<1>2. label \notin {"perf", "summary", "done"}
  OBVIOUS
<1>3. fields["disturbed"] = (run[p].disturbed \/ ~ ReallyControlled(run[p].cpu))
  OBVIOUS
<1>4. "disturbed" \in DOMAIN fields /\ "cpu" \notin DOMAIN fields
  OBVIOUS
<1>5. Moved(p, label, fields)
  BY <1>1
<1> HIDE DEF label, fields
<1>6. /\ run'[p].disturbed = fields["disturbed"]
      /\ run'[p].cpu = run[p].cpu /\ run'[p].pc = label
      /\ \A q \in Processes : q # p => run'[q] = run[q]
  BY <1>4, <1>5 DEF Moved, Fields
<1>7. run'[p].disturbed => ~ ReallyControlled(run'[p].cpu)
  BY <1>3, <1>6 DEF Control
<1> QED BY <1>2, <1>6, <1>7 DEF Control

LEMMA StepControl ==
  ASSUME IsRun, NEW p \in Processes, Step(p), Control(run[p])
  PROVE  Control(run'[p]) /\ \A q \in Processes : q # p => run'[q] = run[q]
<1>1. CASE run_trial(p)
  BY <1>1, TrialControl DEF run_trial
<1>2. CASE ReadControl(p)
  <2>1. Moved(p, "perf", [control |-> read_cpu_control(run[p].cpu)])
    BY <1>2, StepRecords
  <2>2. /\ run'[p].control = read_cpu_control(run[p].cpu)
        /\ run'[p].cpu = run[p].cpu /\ run'[p].disturbed = run[p].disturbed
        /\ \A q \in Processes : q # p => run'[q] = run[q]
    BY <2>1 DEF Moved, Fields
  <2> QED BY <2>2, ControlRead DEF Control
<1>3. ASSUME NEW label, NEW fields, Reset(p, label, fields),
             "disturbed" \notin DOMAIN fields,
             label \in {"failed", "rejected", "look"}
      PROVE  Control(run'[p]) /\ \A q \in Processes : q # p => run'[q] = run[q]
  <2>1. ~ run'[p].disturbed /\ run'[p].pc = label
    BY <1>3 DEF Reset, Fields, Idle
  <2> QED BY <1>3, <2>1 DEF Reset, Control
<1>4. ASSUME NEW label, NEW fields, Moved(p, label, fields),
             DOMAIN fields \cap {"disturbed", "cpu", "control"} = {},
             label \in {"summary", "done"} => run[p].pc \in {"perf", "summary"},
             label # "perf"
      PROVE  Control(run'[p]) /\ \A q \in Processes : q # p => run'[q] = run[q]
  <2>1. /\ run'[p].disturbed = run[p].disturbed /\ run'[p].cpu = run[p].cpu
        /\ run'[p].control = run[p].control /\ run'[p].pc = label
    BY <1>4 DEF Moved, Fields
  <2> QED BY <1>4, <2>1 DEF Moved, Control
<1> DEFINE Goal == Control(run'[p]) /\ \A q \in Processes : q # p => run'[q] = run[q]
<1>5. (Fails(p) \/ Reset(p, "rejected", NoFields)) => Goal
  BY <1>3 DEF Fails, NoFields
<1>6. \A label \in {"copy", "verify", "compile", "describe", "numerics", "memory",
                    "effects", "control"} : Moved(p, label, NoFields) => Goal
  BY <1>4 DEF NoFields
<1>7. CASE Start(p)
  <2>1. PICK sessions \in SessionCounts, cpu \in Cpus :
          Reset(p, IF sessions < 2 THEN "rejected" ELSE "look",
                [id |-> attempts + 1, sessions |-> sessions, cpu |-> cpu])
    BY <1>7, StepRecords
  <2> DEFINE label == IF sessions < 2 THEN "rejected" ELSE "look"
             fields == [id |-> attempts + 1, sessions |-> sessions, cpu |-> cpu]
  <2>2. label \in {"failed", "rejected", "look"} /\ "disturbed" \notin DOMAIN fields
    OBVIOUS
  <2>3. Reset(p, label, fields)
    BY <2>1
  <2> HIDE DEF label, fields
  <2> QED BY <1>3, <2>2, <2>3
<1>8. CASE \/ Stop(p) \/ make_output_dir(p) \/ Transform(p) \/ MakeEvidence(p)
           \/ Compile(p) \/ check_exports(p) \/ Measure(p)
  <2>1. \/ Fails(p) \/ Reset(p, "rejected", NoFields)
        \/ \E label \in {"copy", "verify", "compile", "describe", "numerics",
                         "memory", "effects"} : Moved(p, label, NoFields)
    BY <1>8, StepRecords
  <2> QED BY <1>5, <1>6, <2>1
<1>9. CASE CopyDynamic(p) \/ Verify(p)
  <2>1. \A label \in {"transform", "evidence"} : \A x :
          Moved(p, label, [item |-> x]) => Goal
    BY <1>4
  <2>2. \E label \in {"transform", "evidence"} : \E x : Moved(p, label, [item |-> x])
    BY <1>9, StepRecords
  <2> HIDE DEF Goal
  <2>3. Goal
    BY <2>1, <2>2
  <2> QED BY <2>3 DEF Goal
<1>10. CASE Describe(p)
  <2>1. PICK artifact :
          Moved(p, IF run[p].item = 3 THEN "exports" ELSE "evidence",
                [artifacts |-> Append(run[p].artifacts, artifact),
                 item |-> IF run[p].item = 3 THEN 1 ELSE run[p].item + 1])
    BY <1>10, StepRecords
  <2> DEFINE label == IF run[p].item = 3 THEN "exports" ELSE "evidence"
             fields == [artifacts |-> Append(run[p].artifacts, artifact),
                        item |-> IF run[p].item = 3 THEN 1 ELSE run[p].item + 1]
  <2>2. Moved(p, label, fields)
    BY <2>1
  <2>3. /\ DOMAIN fields \cap {"disturbed", "cpu", "control"} = {}
        /\ label \notin {"perf", "summary", "done"}
    OBVIOUS
  <2> HIDE DEF label, fields
  <2> QED BY <1>4, <2>2, <2>3
<1>11. CASE check_numerics(p)
  <2>1. \A x, y : Moved(p, "numerics", [checked |-> x, item |-> y]) => Goal
    BY <1>4
  <2>2. \A x : Moved(p, "session", [checked |-> x]) => Goal
    BY <1>4
  <2> QED BY <1>11, <2>1, <2>2, StepRecords
<1>12. CASE NextSession(p)
  <2>1. \A x, y : Moved(p, "trials", [session |-> x, queue |-> y]) => Goal
    BY <1>4
  <2> QED BY <1>6, <1>12, <2>1, StepRecords
<1>13. CASE MeasureEffects(p)
  BY <1>5, <1>6, <1>13, StepRecords
<1>14. CASE collect_perf(p) \/ WriteSummary(p)
  <2>1. /\ run[p].pc \in {"perf", "summary"}
        /\ \E label \in {"summary", "done"} : Moved(p, label, NoFields)
    BY <1>14, StepRecords DEF collect_perf, WriteSummary, At
  <2> QED BY <1>4, <2>1 DEF NoFields
<1> QED BY <1>1, <1>2, <1>7, <1>8, <1>9, <1>10, <1>11, <1>12, <1>13, <1>14 DEF Step

LEMMA NextControl ==
  ASSUME IsRun, ControlInv, [Next]_vars PROVE ControlInv'
<1>1. CASE HostChange
  BY <1>1 DEF HostChange, ControlInv
<1>2. CASE UNCHANGED vars
  BY <1>2 DEF vars, ControlInv, Control, ReallyControlled
<1>3. ASSUME NEW p \in Processes, Step(p) PROVE ControlInv'
  <2>1. UNCHANGED <<host, hostChanges>>
    BY <1>3 DEF Step, Start, Stop, make_output_dir, CopyDynamic, Transform, Verify,
       MakeEvidence, Compile, Describe, check_exports, check_numerics, run_trial,
       NextSession, Measure, MeasureEffects, ReadControl, collect_perf,
       WriteSummary
  <2>2. ASSUME hostChanges = 0, NEW q \in Processes PROVE Control(run'[q])
    BY <1>3, <2>2, StepControl DEF ControlInv
  <2>3. \A q \in Processes : Control(run'[q]) => Control(run[q])'
    BY <2>1 DEF Control, ReallyControlled
  <2> QED BY <2>1, <2>2, <2>3 DEF ControlInv
<1> QED BY <1>1, <1>2, <1>3, NextSteps

LEMMA InitControl == Init => ControlInv
<1> SUFFICES ASSUME Init PROVE ControlInv
  OBVIOUS
<1>1. ~ Idle.disturbed /\ Idle.pc = "idle"
  BY DEF Idle
<1> QED BY <1>1 DEF Init, ControlInv, Control

LEMMA MeasuredControlled == ASSUME ControlInv PROVE ControlledTrials
BY DEF ControlInv, Control, ControlledTrials, controlled, At

LEMMA DoneComplete == ASSUME ProgressInv PROVE SummaryComplete
<1> SUFFICES ASSUME NEW p \in Processes, At(p, "done")
             PROVE  /\ run[p].checked = Specs
                    /\ \A spec \in Specs :
                         run[p].records[spec] = [i \in 1..run[p].sessions |-> i]
  BY DEF SummaryComplete
<1>1. run[p].checked = Specs /\ Timed(run[p], run[p].sessions)
  BY DEF ProgressInv, Progress, At, Late
<1>2. \A spec \in Specs : \E i \in DOMAIN specs : spec = specs[i]
  BY DEF Specs, SE!ToSet
<1> QED BY <1>1, <1>2 DEF Timed, Upto

-----------------------------------------------------------------------------
\* The invariant holds in every state, whatever is started, stopped or
\* changed.
THEOREM Invariant == Spec => []IInv
<1>1. Init => IInv
  BY InitProgress, InitLock, InitExports, InitControl DEF IInv
<1>2. IInv /\ [Next]_vars => IInv'
  BY NextProgress, NextLock, NextExports, NextControl DEF IInv
<1> QED BY <1>1, <1>2, PTL DEF Spec

\* However many processes are started in one directory, in whatever order
\* they step: what is in it and what is measured is of one invocation.
THEOREM OneMeasuresTheorem == Spec => []OneMeasures
<1>1. IInv => OneMeasures
  BY LockedMeasures DEF IInv
<1> QED BY <1>1, Invariant, PTL

\* A summary is about every path, checked and timed once in each session.
THEOREM SummaryCompleteTheorem == Spec => []SummaryComplete
<1>1. IInv => SummaryComplete
  BY DoneComplete DEF IInv
<1> QED BY <1>1, Invariant, PTL

\* The modules that are measured export the clones as the report says,
\* whatever the plugin did.
THEOREM VisibilityTheorem == Spec => []VisibilityAsClaimed
<1>1. IInv => VisibilityAsClaimed
  BY SeenAsClaimed DEF IInv
<1> QED BY <1>1, Invariant, PTL

\* A report of a controlled processor is about undisturbed trials, if the host
\* was left alone: no file that is missing is taken for evidence.
THEOREM ControlledTheorem == Spec => []ControlledTrials
<1>1. IInv => ControlledTrials
  BY MeasuredControlled DEF IInv
<1> QED BY <1>1, Invariant, PTL

=============================================================================
