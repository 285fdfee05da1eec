--------------------------- MODULE MCCausalityBench ---------------------------
(***************************************************************************)
(* Small instances of CausalityBench: one target length, two sessions,     *)
(* two orders, and hosts that differ from a controlled one.                *)
(***************************************************************************)
EXTENDS CausalityBench, TLC

CONSTANTS p1, p2

MCProcesses == {p1, p2}
MCSymmetry  == Permutations(MCProcesses)
MCTargets   == <<256>>

Given    == [i \in DOMAIN specs |-> i]
MCOrders == {Given, SE!Reverse(Given)}

\* The other thread of processor 0 is processor 1, which is offline.
Quiet == [min |-> "low", max |-> "low", turbo |-> FALSE,
          siblings |-> {0, 1}, online |-> {0}, cpufreq |-> TRUE,
          intel_pstate |-> TRUE, topology |-> TRUE, hotplug |-> {1}]

\* Another driver, whose boost is on; a thread that runs and cannot be taken
\* offline; a clock that varies, or a thread that runs, where no file tells.
OtherCpu   == [Quiet EXCEPT !.turbo = TRUE, !.intel_pstate = FALSE]
NoHotplug  == [Quiet EXCEPT !.online = {0, 1}, !.hotplug = {}]
NoCpufreq  == [Quiet EXCEPT !.max = "high", !.cpufreq = FALSE]
NoTopology == [Quiet EXCEPT !.online = {0, 1}, !.topology = FALSE]

MCHosts == {Quiet, OtherCpu, NoHotplug, NoCpufreq, NoTopology}

=============================================================================
