------------------------------- MODULE Campaign -------------------------------
(***************************************************************************)
(* A benchmark campaign: scripts/run_final_campaign.sh with the programs   *)
(* it runs for each block of the schedule (benchmark_cli.py on this host,  *)
(* resource_monitor.py on the server) and afterwards (experiment.py's and  *)
(* resource_report.py's merging).  The script may be interrupted, or end   *)
(* because a command failed, anywhere, and is then started again; what it  *)
(* left on either host stays there.                                        *)
(***************************************************************************)
EXTENDS Schedule

CONSTANTS
  Rounds,        \* rounds of the schedule
  Repetitions,   \* repetitions in one block
  MaxAttempts,   \* benchmark_cli's --max-attempts
  Settings,      \* values of the variables that decide what is measured
  MaxFaults      \* bound: things that go wrong

ASSUME CampaignAssumption ==
  /\ {Rounds, Repetitions, MaxAttempts} \subseteq Nat \ {0}
  /\ Settings \subseteq Nat \ {0} /\ Settings # {}
  /\ MaxFaults \in Nat
  /\ Rounds * Cardinality(Modes) < 100   \* a block's name begins with two digits: names sort as numbers do

VARIABLES
  rounds,     \* the schedule: the order of modes in each round
  bench,      \* [Blocks -> blocks/<block>.json]
  resource,   \* [Blocks -> resources/<block>.json]
  remote,     \* [Blocks -> the monitor's output and stop file on the server]
  monitors,   \* the monitor processes that run on the server
  runs,       \* [Blocks -> how often the block was begun]
  script,     \* the script: what it does, for which block, and which modes remain
  cli,        \* the progress of benchmark_cli
  merged,     \* [Modes -> merged/<mode>.json and <mode>-resources.json]
  setting,    \* the setting the script was started with
  faults,     \* what went wrong so far
  shared      \* history: blocks for which two monitors ran at a time

hostVars == <<bench, resource, merged>>
serverVars == <<remote, monitors, runs, shared>>
vars == <<rounds, hostVars, serverVars, script, cli, setting, faults>>

(***************************************************************************)
(* Blocks and files                                                        *)
(***************************************************************************)

Blocks == 1 .. Rounds * Cardinality(Modes)

BlockOf(round, mode) ==
  LET place == CHOOSE p \in Places : rounds[round][p] = mode
  IN (round - 1) * Cardinality(Modes) + place

\* A document names the run of its block that made it; run 0 is no file.  What
\* a benchmark document says of failed attempts is a set of <<step, attempt>>.
Protocols == 3    \* latency, tcp, udp

StepsOfBlock == Protocols * Repetitions

Benchmark == [run : Nat, setting : Settings \cup {0}, failures : SUBSET ((0 .. StepsOfBlock) \X Nat)]

NoBenchmark == [run |-> 0, setting |-> 0, failures |-> {}]

Resource == [run : Nat, whole : BOOLEAN]

NoResource == [run |-> 0, whole |-> FALSE]

NoMerge == [benchmarks |-> << >>, resources |-> << >>]

Script == [at : {"down", "plan", "block", "measure", "stop", "wait", "copy",
                 "merge", "merge_resources", "done"},
           block : Blocks \cup {0}, failed : BOOLEAN, left : SUBSET Modes]

Idle == [done |-> 0, attempt |-> 1, failures |-> {}]

Down == [at |-> "down", block |-> 0, failed |-> FALSE, left |-> {}]

GoTo(at) == script' = [script EXCEPT !.at = at]

NextBlock ==
  script' = IF script.block + 1 \in Blocks
              THEN [Down EXCEPT !.at = "block", !.block = script.block + 1]
              ELSE [Down EXCEPT !.at = "merge", !.left = Modes]

\* Bug: one of the two files is enough.
CompleteByHalf(block) == bench[block].run # 0 \/ resource[block].run # 0

\* Bug: every start measures everything again.
CompleteNever(block) == FALSE

\* test -s of both files.
Complete(block) == bench[block].run # 0 /\ resource[block].run # 0

Init ==
  /\ rounds = << >>
  /\ bench = [b \in Blocks |-> NoBenchmark]
  /\ resource = [b \in Blocks |-> NoResource]
  /\ remote = [b \in Blocks |-> [out |-> NoResource, stop |-> FALSE]]
  /\ monitors = {}
  /\ runs = [b \in Blocks |-> 0]
  /\ script = Down
  /\ cli = Idle
  /\ merged = [mode \in Modes |-> NoMerge]
  /\ setting \in Settings
  /\ faults = 0
  /\ shared = {}

Goes(wrong) ==
  /\ faults + wrong <= MaxFaults
  /\ faults' = faults + wrong

(***************************************************************************)
(* The script                                                              *)
(***************************************************************************)

\* A start goes on with the schedule it finds.  The operator may have changed
\* the variables.
Start ==
  /\ script.at = "down"
  /\ script' = IF Len(rounds) = Rounds THEN [Down EXCEPT !.at = "block", !.block = 1]
                                       ELSE [Down EXCEPT !.at = "plan"]
  /\ \E new \in Settings :
       /\ setting' = new
       /\ Goes(IF new = setting THEN 0 ELSE 1)
  /\ UNCHANGED <<rounds, hostVars, serverVars, cli>>

\* experiment_cli schedule, one round of the loop; the file appears complete.
PlanRound ==
  /\ script.at = "plan"
  /\ \E order \in Orders : rounds' = Append(rounds, NextRound(rounds, order))
  /\ script' = IF Len(rounds') = Rounds THEN [script EXCEPT !.at = "block", !.block = 1] ELSE script
  /\ UNCHANGED <<hostVars, serverVars, cli, setting, faults>>

Skip ==
  /\ script.at = "block"
  /\ Complete(script.block)
  /\ NextBlock
  /\ UNCHANGED <<rounds, hostVars, serverVars, cli, setting, faults>>

Begin(files) ==
  LET block == script.block IN
  /\ script.at = "block"
  /\ ~ Complete(block)
  /\ remote' = [remote EXCEPT ![block] = files]
  /\ runs' = [runs EXCEPT ![block] = @ + 1]
  /\ monitors' = monitors \cup {[block |-> block, run |-> runs'[block], stopping |-> FALSE]}
  /\ shared' = IF \E m \in monitors : m.block = block THEN shared \cup {block} ELSE shared
  /\ cli' = Idle
  /\ GoTo("measure")
  /\ UNCHANGED <<rounds, hostVars, setting, faults>>

\* Bug: the files of an earlier run are not removed.
StartMonitorKeeping == Begin(remote[script.block])

\* rm -f of both files, then a monitor in the background.
StartMonitor == Begin([out |-> NoResource, stop |-> FALSE])

\* stop_remote_monitor: touch, after the benchmark succeeded or failed.
TouchStop ==
  /\ script.at = "stop"
  /\ remote' = [remote EXCEPT ![script.block].stop = TRUE]
  /\ GoTo("wait")
  /\ UNCHANGED <<rounds, hostVars, monitors, runs, shared, cli, setting, faults>>

\* The output is there; after a failed benchmark the script ends.
MonitorIsDone ==
  /\ script.at = "wait"
  /\ remote[script.block].out.run # 0
  /\ script' = IF script.failed THEN Down ELSE [script EXCEPT !.at = "copy"]
  /\ UNCHANGED <<rounds, hostVars, serverVars, cli, setting, faults>>

\* Sixty times it was not: the script ends.
MonitorIsLost ==
  /\ script.at = "wait"
  /\ remote[script.block].out.run = 0
  /\ \A m \in monitors : m.block # script.block
  /\ script' = Down
  /\ UNCHANGED <<rounds, hostVars, serverVars, cli, setting, faults>>

\* scp of the monitor's document.
Copy ==
  /\ script.at = "copy"
  /\ resource' = [resource EXCEPT ![script.block] = remote[script.block].out]
  /\ NextBlock
  /\ UNCHANGED <<rounds, bench, merged, serverVars, cli, setting, faults>>

\* scp is cut short; what it has written stays.
CopyPartly ==
  /\ script.at = "copy"
  /\ Goes(1)
  /\ resource' = [resource EXCEPT ![script.block] = [remote[script.block].out EXCEPT !.whole = FALSE]]
  /\ script' = Down
  /\ UNCHANGED <<rounds, bench, merged, serverVars, cli, setting>>

\* An interrupt, or a command that fails (set -e): the script and what it runs
\* on this host end.  A schedule that is not written is lost.
Abort ==
  /\ script.at \notin {"down", "done"}
  /\ Goes(1)
  /\ rounds' = IF script.at = "plan" THEN << >> ELSE rounds
  /\ script' = Down
  /\ UNCHANGED <<hostVars, serverVars, cli, setting>>

(***************************************************************************)
(* benchmark_cli: Repetitions pings, then TCP, then UDP transfers          *)
(***************************************************************************)

Measuring == script.at = "measure" /\ cli.done < StepsOfBlock

BenchmarkVars == <<rounds, hostVars, serverVars, setting>>

Measure ==
  /\ Measuring
  /\ cli' = [cli EXCEPT !.done = @ + 1, !.attempt = 1]
  /\ UNCHANGED <<BenchmarkVars, script, faults>>

BenchmarkFails == script' = [script EXCEPT !.at = "stop", !.failed = TRUE]

\* _run_latency has no second attempt.
PingFails ==
  /\ Measuring
  /\ cli.done < Repetitions
  /\ Goes(1)
  /\ BenchmarkFails
  /\ UNCHANGED <<BenchmarkVars, cli>>

\* Bug: one attempt too many.
AttemptsLeftLate == cli.attempt <= MaxAttempts

AttemptsLeft == cli.attempt < MaxAttempts

\* _run_iperf records the failure, and gives up after the last attempt.
TransferFails ==
  /\ Measuring
  /\ cli.done >= Repetitions
  /\ Goes(1)
  /\ cli' = [cli EXCEPT !.failures = @ \cup {<<cli.done, cli.attempt>>},
                        !.attempt = IF AttemptsLeft THEN @ + 1 ELSE @]
  /\ IF AttemptsLeft THEN UNCHANGED script ELSE BenchmarkFails
  /\ UNCHANGED BenchmarkVars

\* The document is written beside and renamed.
WriteBenchmark ==
  /\ script.at = "measure"
  /\ cli.done = StepsOfBlock
  /\ bench' = [bench EXCEPT ![script.block] =
                 [run |-> runs[script.block], setting |-> setting, failures |-> cli.failures]]
  /\ GoTo("stop")
  /\ UNCHANGED <<rounds, resource, merged, serverVars, cli, setting, faults>>

(***************************************************************************)
(* resource_monitor, on the server                                         *)
(***************************************************************************)

\* The loop of collect_samples ends.
MonitorSeesStop(m) ==
  /\ ~ m.stopping
  /\ remote[m.block].stop
  /\ monitors' = (monitors \ {m}) \cup {[m EXCEPT !.stopping = TRUE]}
  /\ UNCHANGED <<rounds, hostVars, remote, runs, shared, script, cli, setting, faults>>

\* The document is written beside and renamed, whatever has become of the stop
\* file.  Two monitors of a block use the same temporary file, and the first to
\* rename it may publish what the other has half written.
MonitorStops(m) ==
  /\ m.stopping
  /\ \E whole \in BOOLEAN :
       /\ whole \/ \E other \in monitors \ {m} : other.block = m.block
       /\ remote' = [remote EXCEPT ![m.block].out = [run |-> m.run, whole |-> whole]]
  /\ monitors' = monitors \ {m}
  /\ UNCHANGED <<rounds, hostVars, runs, shared, script, cli, setting, faults>>

MonitorDies(m) ==
  /\ Goes(1)
  /\ monitors' = monitors \ {m}
  /\ UNCHANGED <<rounds, hostVars, remote, runs, shared, script, cli, setting>>

(***************************************************************************)
(* Merging                                                                 *)
(***************************************************************************)

\* The blocks of a mode in the order of their names: one of each round.
BlocksOf(mode) == [round \in 1 .. Rounds |-> BlockOf(round, mode)]

\* Bug: the parameters of the blocks are not compared.
ComparableAlways(documents) == TRUE

\* merge_benchmark_blocks: COMPARABILITY_FIELDS are those of the first block.
Comparable(documents) ==
  \A i \in DOMAIN documents : documents[i].setting = documents[1].setting

AllFound(mode) ==
  \A i \in 1 .. Rounds : bench[BlocksOf(mode)[i]].run # 0 /\ resource[BlocksOf(mode)[i]].run # 0

BenchmarksOf(mode) == [i \in 1 .. Rounds |-> bench[BlocksOf(mode)[i]]]

ResourcesOf(mode) == [i \in 1 .. Rounds |-> resource[BlocksOf(mode)[i]]]

\* The script takes the modes one after the other, always in the same order.
NextMode == CHOOSE first \in script.left : TRUE

MergeBenchmarks(mode) ==
  /\ script.at = "merge"
  /\ script.left # {} /\ mode = NextMode
  /\ IF AllFound(mode) /\ Comparable(BenchmarksOf(mode))
       THEN /\ merged' = [merged EXCEPT ![mode].benchmarks = BenchmarksOf(mode)]
            /\ GoTo("merge_resources")
       ELSE /\ script' = Down
            /\ UNCHANGED merged
  /\ UNCHANGED <<rounds, bench, resource, serverVars, cli, setting, faults>>

\* resource_report: a document that does not parse ends it, and the script.
MergeResources(mode) ==
  /\ script.at = "merge_resources"
  /\ mode = NextMode
  /\ IF \A i \in 1 .. Rounds : ResourcesOf(mode)[i].whole
       THEN /\ merged' = [merged EXCEPT ![mode].resources = ResourcesOf(mode)]
            /\ script' = [script EXCEPT !.at = "merge", !.left = @ \ {mode}]
       ELSE /\ script' = Down
            /\ UNCHANGED merged
  /\ UNCHANGED <<rounds, bench, resource, serverVars, cli, setting, faults>>

\* benchmark_report over all modes.
Report ==
  /\ script.at = "merge"
  /\ script.left = {}
  /\ GoTo("done")
  /\ UNCHANGED <<rounds, hostVars, serverVars, cli, setting, faults>>

ScriptStep ==
  \/ PlanRound \/ Skip \/ StartMonitor \/ TouchStop \/ MonitorIsDone \/ MonitorIsLost \/ Copy
  \/ Measure \/ WriteBenchmark
  \/ \E mode \in Modes : MergeBenchmarks(mode) \/ MergeResources(mode)
  \/ Report

Next ==
  \/ Start
  \/ ScriptStep
  \/ PingFails \/ TransferFails
  \/ CopyPartly
  \/ Abort
  \/ \E m \in monitors : MonitorSeesStop(m) \/ MonitorStops(m) \/ MonitorDies(m)

\* The operator starts an unfinished campaign again, its programs come to an
\* end, and a monitor looks at its stop file every second.
Fairness ==
  /\ WF_vars(Start)
  /\ WF_vars(ScriptStep)
  /\ WF_vars(\E m \in monitors : MonitorSeesStop(m) \/ MonitorStops(m))

Spec == Init /\ [][Next]_vars

FairSpec == Spec /\ Fairness

(***************************************************************************)
(* Properties                                                              *)
(***************************************************************************)

\* Type invariant: never more than MaxAttempts attempts of a step.
TypeOK ==
  /\ rounds \in Seq(Orders) /\ Len(rounds) <= Rounds
  /\ bench \in [Blocks -> Benchmark]
  /\ resource \in [Blocks -> Resource]
  /\ remote \in [Blocks -> [out : Resource, stop : BOOLEAN]]
  /\ monitors \subseteq [block : Blocks, run : Nat, stopping : BOOLEAN]
  /\ runs \in [Blocks -> Nat]
  /\ script \in Script
  /\ cli \in [done : 0 .. StepsOfBlock, attempt : 1 .. MaxAttempts,
              failures : SUBSET ((0 .. StepsOfBlock) \X (1 .. MaxAttempts))]
  /\ merged \in [Modes -> [benchmarks : Seq(Benchmark), resources : Seq(Resource)]]
  /\ setting \in Settings
  /\ faults \in 0 .. MaxFaults
  /\ shared \subseteq Blocks

\* However often planning is begun again, every mode has one block in each
\* round and no mode follows itself, across rounds either
\* (docs/evaluation-methodology.md, "Experimental design").
Balanced ==
  /\ \A r \in 1 .. Len(rounds) : rounds[r] \in Orders
  /\ \A r \in 2 .. Len(rounds) : rounds[r][1] # LastOf(rounds[r - 1])

\* "Interrupted campaigns are resumed without replacing completed blocks"
\* (docs/evaluation-methodology.md): once both files of a block are there,
\* neither changes, whatever is started again.
CompletedIsKept ==
  [][\A b \in Blocks :
       bench[b].run # 0 /\ resource[b].run # 0 =>
         bench'[b] = bench[b] /\ resource'[b] = resource[b]]_vars

\* The resources of a complete block were measured during the very run its
\* benchmark results are from, although either may have been left behind by a
\* run that was cut short; unless a monitor of an earlier run was still there.
ResourcesMatch ==
  \A b \in Blocks :
    bench[b].run # 0 /\ resource[b].run # 0 =>
      resource[b].run = bench[b].run \/ b \in shared

\* What a merged pair of documents is made of: one block of each round, in the
\* order of rounds (final_analysis.py pairs the modes by this order), measured
\* with one setting, and the resources of the same runs.
MergedIsSound ==
  \A mode \in Modes :
    /\ merged[mode].benchmarks # << >> =>
         /\ merged[mode].benchmarks = BenchmarksOf(mode)
         /\ \A i, j \in 1 .. Rounds :
              merged[mode].benchmarks[i].setting = merged[mode].benchmarks[j].setting
    /\ merged[mode].resources # << >> =>
         \A i \in 1 .. Rounds :
           /\ merged[mode].resources[i].whole
           /\ \/ merged[mode].resources[i].run = merged[mode].benchmarks[i].run
              \/ BlocksOf(mode)[i] \in shared

\* A campaign that is started again whenever it stops comes to its end, unless
\* a resource document was cut short or the setting was changed: the script
\* takes such blocks for complete.
Spoiled ==
  \/ \E b \in Blocks : resource[b].run # 0 /\ ~ resource[b].whole
  \/ \E b, c \in Blocks : bench[b].run # 0 /\ bench[c].run # 0 /\ bench[b].setting # bench[c].setting

CampaignFinishes == <>(script.at = "done" \/ Spoiled)
=============================================================================
