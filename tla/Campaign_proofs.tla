---------------------------- MODULE Campaign_proofs ----------------------------
(***************************************************************************)
(* Proofs about Campaign, for any modes, rounds, repetitions, attempts,    *)
(* settings and faults.                                                    *)
(***************************************************************************)
EXTENDS Campaign, SequenceTheorems, FiniteSetTheorems, TLAPS

(***************************************************************************)
(* The schedule.                                                           *)
(***************************************************************************)

LEMMA TwoPlaces ==
  /\ Cardinality(Modes) \in Nat
  /\ {1, 2} \subseteq Places
  /\ Places \subseteq Nat \ {0}
  /\ Cardinality(Modes) \in Places
<1>1. Cardinality(Modes) \in Nat /\ Cardinality(Modes) >= 2
  BY ModesAssumption, FS_CardinalityType
<1> QED
  BY <1>1 DEF Places

\* A round has a block of every mode: an order takes no mode twice, so that it
\* leaves none out.
LEMMA EveryModeHasAPlace ==
  ASSUME NEW order \in Orders, NEW mode \in Modes
  PROVE  \E p \in Places : order[p] = mode
<1>1. order \in Injection(Places, Modes)
  BY DEF Orders, Injection, IsInjective
<1>2. Cardinality(Places) = Cardinality(Modes)
  BY TwoPlaces, FS_Interval DEF Places
<1>3. order \in Surjection(Places, Modes)
  BY <1>1, <1>2, ModesAssumption, FS_Injection
<1> QED
  BY <1>3 DEF Surjection

\* The repair finds a mode to change places with.
LEMMA SwapIndexIsAPlace ==
  ASSUME NEW order \in Orders
  PROVE  /\ SwapIndex(order, order[1]) \in Places \ {1}
         /\ order[SwapIndex(order, order[1])] # order[1]
<1> DEFINE Fits(i) == order[i] # order[1] /\ \A j \in Places \ {1} : j < i => order[j] = order[1]
<1>1. 2 \in Places \ {1} /\ order[2] # order[1]
  BY TwoPlaces DEF Orders
<1>2. \A j \in Places \ {1} : ~ j < 2
  BY TwoPlaces
<1>3. Fits(2)
  BY <1>1, <1>2
<1>4. \E i \in Places \ {1} : Fits(i)
  BY <1>1, <1>3
<1>5. SwapIndex(order, order[1]) = CHOOSE i \in Places \ {1} : Fits(i)
  BY DEF SwapIndex
<1> QED
  BY <1>4, <1>5

LEMMA SwappedIsAnOrder ==
  ASSUME NEW order \in Orders, NEW i \in Places, NEW j \in Places, i # j
  PROVE  /\ Swapped(order, i, j) \in Orders
         /\ Swapped(order, i, j)[i] = order[j]
<1>1. order \in [Places -> Modes] /\ \A k, l \in Places : order[k] = order[l] => k = l
  BY DEF Orders
<1>2. Swapped(order, i, j) \in [Places -> Modes]
  BY <1>1 DEF Swapped
<1>3. \A k \in Places : Swapped(order, i, j)[k] = IF k = j THEN order[i] ELSE IF k = i THEN order[j] ELSE order[k]
  BY <1>1 DEF Swapped
<1>4. \A k, l \in Places : Swapped(order, i, j)[k] = Swapped(order, i, j)[l] => k = l
  BY <1>1, <1>3
<1> QED
  BY <1>2, <1>3, <1>4 DEF Orders

\* A round never begins with the mode the round before ended with.
LEMMA RepairedIsAnOrder ==
  ASSUME NEW order \in Orders, NEW previous
  PROVE  Repaired(order, previous) \in Orders /\ Repaired(order, previous)[1] # previous
<1>1. CASE order[1] = previous
  <2>1. SwapIndex(order, previous) \in Places \ {1} /\ order[SwapIndex(order, previous)] # previous
    BY <1>1, SwapIndexIsAPlace
  <2>2. Repaired(order, previous) = Swapped(order, 1, SwapIndex(order, previous))
    BY <1>1 DEF Repaired
  <2> DEFINE there == SwapIndex(order, previous)
  <2> HIDE DEF there
  <2>3. 1 \in Places /\ there \in Places /\ 1 # there
    BY <2>1, TwoPlaces DEF there
  <2>4. Swapped(order, 1, there) \in Orders /\ Swapped(order, 1, there)[1] = order[there]
    BY <2>3, SwappedIsAnOrder
  <2> QED
    BY <2>1, <2>2, <2>4 DEF there
<1>2. CASE order[1] # previous
  BY <1>2 DEF Repaired
<1> QED
  BY <1>1, <1>2

LEMMA NextRoundFollows ==
  ASSUME NEW seq \in Seq(Orders), NEW order \in Orders
  PROVE  /\ NextRound(seq, order) \in Orders
         /\ seq # << >> => NextRound(seq, order)[1] # LastOf(seq[Len(seq)])
BY RepairedIsAnOrder DEF NextRound

(***************************************************************************)
(* The blocks.                                                             *)
(***************************************************************************)

LEMMA Monotonic ==
  ASSUME NEW a \in Nat, NEW b \in Nat, NEW c \in Nat, a <= b
  PROVE  a * c <= b * c
<1>1. PICK d \in Nat : b = a + d
  BY SMT
<1>2. b * c = a * c + d * c
  BY <1>1, SMT
<1>3. d * c \in Nat /\ a * c \in Nat
  BY <1>1, SMT
<1> QED
  BY <1>2, <1>3, SMT

LEMMA BlockNumbers ==
  /\ Rounds \in Nat \ {0}
  /\ Rounds * Cardinality(Modes) \in Nat
  /\ 1 \in Blocks
  /\ Blocks \subseteq Nat \ {0}
<1>1. Rounds \in Nat \ {0} /\ Cardinality(Modes) \in Nat \ {0}
  BY CampaignAssumption, TwoPlaces
<1>2. Rounds * Cardinality(Modes) \in Nat \ {0}
  <2>1. 1 * Cardinality(Modes) <= Rounds * Cardinality(Modes)
    BY <1>1, Monotonic
  <2> QED
    BY <1>1, <2>1
<1> QED
  BY <1>1, <1>2 DEF Blocks

\* The schedule is complete: every mode has a block in every round.
Scheduled == rounds \in Seq(Orders) /\ Len(rounds) = Rounds

LEMMA BlockInSchedule ==
  ASSUME Scheduled, NEW r \in 1 .. Rounds, NEW mode \in Modes
  PROVE  BlockOf(r, mode) \in Blocks
<1> DEFINE C == Cardinality(Modes)
<1> DEFINE place == CHOOSE p \in Places : rounds[r][p] = mode
<1>1. rounds[r] \in Orders
  BY ElementOfSeq DEF Scheduled
<1>2. place \in Places
  BY <1>1, EveryModeHasAPlace
<1>3. BlockOf(r, mode) = (r - 1) * C + place
  BY DEF BlockOf
<1>4. C \in Nat /\ Rounds \in Nat /\ place \in 1 .. C
  BY <1>2, TwoPlaces, BlockNumbers DEF Places
<1> HIDE DEF place, C
<1>5. r * C <= Rounds * C
  BY <1>4, Monotonic
<1>6. r * C = (r - 1) * C + C
  BY <1>4
<1>7. (r - 1) * C \in Nat
  BY <1>4
<1> QED
  BY <1>3, <1>4, <1>5, <1>6, <1>7 DEF Blocks, C

(***************************************************************************)
(* The inductive invariant.                                                *)
(***************************************************************************)

InBlock == script.at \in {"measure", "stop", "wait", "copy"}

\* The script is at a block of the schedule, which is complete unless it is
\* being planned.
Placed ==
  /\ script.at = "block" \/ InBlock => script.block \in Blocks
  /\ script.at = "plan" => Len(rounds) < Rounds
  /\ script.at \notin {"down", "plan"} => Len(rounds) = Rounds

\* No block has resources without benchmark results.
InOrder == \A b \in Blocks : resource[b].run # 0 => bench[b].run # 0

\* The block the script is in has no resources yet; once it was measured it
\* has the results of this run.
UnderWay ==
  /\ InBlock => resource[script.block].run = 0 /\ runs[script.block] # 0
  /\ script.at \in {"stop", "wait", "copy"} /\ ~ script.failed =>
       bench[script.block].run = runs[script.block]
  /\ script.at = "copy" => ~ script.failed

\* As long as no two monitors of a block met, whatever is on the server is
\* from its last run.
Alone ==
  \A b \in Blocks \ shared :
    /\ remote[b].out.run \in {0, runs[b]}
    /\ \A m \in monitors : m.block = b => m.run = runs[b]

\* What was merged is what the blocks still are: all of them complete, with
\* one setting, and whole where the resources were merged too.
MergedOf(mode) ==
  /\ merged[mode].benchmarks # << >> =>
       /\ Len(rounds) = Rounds
       /\ AllFound(mode)
       /\ merged[mode].benchmarks = BenchmarksOf(mode)
       /\ Comparable(BenchmarksOf(mode))
  /\ merged[mode].resources # << >> =>
       /\ merged[mode].benchmarks # << >>
       /\ merged[mode].resources = ResourcesOf(mode)
       /\ \A i \in 1 .. Rounds : ResourcesOf(mode)[i].whole

MergedFrom == \A mode \in Modes : MergedOf(mode)

\* The resources of a mode are merged after its benchmark results.
Merging ==
  \A mode \in Modes :
    script.at = "merge_resources" /\ mode = NextMode => merged[mode].benchmarks # << >>

Files == Balanced /\ InOrder /\ ResourcesMatch /\ MergedFrom

Progress == Placed /\ UnderWay /\ Merging

IInv == TypeOK /\ Files /\ Progress /\ Alone

LEMMA Settled == CampaignAssumption /\ 0 \in 0 .. MaxFaults /\ 1 \in 1 .. MaxAttempts /\ StepsOfBlock \in Nat /\ 0 \in 0 .. StepsOfBlock
<1>1. Repetitions \in Nat /\ MaxFaults \in Nat /\ MaxAttempts \in Nat \ {0}
  BY CampaignAssumption
<1>2. StepsOfBlock \in Nat
  BY <1>1 DEF StepsOfBlock, Protocols
<1> QED
  BY <1>1, <1>2, CampaignAssumption

LEMMA InitHolds == Init => IInv
<1> SUFFICES ASSUME Init
             PROVE  IInv
  OBVIOUS
<1>1. NoBenchmark \in Benchmark /\ NoResource \in Resource
  BY DEF NoBenchmark, Benchmark, NoResource, Resource
<1>2. rounds = << >> /\ rounds \in Seq(Orders) /\ Len(rounds) = 0 /\ 0 < Rounds
  BY BlockNumbers, EmptySeq DEF Init
<1>3. Down \in Script
  BY DEF Down, Script
<1>4. Idle \in [done : 0 .. StepsOfBlock, attempt : 1 .. MaxAttempts,
                failures : SUBSET ((0 .. StepsOfBlock) \X (1 .. MaxAttempts))]
  BY Settled DEF Idle
<1>5. NoMerge \in [benchmarks : Seq(Benchmark), resources : Seq(Resource)]
  BY EmptySeq DEF NoMerge
<1>6. TypeOK
  BY <1>1, <1>2, <1>3, <1>4, <1>5, Settled DEF Init, TypeOK
<1>7. Balanced
  BY <1>2 DEF Balanced
<1>8. InOrder /\ ResourcesMatch /\ MergedFrom
  BY DEF Init, InOrder, ResourcesMatch, MergedFrom, MergedOf, NoResource, NoMerge
<1>9. Progress
  BY DEF Init, Down, Progress, Placed, UnderWay, Merging, InBlock
<1>10. Alone
  BY DEF Init, Alone, NoResource
<1> QED
  BY <1>6, <1>7, <1>8, <1>9, <1>10 DEF IInv, Files

(***************************************************************************)
(* Types.                                                                  *)
(***************************************************************************)

\* Where the script goes within a block or a mode, and after a block.
LEMMA GoToMoves ==
  ASSUME script \in Script, NEW at, GoTo(at),
         at \in {"measure", "stop", "wait", "copy", "merge_resources", "done"}
  PROVE  /\ script' \in Script
         /\ script'.at = at
         /\ script'.block = script.block
         /\ script'.failed = script.failed
         /\ script'.left = script.left
BY DEF GoTo, Script

LEMMA NextBlockMoves ==
  ASSUME script.block \in Blocks, NextBlock
  PROVE  /\ script' \in Script
         /\ \/ script'.at = "block" /\ script'.block \in Blocks
            \/ script'.at = "merge"
BY DEF NextBlock, Script, Down

LEMMA DownMoves ==
  ASSUME script' = Down
  PROVE  script' \in Script /\ script'.at = "down"
BY DEF Down, Script

LEMMA StartMoves ==
  ASSUME Start
  PROVE  /\ script' \in Script
         /\ \/ script'.at = "block" /\ script'.block \in Blocks /\ Len(rounds) = Rounds
            \/ script'.at = "plan" /\ Len(rounds) # Rounds
BY BlockNumbers DEF Start, Down, Script

\* The blocks of a mode make a sequence of documents.
LEMMA DocumentsType ==
  ASSUME TypeOK, Scheduled, NEW mode \in Modes
  PROVE  BenchmarksOf(mode) \in Seq(Benchmark) /\ ResourcesOf(mode) \in Seq(Resource)
<1>1. \A r \in 1 .. Rounds : BlocksOf(mode)[r] \in Blocks
  BY BlockInSchedule DEF BlocksOf
<1>2. \A r \in 1 .. Rounds : bench[BlocksOf(mode)[r]] \in Benchmark /\ resource[BlocksOf(mode)[r]] \in Resource
  BY <1>1 DEF TypeOK
<1>3. Rounds \in Nat
  BY BlockNumbers
<1>4. BenchmarksOf(mode) \in Seq(Benchmark)
  BY <1>2, <1>3, IsASeq DEF BenchmarksOf
<1>5. ResourcesOf(mode) \in Seq(Resource)
  BY <1>2, <1>3, IsASeq DEF ResourcesOf
<1> QED
  BY <1>4, <1>5

\* One more round.
LEMMA PlanRoundEffect ==
  ASSUME TypeOK, Balanced, Placed, PlanRound
  PROVE  /\ rounds' \in Seq(Orders) /\ Len(rounds') <= Rounds
         /\ Balanced'
         /\ script' \in Script
         /\ \/ script'.at = "block" /\ script'.block \in Blocks /\ Len(rounds') = Rounds
            \/ script'.at = "plan" /\ Len(rounds') < Rounds
<1>1. PICK order \in Orders : rounds' = Append(rounds, NextRound(rounds, order))
  BY DEF PlanRound
<1> DEFINE next == NextRound(rounds, order)
<1>2. next \in Orders /\ (rounds # << >> => next[1] # LastOf(rounds[Len(rounds)]))
  BY NextRoundFollows DEF TypeOK
<1> HIDE DEF next
<1>3. rounds \in Seq(Orders) /\ Len(rounds) \in Nat /\ Len(rounds) < Rounds
  BY LenProperties DEF TypeOK, Placed, PlanRound
<1>4. rounds' = Append(rounds, next)
  BY <1>1 DEF next
<1>5. /\ rounds' \in Seq(Orders)
      /\ Len(rounds') = Len(rounds) + 1
      /\ \A i \in 1 .. Len(rounds) : rounds'[i] = rounds[i]
      /\ rounds'[Len(rounds) + 1] = next
  BY <1>2, <1>3, <1>4, AppendProperties
<1>6. Len(rounds') <= Rounds
  BY <1>3, <1>5, BlockNumbers
<1>7. \A r \in 1 .. Len(rounds') : rounds'[r] \in Orders
  BY <1>5, ElementOfSeq
<1>8. ASSUME NEW r \in 2 .. Len(rounds')
      PROVE  rounds'[r][1] # LastOf(rounds'[r - 1])
  <2>1. CASE r <= Len(rounds)
    <3>1. rounds'[r] = rounds[r] /\ rounds'[r - 1] = rounds[r - 1]
      BY <1>3, <1>5, <2>1
    <3>2. rounds[r][1] # LastOf(rounds[r - 1])
      BY <1>3, <2>1 DEF Balanced
    <3> QED
      BY <3>1, <3>2
  <2>2. CASE ~ r <= Len(rounds)
    <3>1. r = Len(rounds) + 1 /\ r - 1 = Len(rounds) /\ Len(rounds) \in 1 .. Len(rounds)
      BY <1>3, <1>5, <2>2
    <3>2. rounds'[r] = next /\ rounds'[r - 1] = rounds[Len(rounds)]
      BY <1>5, <3>1
    <3>3. rounds # << >>
      BY <1>3, <3>1, EmptySeq
    <3> QED
      BY <1>2, <3>2, <3>3
  <2> QED
    BY <2>1, <2>2
<1>9. Balanced'
  BY <1>7, <1>8 DEF Balanced, LastOf
<1>10. /\ script' \in Script
       /\ \/ script'.at = "block" /\ script'.block \in Blocks /\ Len(rounds') = Rounds
          \/ script'.at = "plan" /\ Len(rounds') < Rounds
  <2>1. script \in Script /\ script.at = "plan"
    BY DEF PlanRound, TypeOK
  <2>2. Len(rounds') \in Nat /\ Rounds \in Nat
    BY <1>3, <1>5, BlockNumbers
  <2>3. CASE Len(rounds') = Rounds
    <3>1. script' = [script EXCEPT !.at = "block", !.block = 1]
      BY <2>3 DEF PlanRound
    <3> QED
      BY <2>1, <2>3, <3>1, BlockNumbers DEF Script
  <2>4. CASE Len(rounds') # Rounds
    <3>1. script' = script
      BY <2>4 DEF PlanRound
    <3> QED
      BY <1>6, <2>1, <2>2, <2>4, <3>1
  <2> QED
    BY <2>3, <2>4
<1> QED
  BY <1>5, <1>6, <1>9, <1>10

LEMMA TypeKept ==
  ASSUME TypeOK, Balanced, Placed, Next
  PROVE  TypeOK'
<1>1. script \in Script /\ cli.done \in 0 .. StepsOfBlock
  BY DEF TypeOK
<1>2. ASSUME faults' = faults \/ \E wrong \in {0, 1} : Goes(wrong)
      PROVE  faults' \in 0 .. MaxFaults
  BY <1>2, Settled DEF Goes, TypeOK
<1>3. CASE Start
  BY <1>2, <1>3, StartMoves DEF Start, TypeOK, hostVars, serverVars
<1>4. CASE PlanRound
  BY <1>4, PlanRoundEffect DEF PlanRound, TypeOK, hostVars, serverVars
<1>5. CASE Skip
  <2>1. script' \in Script
    BY <1>5, NextBlockMoves DEF Skip, Placed
  <2> QED
    BY <1>5, <2>1 DEF Skip, TypeOK, hostVars, serverVars
<1>6. CASE StartMonitor
  <2> DEFINE block == script.block
             begun == runs[block] + 1
             monitor == [block |-> block, run |-> begun, stopping |-> FALSE]
  <2>1. block \in Blocks /\ begun \in Nat
    BY <1>6 DEF StartMonitor, Begin, Placed, TypeOK
  <2>2. runs' = [runs EXCEPT ![block] = begun]
    BY <1>6 DEF StartMonitor, Begin
  <2>3. runs' \in [Blocks -> Nat] /\ runs'[block] = begun
    BY <2>1, <2>2 DEF TypeOK
  <2>4. monitors' = monitors \cup {monitor}
    <3>1. monitors' = monitors \cup {[block |-> block, run |-> runs'[block], stopping |-> FALSE]}
      BY <1>6 DEF StartMonitor, Begin
    <3> QED
      BY <2>3, <3>1
  <2>5. monitors' \subseteq [block : Blocks, run : Nat, stopping : BOOLEAN]
    <3>1. monitor \in [block : Blocks, run : Nat, stopping : BOOLEAN]
      BY <2>1
    <3> HIDE DEF monitor
    <3> QED
      BY <2>4, <3>1 DEF TypeOK
  <2>6. [out |-> NoResource, stop |-> FALSE] \in [out : Resource, stop : BOOLEAN]
    BY DEF NoResource, Resource
  <2>7. remote' \in [Blocks -> [out : Resource, stop : BOOLEAN]]
    BY <1>6, <2>6 DEF StartMonitor, Begin, TypeOK
  <2>8. script' \in Script
    BY <1>1, <1>6, GoToMoves DEF StartMonitor, Begin
  <2>9. shared' \subseteq Blocks
    BY <1>6, <2>1 DEF StartMonitor, Begin, TypeOK
  <2>10. cli' \in [done : 0 .. StepsOfBlock, attempt : 1 .. MaxAttempts,
                   failures : SUBSET ((0 .. StepsOfBlock) \X (1 .. MaxAttempts))]
    BY <1>6, Settled DEF StartMonitor, Begin, Idle
  <2> QED
    BY <1>6, <2>3, <2>5, <2>7, <2>8, <2>9, <2>10 DEF StartMonitor, Begin, TypeOK, hostVars
<1>7. CASE TouchStop
  <2>1. script' \in Script
    BY <1>1, <1>7, GoToMoves DEF TouchStop
  <2>2. remote' \in [Blocks -> [out : Resource, stop : BOOLEAN]]
    BY <1>7 DEF TouchStop, TypeOK
  <2> QED
    BY <1>7, <2>1, <2>2 DEF TouchStop, TypeOK, hostVars
<1>8. CASE MonitorIsDone
  <2>1. script' \in Script
    BY <1>1, <1>8, DownMoves DEF MonitorIsDone, Script
  <2> QED
    BY <1>8, <2>1 DEF MonitorIsDone, TypeOK, hostVars, serverVars
<1>9. CASE MonitorIsLost
  BY <1>9, DownMoves DEF MonitorIsLost, TypeOK, hostVars, serverVars
<1>10. CASE Copy
  <2>1. script.block \in Blocks
    BY <1>10 DEF Copy, Placed, InBlock
  <2>2. script' \in Script
    BY <1>10, <2>1, NextBlockMoves DEF Copy
  <2>3. resource' \in [Blocks -> Resource]
    BY <1>10, <2>1 DEF Copy, TypeOK
  <2> QED
    BY <1>10, <2>2, <2>3 DEF Copy, TypeOK, serverVars
<1>11. CASE CopyPartly
  <2>1. script.block \in Blocks
    BY <1>11 DEF CopyPartly, Placed, InBlock
  <2>2. [remote[script.block].out EXCEPT !.whole = FALSE] \in Resource
    <3>1. remote[script.block].out \in Resource
      BY <2>1 DEF TypeOK
    <3> QED
      BY <3>1 DEF Resource
  <2>3. resource' \in [Blocks -> Resource]
    BY <1>11, <2>2 DEF CopyPartly, TypeOK
  <2> QED
    BY <1>2, <1>11, <2>3, DownMoves DEF CopyPartly, TypeOK, serverVars
<1>12. CASE Abort
  <2>1. rounds' \in Seq(Orders) /\ Len(rounds') <= Rounds
    BY <1>12, EmptySeq, BlockNumbers DEF Abort, TypeOK
  <2> QED
    BY <1>2, <1>12, <2>1, DownMoves DEF Abort, TypeOK, hostVars, serverVars
<1>13. CASE Measure
  <2>1. cli.done + 1 \in 0 .. StepsOfBlock
    BY <1>1, <1>13, Settled DEF Measure, Measuring
  <2>2. cli' \in [done : 0 .. StepsOfBlock, attempt : 1 .. MaxAttempts,
                  failures : SUBSET ((0 .. StepsOfBlock) \X (1 .. MaxAttempts))]
    BY <1>13, <2>1, Settled DEF Measure, TypeOK
  <2> QED
    BY <1>13, <2>2 DEF Measure, TypeOK, BenchmarkVars, hostVars, serverVars
<1>14. CASE PingFails
  <2>1. script' \in Script
    BY <1>1, <1>14 DEF PingFails, BenchmarkFails, Script
  <2> QED
    BY <1>2, <1>14, <2>1 DEF PingFails, TypeOK, BenchmarkVars, hostVars, serverVars
<1>15. CASE TransferFails
  <2>1. script' \in Script
    BY <1>1, <1>15 DEF TransferFails, BenchmarkFails, Script
  <2>2. cli.attempt \in 1 .. MaxAttempts /\ MaxAttempts \in Nat
    BY Settled DEF TypeOK
  <2> DEFINE attempt == IF AttemptsLeft THEN cli.attempt + 1 ELSE cli.attempt
             failures == cli.failures \cup {<<cli.done, cli.attempt>>}
  <2>3. attempt \in 1 .. MaxAttempts
    BY <2>2 DEF AttemptsLeft
  <2>4. failures \in SUBSET ((0 .. StepsOfBlock) \X (1 .. MaxAttempts))
    BY <2>2 DEF TypeOK
  <2>5. cli' = [cli EXCEPT !.failures = failures, !.attempt = attempt]
    BY <1>15 DEF TransferFails
  <2> HIDE DEF attempt, failures
  <2>6. cli' \in [done : 0 .. StepsOfBlock, attempt : 1 .. MaxAttempts,
                  failures : SUBSET ((0 .. StepsOfBlock) \X (1 .. MaxAttempts))]
    BY <2>3, <2>4, <2>5 DEF TypeOK
  <2> QED
    BY <1>2, <1>15, <2>1, <2>6 DEF TransferFails, TypeOK, BenchmarkVars, hostVars, serverVars
<1>16. CASE WriteBenchmark
  <2>1. script' \in Script
    BY <1>1, <1>16, GoToMoves DEF WriteBenchmark
  <2>2. script.block \in Blocks
    BY <1>16 DEF WriteBenchmark, Placed, InBlock
  <2>3. runs[script.block] \in Nat /\ setting \in Settings \cup {0}
    BY <2>2 DEF TypeOK
  <2>4. cli.failures \in SUBSET ((0 .. StepsOfBlock) \X Nat)
    BY Settled DEF TypeOK
  <2>5. [run |-> runs[script.block], setting |-> setting, failures |-> cli.failures] \in Benchmark
    BY <2>3, <2>4 DEF Benchmark
  <2>6. bench' \in [Blocks -> Benchmark]
    BY <1>16, <2>5 DEF WriteBenchmark, TypeOK
  <2> QED
    BY <1>16, <2>1, <2>6 DEF WriteBenchmark, TypeOK, serverVars
<1>17. CASE \E mode \in Modes : MergeBenchmarks(mode)
  <2>1. PICK mode \in Modes : MergeBenchmarks(mode)
    BY <1>17
  <2>2. Scheduled
    BY <2>1 DEF MergeBenchmarks, Placed, TypeOK, Scheduled
  <2>3. script' \in Script
    BY <1>1, <2>1, GoToMoves, DownMoves DEF MergeBenchmarks
  <2>4. merged' \in [Modes -> [benchmarks : Seq(Benchmark), resources : Seq(Resource)]]
    <3>1. BenchmarksOf(mode) \in Seq(Benchmark)
      BY <2>2, DocumentsType
    <3>2. \/ merged' = merged
          \/ merged' = [merged EXCEPT ![mode].benchmarks = BenchmarksOf(mode)]
      BY <2>1 DEF MergeBenchmarks
    <3> QED
      BY <3>1, <3>2 DEF TypeOK
  <2> QED
    BY <2>1, <2>3, <2>4 DEF MergeBenchmarks, TypeOK, serverVars
<1>18. CASE \E mode \in Modes : MergeResources(mode)
  <2>1. PICK mode \in Modes : MergeResources(mode)
    BY <1>18
  <2>2. Scheduled
    BY <2>1 DEF MergeResources, Placed, TypeOK, Scheduled
  <2>3. script' \in Script
    <3>1. \/ script' = Down
          \/ script' = [script EXCEPT !.at = "merge", !.left = @ \ {mode}]
      BY <2>1 DEF MergeResources
    <3> QED
      BY <1>1, <3>1, DownMoves DEF Script
  <2>4. merged' \in [Modes -> [benchmarks : Seq(Benchmark), resources : Seq(Resource)]]
    <3>1. ResourcesOf(mode) \in Seq(Resource)
      BY <2>2, DocumentsType
    <3>2. \/ merged' = merged
          \/ merged' = [merged EXCEPT ![mode].resources = ResourcesOf(mode)]
      BY <2>1 DEF MergeResources
    <3> QED
      BY <3>1, <3>2 DEF TypeOK
  <2> QED
    BY <2>1, <2>3, <2>4 DEF MergeResources, TypeOK, serverVars
<1>19. CASE Report
  <2>1. script' \in Script
    BY <1>1, <1>19, GoToMoves DEF Report
  <2> QED
    BY <1>19, <2>1 DEF Report, TypeOK, hostVars, serverVars
<1>20. CASE \E m \in monitors : MonitorSeesStop(m)
  <2>1. PICK m \in monitors : MonitorSeesStop(m)
    BY <1>20
  <2>2. [m EXCEPT !.stopping = TRUE] \in [block : Blocks, run : Nat, stopping : BOOLEAN]
    BY DEF TypeOK
  <2>3. monitors' \subseteq [block : Blocks, run : Nat, stopping : BOOLEAN]
    BY <2>1, <2>2 DEF MonitorSeesStop, TypeOK
  <2> QED
    BY <2>1, <2>3 DEF MonitorSeesStop, TypeOK, hostVars
<1>21. CASE \E m \in monitors : MonitorStops(m)
  <2>1. PICK m \in monitors : MonitorStops(m)
    BY <1>21
  <2>2. PICK whole \in BOOLEAN : remote' = [remote EXCEPT ![m.block].out = [run |-> m.run, whole |-> whole]]
    BY <2>1 DEF MonitorStops
  <2>3. [run |-> m.run, whole |-> whole] \in Resource
    BY DEF TypeOK, Resource
  <2>4. remote' \in [Blocks -> [out : Resource, stop : BOOLEAN]]
    BY <2>2, <2>3 DEF TypeOK
  <2>5. monitors' \subseteq [block : Blocks, run : Nat, stopping : BOOLEAN]
    BY <2>1 DEF MonitorStops, TypeOK
  <2> QED
    BY <2>1, <2>4, <2>5 DEF MonitorStops, TypeOK, hostVars
<1>22. CASE \E m \in monitors : MonitorDies(m)
  <2>1. PICK m \in monitors : MonitorDies(m)
    BY <1>22
  <2>2. monitors' \subseteq [block : Blocks, run : Nat, stopping : BOOLEAN]
    BY <2>1 DEF MonitorDies, TypeOK
  <2>3. faults' \in 0 .. MaxFaults
    BY <1>2, <2>1 DEF MonitorDies
  <2> QED
    BY <2>1, <2>2, <2>3 DEF MonitorDies, TypeOK, hostVars
<1> QED
  BY <1>3, <1>4, <1>5, <1>6, <1>7, <1>8, <1>9, <1>10, <1>11, <1>12, <1>13, <1>14, <1>15, <1>16,
     <1>17, <1>18, <1>19, <1>20, <1>21, <1>22 DEF Next, ScriptStep

(***************************************************************************)
(* The files on this host.                                                 *)
(***************************************************************************)

\* Only three steps write the files of a block, those of the block the script
\* is in.
LEMMA WritesOfBlocks ==
  ASSUME Next
  PROVE  \/ bench' = bench /\ resource' = resource
         \/ WriteBenchmark \/ Copy \/ CopyPartly
BY DEF Next, ScriptStep, Start, PlanRound, Skip, StartMonitor, Begin, TouchStop, MonitorIsDone,
   MonitorIsLost, Measure, MergeBenchmarks, MergeResources, Report, PingFails, TransferFails, Abort,
   MonitorSeesStop, MonitorStops, MonitorDies, BenchmarkVars, hostVars

LEMMA FilesEffect ==
  ASSUME TypeOK, Placed, UnderWay, WriteBenchmark \/ Copy \/ CopyPartly
  PROVE  /\ script.block \in Blocks
         /\ resource[script.block].run = 0
         /\ runs[script.block] # 0
         /\ \A b \in Blocks \ {script.block} : bench'[b] = bench[b] /\ resource'[b] = resource[b]
         /\ rounds' = rounds /\ merged' = merged /\ shared' = shared
         /\ \/ /\ bench'[script.block].run # 0
               /\ resource'[script.block] = resource[script.block]
            \/ /\ bench' = bench
               /\ bench[script.block].run = runs[script.block]
               /\ resource'[script.block].run = remote[script.block].out.run
<1> DEFINE block == script.block
<1>1. script.at \in {"measure", "copy"}
  BY DEF WriteBenchmark, Copy, CopyPartly
<1>2. block \in Blocks /\ resource[block].run = 0 /\ runs[block] # 0
  BY <1>1 DEF Placed, UnderWay, InBlock
<1>3. CASE WriteBenchmark
  <2>1. bench' = [bench EXCEPT ![block] = [run |-> runs[block], setting |-> setting, failures |-> cli.failures]]
    BY <1>3 DEF WriteBenchmark
  <2>2. bench'[block].run = runs[block]
    BY <1>2, <2>1 DEF TypeOK
  <2>3. \A b \in Blocks \ {block} : bench'[b] = bench[b]
    BY <2>1 DEF TypeOK
  <2> QED
    BY <1>2, <1>3, <2>2, <2>3 DEF WriteBenchmark, serverVars
<1>4. CASE Copy \/ CopyPartly
  <2>1. bench[block].run = runs[block]
    BY <1>4 DEF Copy, CopyPartly, UnderWay
  <2>2. PICK new \in {remote[block].out, [remote[block].out EXCEPT !.whole = FALSE]} :
          resource' = [resource EXCEPT ![block] = new]
    BY <1>4 DEF Copy, CopyPartly
  <2>3. new.run = remote[block].out.run
    BY <1>2, <2>2 DEF TypeOK, Resource
  <2>4. resource'[block].run = remote[block].out.run
    BY <1>2, <2>2, <2>3 DEF TypeOK
  <2>5. \A b \in Blocks \ {block} : resource'[b] = resource[b]
    BY <2>2 DEF TypeOK
  <2> QED
    BY <1>2, <1>4, <2>1, <2>4, <2>5 DEF Copy, CopyPartly, serverVars
<1> QED
  BY <1>3, <1>4

LEMMA CompletedKept ==
  ASSUME TypeOK, Placed, UnderWay, Next
  PROVE  \A b \in Blocks :
           bench[b].run # 0 /\ resource[b].run # 0 => bench'[b] = bench[b] /\ resource'[b] = resource[b]
<1>1. CASE bench' = bench /\ resource' = resource
  BY <1>1
<1>2. CASE WriteBenchmark \/ Copy \/ CopyPartly
  BY <1>2, FilesEffect
<1> QED
  BY <1>1, <1>2, WritesOfBlocks

LEMMA SharedGrows ==
  ASSUME Next
  PROVE  shared \subseteq shared'
BY DEF Next, ScriptStep, Start, PlanRound, Skip, StartMonitor, Begin, TouchStop, MonitorIsDone,
   MonitorIsLost, Copy, Measure, WriteBenchmark, MergeBenchmarks, MergeResources, Report, PingFails,
   TransferFails, CopyPartly, Abort, MonitorSeesStop, MonitorStops, MonitorDies, BenchmarkVars, serverVars

LEMMA InOrderKept ==
  ASSUME TypeOK, Placed, UnderWay, InOrder, Next
  PROVE  InOrder'
<1>1. CASE bench' = bench /\ resource' = resource
  BY <1>1 DEF InOrder
<1>2. CASE WriteBenchmark \/ Copy \/ CopyPartly
  <2> SUFFICES ASSUME NEW b \in Blocks, resource'[b].run # 0
               PROVE  bench'[b].run # 0
    BY DEF InOrder
  <2>1. CASE b = script.block
    BY <1>2, <2>1, FilesEffect
  <2>2. CASE b # script.block
    BY <1>2, <2>2, FilesEffect DEF InOrder
  <2> QED
    BY <2>1, <2>2
<1> QED
  BY <1>1, <1>2, WritesOfBlocks

LEMMA ResourcesMatchKept ==
  ASSUME TypeOK, Placed, UnderWay, Alone, ResourcesMatch, Next
  PROVE  ResourcesMatch'
<1>1. CASE bench' = bench /\ resource' = resource
  BY <1>1, SharedGrows DEF ResourcesMatch
<1>2. CASE WriteBenchmark \/ Copy \/ CopyPartly
  <2> SUFFICES ASSUME NEW b \in Blocks, bench'[b].run # 0, resource'[b].run # 0
               PROVE  resource'[b].run = bench'[b].run \/ b \in shared'
    BY DEF ResourcesMatch
  <2>1. CASE b = script.block
    BY <1>2, <2>1, FilesEffect DEF Alone
  <2>2. CASE b # script.block
    BY <1>2, <2>2, FilesEffect DEF ResourcesMatch
  <2> QED
    BY <2>1, <2>2
<1> QED
  BY <1>1, <1>2, WritesOfBlocks

(***************************************************************************)
(* The merged documents.                                                   *)
(***************************************************************************)

\* What a mode's blocks say does not change once they are all complete.
LEMMA FoundStays ==
  ASSUME TypeOK, Placed, UnderWay, Next, Scheduled, rounds' = rounds,
         NEW mode \in Modes, AllFound(mode)
  PROVE  /\ AllFound(mode)'
         /\ BenchmarksOf(mode)' = BenchmarksOf(mode)
         /\ ResourcesOf(mode)' = ResourcesOf(mode)
<1>1. BlocksOf(mode)' = BlocksOf(mode)
  BY DEF BlocksOf, BlockOf
<1>2. ASSUME NEW i \in 1 .. Rounds
      PROVE  /\ bench[BlocksOf(mode)[i]].run # 0 /\ resource[BlocksOf(mode)[i]].run # 0
             /\ bench'[BlocksOf(mode)[i]] = bench[BlocksOf(mode)[i]]
             /\ resource'[BlocksOf(mode)[i]] = resource[BlocksOf(mode)[i]]
  <2>1. BlocksOf(mode)[i] \in Blocks
    BY BlockInSchedule DEF BlocksOf
  <2>2. bench[BlocksOf(mode)[i]].run # 0 /\ resource[BlocksOf(mode)[i]].run # 0
    BY DEF AllFound
  <2> QED
    BY <2>1, <2>2, CompletedKept
<1>3. AllFound(mode)'
  BY <1>1, <1>2 DEF AllFound
<1>4. BenchmarksOf(mode)' = BenchmarksOf(mode)
  BY <1>1, <1>2 DEF BenchmarksOf
<1>5. ResourcesOf(mode)' = ResourcesOf(mode)
  BY <1>1, <1>2 DEF ResourcesOf
<1> QED
  BY <1>3, <1>4, <1>5

\* A schedule that changes was not complete.
LEMMA ScheduleStays ==
  ASSUME Placed, Next, Len(rounds) = Rounds
  PROVE  rounds' = rounds
<1>1. rounds' = rounds \/ script.at = "plan"
  BY DEF Next, ScriptStep, Start, PlanRound, Skip, StartMonitor, Begin, TouchStop, MonitorIsDone,
     MonitorIsLost, Copy, Measure, WriteBenchmark, MergeBenchmarks, MergeResources, Report, PingFails,
     TransferFails, CopyPartly, Abort, MonitorSeesStop, MonitorStops, MonitorDies, BenchmarkVars
<1>2. script.at # "plan"
  BY BlockNumbers DEF Placed
<1> QED
  BY <1>1, <1>2

\* Only merging writes merged documents.
LEMMA WritesOfMerging ==
  ASSUME Next
  PROVE  \/ merged' = merged
         \/ \E mode \in Modes : MergeBenchmarks(mode) /\ merged' # merged
         \/ \E mode \in Modes : MergeResources(mode) /\ merged' # merged
<1>1. \/ merged' = merged
      \/ \E mode \in Modes : MergeBenchmarks(mode) \/ MergeResources(mode)
  BY DEF Next, ScriptStep, Start, PlanRound, Skip, StartMonitor, Begin, TouchStop, MonitorIsDone,
     MonitorIsLost, Copy, Measure, WriteBenchmark, Report, PingFails, TransferFails, CopyPartly, Abort,
     MonitorSeesStop, MonitorStops, MonitorDies, BenchmarkVars, hostVars
<1> QED
  BY <1>1

\* Rounds is not 0, so that a merged sequence is not empty.
LEMMA DocumentsAreThere ==
  ASSUME NEW mode \in Modes
  PROVE  BenchmarksOf(mode) # << >> /\ ResourcesOf(mode) # << >>
<1>1. DOMAIN BenchmarksOf(mode) = 1 .. Rounds /\ DOMAIN ResourcesOf(mode) = 1 .. Rounds
  BY DEF BenchmarksOf, ResourcesOf
<1>2. 1 \in 1 .. Rounds
  BY BlockNumbers
<1>3. DOMAIN << >> = {}
  OBVIOUS
<1> QED
  BY <1>1, <1>2, <1>3

LEMMA MergedFromKept ==
  ASSUME TypeOK, Placed, UnderWay, MergedFrom, Merging, Next
  PROVE  MergedFrom'
<1> SUFFICES ASSUME NEW mode \in Modes
             PROVE  MergedOf(mode)'
  BY DEF MergedFrom
<1>1. MergedOf(mode)
  BY DEF MergedFrom
<1>2. CASE merged'[mode] = merged[mode]
  <2>1. CASE merged[mode].benchmarks = << >>
    BY <1>1, <1>2, <2>1 DEF MergedOf
  <2>2. CASE merged[mode].benchmarks # << >>
    <3>1. Scheduled /\ AllFound(mode)
      BY <1>1, <2>2 DEF MergedOf, Scheduled, TypeOK
    <3>2. rounds' = rounds
      BY <3>1, ScheduleStays DEF Scheduled
    <3>3. /\ AllFound(mode)'
          /\ BenchmarksOf(mode)' = BenchmarksOf(mode)
          /\ ResourcesOf(mode)' = ResourcesOf(mode)
      BY <3>1, <3>2, FoundStays
    <3>4. Comparable(BenchmarksOf(mode)) /\ Comparable(BenchmarksOf(mode))' = Comparable(BenchmarksOf(mode))
      BY <1>1, <2>2, <3>3 DEF MergedOf, Comparable
    <3> QED
      BY <1>1, <1>2, <2>2, <3>2, <3>3, <3>4 DEF MergedOf
  <2> QED
    BY <2>1, <2>2
<1>3. ASSUME MergeBenchmarks(mode), merged'[mode] # merged[mode]
      PROVE  MergedOf(mode)'
  <2>1. /\ AllFound(mode) /\ Comparable(BenchmarksOf(mode))
        /\ merged' = [merged EXCEPT ![mode].benchmarks = BenchmarksOf(mode)]
    BY <1>3 DEF MergeBenchmarks
  <2>2. /\ merged'[mode].benchmarks = BenchmarksOf(mode)
        /\ merged'[mode].resources = merged[mode].resources
    BY <2>1 DEF TypeOK
  <2>3. rounds' = rounds /\ bench' = bench /\ resource' = resource /\ Len(rounds) = Rounds
    BY <1>3 DEF MergeBenchmarks, Placed
  <2>4. /\ AllFound(mode)' = AllFound(mode)
        /\ BenchmarksOf(mode)' = BenchmarksOf(mode)
        /\ ResourcesOf(mode)' = ResourcesOf(mode)
    BY <2>3 DEF AllFound, BenchmarksOf, ResourcesOf, BlocksOf, BlockOf
  <2>5. Comparable(BenchmarksOf(mode))' = Comparable(BenchmarksOf(mode))
    BY <2>4 DEF Comparable
  <2> QED
    BY <1>1, <2>1, <2>2, <2>3, <2>4, <2>5, DocumentsAreThere DEF MergedOf
<1>4. ASSUME MergeResources(mode), merged'[mode] # merged[mode]
      PROVE  MergedOf(mode)'
  <2>1. /\ \A i \in 1 .. Rounds : ResourcesOf(mode)[i].whole
        /\ merged' = [merged EXCEPT ![mode].resources = ResourcesOf(mode)]
        /\ merged[mode].benchmarks # << >>
    BY <1>4 DEF MergeResources, Merging
  <2>2. /\ merged'[mode].benchmarks = merged[mode].benchmarks
        /\ merged'[mode].resources = ResourcesOf(mode)
    BY <2>1 DEF TypeOK
  <2>3. rounds' = rounds /\ bench' = bench /\ resource' = resource
    BY <1>4 DEF MergeResources
  <2>4. /\ AllFound(mode)' = AllFound(mode)
        /\ BenchmarksOf(mode)' = BenchmarksOf(mode)
        /\ ResourcesOf(mode)' = ResourcesOf(mode)
    BY <2>3 DEF AllFound, BenchmarksOf, ResourcesOf, BlocksOf, BlockOf
  <2>5. Comparable(BenchmarksOf(mode))' = Comparable(BenchmarksOf(mode))
    BY <2>4 DEF Comparable
  <2> QED
    BY <1>1, <2>1, <2>2, <2>3, <2>4, <2>5 DEF MergedOf
<1>5. CASE merged'[mode] # merged[mode]
  <2>1. \/ \E other \in Modes : MergeBenchmarks(other) /\ merged' # merged
        \/ \E other \in Modes : MergeResources(other) /\ merged' # merged
    BY <1>5, WritesOfMerging
  <2>2. ASSUME NEW other \in Modes, MergeBenchmarks(other) \/ MergeResources(other), other # mode
        PROVE  merged'[mode] = merged[mode]
    BY <2>2 DEF MergeBenchmarks, MergeResources, TypeOK
  <2>3. MergeBenchmarks(mode) \/ MergeResources(mode)
    BY <1>5, <2>1, <2>2
  <2> QED
    BY <1>3, <1>4, <1>5, <2>3
<1> QED
  BY <1>2, <1>5

LEMMA BalancedKept ==
  ASSUME TypeOK, Balanced, Placed, Next
  PROVE  Balanced'
<1>1. CASE rounds' = rounds
  BY <1>1 DEF Balanced
<1>2. CASE PlanRound
  BY <1>2, PlanRoundEffect
<1>3. CASE rounds' = << >>
  BY <1>3 DEF Balanced
<1>4. rounds' = rounds \/ PlanRound \/ rounds' = << >>
  BY DEF Next, ScriptStep, Start, PlanRound, Skip, StartMonitor, Begin, TouchStop, MonitorIsDone,
     MonitorIsLost, Copy, Measure, WriteBenchmark, MergeBenchmarks, MergeResources, Report, PingFails,
     TransferFails, CopyPartly, Abort, MonitorSeesStop, MonitorStops, MonitorDies, BenchmarkVars
<1> QED
  BY <1>1, <1>2, <1>3, <1>4

(***************************************************************************)
(* The server.                                                             *)
(***************************************************************************)

LEMMA AloneKept ==
  ASSUME TypeOK, Placed, Alone, Next
  PROVE  Alone'
<1>1. CASE UNCHANGED serverVars
  BY <1>1 DEF Alone, serverVars
<1>2. CASE StartMonitor
  <2> DEFINE block == script.block
  <2>1. block \in Blocks
    BY <1>2 DEF StartMonitor, Begin, Placed
  <2>2. remote' = [remote EXCEPT ![block] = [out |-> NoResource, stop |-> FALSE]]
    BY <1>2 DEF StartMonitor, Begin
  <2>3. runs' = [runs EXCEPT ![block] = runs[block] + 1]
    BY <1>2 DEF StartMonitor, Begin
  <2>4. monitors' = monitors \cup {[block |-> block, run |-> runs'[block], stopping |-> FALSE]}
    BY <1>2 DEF StartMonitor, Begin
  <2>5. shared \subseteq shared' /\ (block \notin shared' => \A m \in monitors : m.block # block)
    BY <1>2 DEF StartMonitor, Begin
  <2> SUFFICES ASSUME NEW b \in Blocks \ shared'
               PROVE  /\ remote'[b].out.run \in {0, runs'[b]}
                      /\ \A m \in monitors' : m.block = b => m.run = runs'[b]
    BY DEF Alone
  <2>6. CASE b = block
    BY <2>1, <2>2, <2>4, <2>5, <2>6 DEF TypeOK, NoResource
  <2>7. CASE b # block
    <3>1. remote'[b] = remote[b] /\ runs'[b] = runs[b]
      BY <2>2, <2>3, <2>7 DEF TypeOK
    <3>2. \A m \in monitors' : m.block = b => m \in monitors
      BY <2>4, <2>7
    <3> QED
      BY <2>5, <3>1, <3>2 DEF Alone
  <2> QED
    BY <2>6, <2>7
<1>3. CASE TouchStop
  <2>1. \A b \in Blocks : remote'[b].out = remote[b].out
    BY <1>3 DEF TouchStop, TypeOK
  <2> QED
    BY <1>3, <2>1 DEF TouchStop, Alone
<1>4. CASE \E m \in monitors : MonitorSeesStop(m)
  <2>1. PICK m \in monitors : MonitorSeesStop(m)
    BY <1>4
  <2> DEFINE stopping == [m EXCEPT !.stopping = TRUE]
  <2>2. stopping.block = m.block /\ stopping.run = m.run
    BY DEF TypeOK
  <2>3. monitors' \subseteq monitors \cup {stopping} /\ runs' = runs /\ remote' = remote /\ shared' = shared
    BY <2>1 DEF MonitorSeesStop
  <2> HIDE DEF stopping
  <2> QED
    BY <2>2, <2>3 DEF Alone
<1>5. CASE \E m \in monitors : MonitorStops(m)
  <2>1. PICK m \in monitors : MonitorStops(m)
    BY <1>5
  <2>2. PICK whole \in BOOLEAN : remote' = [remote EXCEPT ![m.block].out = [run |-> m.run, whole |-> whole]]
    BY <2>1 DEF MonitorStops
  <2>3. \A b \in Blocks : remote'[b].out.run = IF b = m.block THEN m.run ELSE remote[b].out.run
    BY <2>2 DEF TypeOK
  <2> QED
    BY <2>1, <2>3 DEF MonitorStops, Alone
<1>6. CASE \E m \in monitors : MonitorDies(m)
  BY <1>6 DEF MonitorDies, Alone
<1>7. \/ UNCHANGED serverVars
      \/ StartMonitor \/ TouchStop
      \/ \E m \in monitors : MonitorSeesStop(m)
      \/ \E m \in monitors : MonitorStops(m)
      \/ \E m \in monitors : MonitorDies(m)
  BY DEF Next, ScriptStep, Start, PlanRound, Skip, MonitorIsDone, MonitorIsLost, Copy, Measure,
     WriteBenchmark, MergeBenchmarks, MergeResources, Report, PingFails, TransferFails, CopyPartly,
     Abort, BenchmarkVars, serverVars
<1> QED
  BY <1>1, <1>2, <1>3, <1>4, <1>5, <1>6, <1>7

(***************************************************************************)
(* The script.                                                             *)
(***************************************************************************)

\* Where a step leaves the script's place alone.
LEMMA ProgressStays ==
  ASSUME Progress, script' = script, UNCHANGED <<rounds, bench, resource, merged, runs>>
  PROVE  Progress'
<1>1. Placed'
  BY DEF Progress, Placed, InBlock
<1>2. UnderWay'
  BY DEF Progress, UnderWay, InBlock
<1>3. Merging'
  BY DEF Progress, Merging, NextMode
<1> QED
  BY <1>1, <1>2, <1>3 DEF Progress

\* Where a step takes it out of all blocks.
LEMMA ProgressOutside ==
  ASSUME script'.at \in {"down", "plan", "block", "merge", "done"},
         script'.at = "block" => script'.block \in Blocks,
         script'.at = "plan" => Len(rounds') < Rounds,
         script'.at \notin {"down", "plan"} => Len(rounds') = Rounds
  PROVE  Progress'
<1>1. Placed' /\ UnderWay' /\ Merging'
  BY DEF Placed, UnderWay, Merging, InBlock
<1> QED
  BY <1>1 DEF Progress

\* Where a step takes it on within a block.
LEMMA ProgressWithin ==
  ASSUME script'.at \in {"measure", "stop", "wait", "copy"},
         script'.block \in Blocks, Len(rounds') = Rounds,
         resource'[script'.block].run = 0, runs'[script'.block] # 0,
         script'.at # "measure" /\ ~ script'.failed => bench'[script'.block].run = runs'[script'.block],
         script'.at = "copy" => ~ script'.failed
  PROVE  Progress'
<1>1. Placed' /\ UnderWay' /\ Merging'
  BY DEF Placed, UnderWay, Merging, InBlock
<1> QED
  BY <1>1 DEF Progress

LEMMA ProgressKept ==
  ASSUME TypeOK, Balanced, Progress, InOrder, Next
  PROVE  Progress'
<1> USE DEF Progress
<1>1. script \in Script
  BY DEF TypeOK
<1>2. CASE script' = Down
  BY <1>2, DownMoves, ProgressOutside
<1>3. CASE Start
  <2>1. rounds' = rounds /\ Len(rounds) \in Nat /\ Rounds \in Nat /\ Len(rounds) <= Rounds
    BY <1>3, LenProperties, BlockNumbers DEF Start, TypeOK
  <2> QED
    BY <1>3, <2>1, StartMoves, ProgressOutside
<1>4. CASE PlanRound
  BY <1>4, PlanRoundEffect, ProgressOutside
<1>5. CASE Skip
  <2>1. script.block \in Blocks /\ Len(rounds) = Rounds /\ rounds' = rounds /\ NextBlock
    BY <1>5 DEF Skip, Placed
  <2> QED
    BY <2>1, NextBlockMoves, ProgressOutside
<1>6. CASE Copy
  <2>1. script.block \in Blocks /\ Len(rounds) = Rounds /\ rounds' = rounds /\ NextBlock
    BY <1>6 DEF Copy, Placed, InBlock
  <2> QED
    BY <2>1, NextBlockMoves, ProgressOutside
<1>7. CASE StartMonitor
  <2> DEFINE block == script.block
  <2>1. block \in Blocks /\ Len(rounds) = Rounds /\ ~ Complete(block)
    BY <1>7 DEF StartMonitor, Begin, Placed
  <2>2. resource[block].run = 0
    BY <2>1 DEF Complete, InOrder
  <2>3. runs' = [runs EXCEPT ![block] = runs[block] + 1]
    BY <1>7 DEF StartMonitor, Begin
  <2>4. runs'[block] # 0
    BY <2>1, <2>3 DEF TypeOK
  <2>5. script'.at = "measure" /\ script'.block = block
    BY <1>1, <1>7, GoToMoves DEF StartMonitor, Begin
  <2> QED
    BY <1>7, <2>1, <2>2, <2>4, <2>5, ProgressWithin DEF StartMonitor, Begin, hostVars
<1>8. CASE TouchStop
  <2>1. /\ script'.at = "wait" /\ script'.block = script.block /\ script'.failed = script.failed
        /\ script.at = "stop" /\ UNCHANGED <<rounds, hostVars, runs>>
    BY <1>1, <1>8, GoToMoves DEF TouchStop
  <2> QED
    BY <2>1, ProgressWithin DEF Placed, UnderWay, InBlock, hostVars
<1>9. ASSUME MonitorIsDone, ~ script.failed
      PROVE  Progress'
  <2>1. /\ script'.at = "copy" /\ script'.block = script.block /\ script'.failed = script.failed
        /\ script.at = "wait" /\ UNCHANGED <<rounds, hostVars, runs>>
    BY <1>1, <1>9 DEF MonitorIsDone, Script, serverVars
  <2> QED
    BY <1>9, <2>1, ProgressWithin DEF Placed, UnderWay, InBlock, hostVars
<1>10. ASSUME PingFails \/ (TransferFails /\ script' # script)
       PROVE  Progress'
  <2>1. script.at = "measure" /\ BenchmarkFails /\ UNCHANGED <<rounds, hostVars, runs>>
    BY <1>10 DEF PingFails, TransferFails, Measuring, BenchmarkVars, serverVars
  <2>2. script'.at = "stop" /\ script'.block = script.block /\ script'.failed
    BY <1>1, <2>1 DEF BenchmarkFails, Script
  <2> QED
    BY <2>1, <2>2, ProgressWithin DEF Placed, UnderWay, InBlock, hostVars
<1>11. CASE WriteBenchmark
  <2>1. script'.at = "stop" /\ script'.block = script.block
    BY <1>1, <1>11, GoToMoves DEF WriteBenchmark
  <2>2. script.at = "measure" /\ rounds' = rounds /\ resource' = resource /\ runs' = runs
    BY <1>11 DEF WriteBenchmark, serverVars
  <2>3. script.block \in Blocks /\ Len(rounds) = Rounds
    BY <2>2 DEF Placed, InBlock
  <2>4. bench'[script.block].run = runs[script.block]
    BY <1>11, <2>3 DEF WriteBenchmark, TypeOK
  <2> QED
    BY <2>1, <2>2, <2>3, <2>4, ProgressWithin DEF UnderWay, InBlock
<1>12. ASSUME NEW mode \in Modes, MergeBenchmarks(mode), script' # Down
       PROVE  Progress'
  <2>1. /\ script.at = "merge" /\ mode = NextMode
        /\ GoTo("merge_resources")
        /\ merged' = [merged EXCEPT ![mode].benchmarks = BenchmarksOf(mode)]
        /\ rounds' = rounds
    BY <1>12 DEF MergeBenchmarks
  <2>2. script'.at = "merge_resources" /\ script'.left = script.left
    BY <1>1, <2>1, GoToMoves
  <2>3. NextMode' = mode
    BY <2>1, <2>2 DEF NextMode
  <2>4. merged'[mode].benchmarks # << >>
    BY <2>1, DocumentsAreThere DEF TypeOK
  <2>5. Merging'
    BY <2>3, <2>4 DEF Merging
  <2>6. Placed' /\ UnderWay'
    BY <2>1, <2>2 DEF Placed, UnderWay, InBlock
  <2> QED
    BY <2>5, <2>6
<1>13. ASSUME NEW mode \in Modes, MergeResources(mode), script' # Down
       PROVE  Progress'
  <2>1. script' = [script EXCEPT !.at = "merge", !.left = @ \ {mode}] /\ rounds' = rounds /\ Len(rounds) = Rounds
    BY <1>13 DEF MergeResources, Placed
  <2>2. script'.at = "merge"
    BY <1>1, <2>1 DEF Script
  <2> QED
    BY <2>1, <2>2, ProgressOutside
<1>14. CASE Report
  <2>1. script'.at = "done" /\ rounds' = rounds /\ Len(rounds) = Rounds
    BY <1>1, <1>14, GoToMoves DEF Report, Placed
  <2> QED
    BY <2>1, ProgressOutside
<1>15. CASE script' = script /\ UNCHANGED <<rounds, bench, resource, merged, runs>>
  BY <1>15, ProgressStays
<1>16. \/ Start \/ PlanRound \/ Skip \/ StartMonitor \/ TouchStop \/ Copy \/ WriteBenchmark \/ Report
       \/ MonitorIsDone /\ ~ script.failed
       \/ PingFails \/ (TransferFails /\ script' # script)
       \/ \E mode \in Modes : MergeBenchmarks(mode) \/ MergeResources(mode)
       \/ script' = Down
       \/ script' = script /\ UNCHANGED <<rounds, bench, resource, merged, runs>>
  BY DEF Next, ScriptStep, MonitorIsDone, MonitorIsLost, Measure, TransferFails, CopyPartly, Abort,
     MonitorSeesStop, MonitorStops, MonitorDies, BenchmarkVars, hostVars, serverVars
<1> QED
  BY <1>2, <1>3, <1>4, <1>5, <1>6, <1>7, <1>8, <1>9, <1>10, <1>11, <1>12, <1>13, <1>14, <1>15, <1>16

(***************************************************************************)
(* The theorems.                                                           *)
(***************************************************************************)

LEMMA Invariance == Spec => []IInv
<1>1. IInv /\ [Next]_vars => IInv'
  <2> SUFFICES ASSUME IInv, [Next]_vars
               PROVE  IInv'
    OBVIOUS
  <2>1. CASE Next
    <3> USE DEF IInv, Files, Progress
    <3>1. TypeOK'
      BY <2>1, TypeKept
    <3>2. Balanced' /\ InOrder' /\ ResourcesMatch' /\ MergedFrom'
      BY <2>1, BalancedKept, InOrderKept, ResourcesMatchKept, MergedFromKept
    <3>3. Progress'
      BY <2>1, ProgressKept
    <3>4. Alone'
      BY <2>1, AloneKept
    <3> QED
      BY <3>1, <3>2, <3>3, <3>4
  <2>2. CASE UNCHANGED vars
    <3> USE <2>2 DEF IInv, vars, hostVars, serverVars
    <3>1. TypeOK'
      BY DEF TypeOK
    <3>2. Balanced' /\ InOrder' /\ ResourcesMatch'
      BY DEF Files, Balanced, InOrder, ResourcesMatch
    <3>3. ASSUME NEW mode \in Modes
          PROVE  MergedOf(mode)' = MergedOf(mode)
      BY DEF MergedOf, AllFound, BenchmarksOf, ResourcesOf, BlocksOf, BlockOf, Comparable
    <3>4. MergedFrom'
      BY <3>3 DEF Files, MergedFrom
    <3>5. Progress'
      BY ProgressStays
    <3>6. Alone'
      BY DEF Alone
    <3> QED
      BY <3>1, <3>2, <3>4, <3>5, <3>6 DEF Files
  <2> QED
    BY <2>1, <2>2
<1> QED
  BY <1>1, InitHolds, PTL DEF Spec

\* Type correctness; in particular no step of a block is tried more than
\* MaxAttempts times.
THEOREM TypeCorrect == Spec => []TypeOK
<1>1. IInv => TypeOK
  BY DEF IInv
<1> QED
  BY <1>1, Invariance, PTL

\* create_balanced_schedule, whatever the shuffle: every round has every mode
\* once, and no mode follows itself, across rounds either.
THEOREM ScheduleIsBalanced == Spec => []Balanced
<1>1. IInv => Balanced
  BY DEF IInv, Files
<1> QED
  BY <1>1, Invariance, PTL

\* "test -s" of both files is enough to keep a completed block for good: no
\* step of a later start writes either file.
THEOREM CompletedBlocksAreKept == Spec => CompletedIsKept
<1>1. IInv /\ [Next]_vars =>
        [\A b \in Blocks :
           bench[b].run # 0 /\ resource[b].run # 0 => bench'[b] = bench[b] /\ resource'[b] = resource[b]]_vars
  BY CompletedKept DEF IInv, Progress
<1> QED
  BY <1>1, Invariance, PTL DEF Spec, CompletedIsKept

\* The two files of a complete block are of one run, however many runs left
\* something behind, unless two monitors of the block met.
THEOREM ResourcesAlwaysMatch == Spec => []ResourcesMatch
<1>1. IInv => ResourcesMatch
  BY DEF IInv, Files
<1> QED
  BY <1>1, Invariance, PTL

\* What was merged of a mode are its blocks, one of each round and in their
\* order, of one setting, with the resources of the same runs; and the blocks
\* still are what was merged.
THEOREM MergedIsAlwaysSound == Spec => []MergedIsSound
<1>1. ASSUME IInv
      PROVE  MergedIsSound
  <2> SUFFICES ASSUME NEW mode \in Modes
               PROVE  /\ merged[mode].benchmarks # << >> =>
                           /\ merged[mode].benchmarks = BenchmarksOf(mode)
                           /\ \A i, j \in 1 .. Rounds :
                                merged[mode].benchmarks[i].setting = merged[mode].benchmarks[j].setting
                      /\ merged[mode].resources # << >> =>
                           \A i \in 1 .. Rounds :
                             /\ merged[mode].resources[i].whole
                             /\ \/ merged[mode].resources[i].run = merged[mode].benchmarks[i].run
                                \/ BlocksOf(mode)[i] \in shared
    BY DEF MergedIsSound
  <2>1. MergedOf(mode)
    BY <1>1 DEF IInv, Files, MergedFrom
  <2>2. ASSUME merged[mode].benchmarks # << >>, NEW i \in 1 .. Rounds, NEW j \in 1 .. Rounds
        PROVE  merged[mode].benchmarks[i].setting = merged[mode].benchmarks[j].setting
    <3>1. merged[mode].benchmarks = BenchmarksOf(mode) /\ Comparable(BenchmarksOf(mode))
      BY <2>1, <2>2 DEF MergedOf
    <3>2. DOMAIN BenchmarksOf(mode) = 1 .. Rounds
      BY DEF BenchmarksOf
    <3> QED
      BY <3>1, <3>2 DEF Comparable
  <2>3. ASSUME merged[mode].resources # << >>, NEW i \in 1 .. Rounds
        PROVE  /\ merged[mode].resources[i].whole
               /\ \/ merged[mode].resources[i].run = merged[mode].benchmarks[i].run
                  \/ BlocksOf(mode)[i] \in shared
    <3>1. /\ merged[mode].benchmarks = BenchmarksOf(mode) /\ merged[mode].resources = ResourcesOf(mode)
          /\ AllFound(mode) /\ Scheduled /\ ResourcesOf(mode)[i].whole
      BY <1>1, <2>1, <2>3 DEF MergedOf, Scheduled, IInv, TypeOK
    <3>2. BlocksOf(mode)[i] \in Blocks
      BY <3>1, BlockInSchedule DEF BlocksOf
    <3>3. bench[BlocksOf(mode)[i]].run # 0 /\ resource[BlocksOf(mode)[i]].run # 0
      BY <3>1 DEF AllFound
    <3>4. \/ resource[BlocksOf(mode)[i]].run = bench[BlocksOf(mode)[i]].run
          \/ BlocksOf(mode)[i] \in shared
      BY <1>1, <3>2, <3>3 DEF IInv, Files, ResourcesMatch
    <3> QED
      BY <3>1, <3>4 DEF BenchmarksOf, ResourcesOf
  <2> QED
    BY <2>1, <2>2, <2>3 DEF MergedOf
<1> QED
  BY <1>1, Invariance, PTL
=============================================================================
