------------------------- MODULE GuiEndpoint_proofs -------------------------
(***************************************************************************)
(* The safety properties of the graphical client, for pipes and kill       *)
(* timers of every number.  Together with the types they are inductive as  *)
(* they stand; the work is in the lemmas on what a callback does to the    *)
(* pair of the controller's and the window's state.                        *)
(***************************************************************************)
EXTENDS GuiEndpoint, FiniteSetTheorems, WellFoundedInduction, TLAPS

USE ConstantsAssumption

Item == [line : Lines, newline : BOOLEAN]

Agrees(g) == g.shown # g.state => g.shown = "error" /\ g.state = "disconnected"

\* A set of positions that is not empty has a last one.
LEMMA LastIsMember ==
  ASSUME NEW n \in Nat, NEW S \in SUBSET (1 .. n), S # {}
  PROVE  Last(S) \in S
<1> DEFINE I == 1 .. n
           After(i) == {j \in S : i < j}
           T == {After(i) : i \in S}
<1>1. IsFiniteSet(I)
  BY FS_Interval
<1>2. IsWellFoundedOn(StrictSubsetOrdering(I), SUBSET I)
  BY <1>1, FS_StrictSubsetOrderingWellFounded, FS_FiniteSubsetsOfFinite
<1>3. T \subseteq SUBSET I /\ T # {}
  OBVIOUS
<1>4. PICK m \in T : \A t \in T : ~ (<<t, m>> \in StrictSubsetOrdering(I))
  <2> HIDE DEF T, I
  <2> QED BY <1>2, <1>3, WFMin
<1>5. PICK i \in S : m = After(i)
  OBVIOUS
<1>6. \A j \in S : j <= i
  <2> SUFFICES ASSUME NEW j \in S, i < j
               PROVE  FALSE
    OBVIOUS
  <2>0. \A k \in S : k \in Int
    OBVIOUS
  <2>1. After(j) \subseteq After(i) /\ j \in After(i) /\ j \notin After(j)
    <3>1. \A k \in S : j < k => i < k
      BY <2>0
    <3>2. ~ (j < j)
      BY <2>0
    <3> QED BY <3>1, <3>2
  <2>2. After(j) \in SUBSET I /\ After(i) \in SUBSET I
    OBVIOUS
  <2>3. <<After(j), After(i)>> \in StrictSubsetOrdering(I)
    <3> HIDE DEF I, After
    <3> QED BY <2>1, <2>2 DEF StrictSubsetOrdering
  <2>4. After(j) \in T
    OBVIOUS
  <2> HIDE DEF T, After
  <2> QED BY <1>4, <1>5, <2>3, <2>4
<1> QED BY <1>6 DEF Last

LEMMA StateOfType ==
  ASSUME NEW line \in Lines, line # "other"
  PROVE  StateOf(line) \in States
BY DEF Lines, StateOf, States

\* A change of the controller's state brings the window in step with it.
LEMMA SetStateEffect ==
  ASSUME NEW g \in Gui, NEW s \in States, Agrees(g)
  PROVE  /\ SetState(g, s) \in Gui
         /\ Agrees(SetState(g, s))
         /\ SetState(g, s).state = s
         /\ s \in Idle => SetState(g, s).shown \in Idle
BY DEF SetState, Gui, Agrees, Idle, States

LEMMA ConsumeEffect ==
  ASSUME NEW g \in Gui, NEW line \in Lines, Agrees(g)
  PROVE  Consume(g, line) \in Gui /\ Agrees(Consume(g, line))
<1>1. CASE line = "other"
  BY <1>1 DEF Consume
<1>2. CASE line # "other"
  BY <1>2, StateOfType, SetStateEffect DEF Consume
<1> QED BY <1>1, <1>2

\* However many lines are read at once, the window stays in step.
LEMMA ReadEffect ==
  ASSUME NEW g \in Gui, NEW lines \in Seq(Item), Agrees(g)
  PROVE  Read(g, lines) \in Gui /\ Agrees(Read(g, lines))
<1> DEFINE told == Telling(lines)
           new == StateOf(lines[Last(told)].line)
           rest == {i \in DOMAIN lines : ~ lines[i].newline}
           h == IF \A i \in told : StateOf(lines[i].line) = g.state THEN g
                ELSE [g EXCEPT !.state = new, !.shown = new]
<1>1. /\ Len(lines) \in Nat
      /\ told \in SUBSET (1 .. Len(lines))
      /\ rest \in SUBSET (1 .. Len(lines))
      /\ \A i \in 1 .. Len(lines) : lines[i] \in Item
  BY DEF Telling
<1>2. h \in Gui /\ Agrees(h)
  <2>1. CASE \A i \in told : StateOf(lines[i].line) = g.state
    BY <2>1
  <2>2. CASE ~ \A i \in told : StateOf(lines[i].line) = g.state
    <3>1. Last(told) \in told
      BY <1>1, <2>2, LastIsMember
    <3>2. lines[Last(told)].line \in Lines /\ lines[Last(told)].line # "other"
      BY <1>1, <3>1 DEF Telling, Item
    <3>3. new \in States
      BY <3>2, StateOfType
    <3>4. h = [g EXCEPT !.state = new, !.shown = new]
      BY <2>2
    <3> QED BY <3>3, <3>4 DEF Gui, Agrees
  <2> QED BY <2>1, <2>2
<1>3. CASE rest = {}
  BY <1>2, <1>3 DEF Read
<1>4. CASE rest # {}
  <2>1. Last(rest) \in rest
    BY <1>1, <1>4, LastIsMember
  <2>2. lines[Last(rest)].line \in Lines
    BY <1>1, <2>1 DEF Item
  <2>3. Read(g, lines) = [h EXCEPT !.buffer = lines[Last(rest)].line]
    BY <1>4 DEF Read
  <2> HIDE DEF h
  <2> QED BY <1>2, <2>2, <2>3 DEF Gui, Agrees
<1> QED BY <1>3, <1>4

\* After the end of its process the controller is idle, and so is the window:
\* what was left in the buffer is consumed before.
LEMMA FinishedEffect ==
  ASSUME NEW g \in Gui, NEW exit, Agrees(g)
  PROVE  /\ Finished(g, exit) \in Gui
         /\ Agrees(Finished(g, exit))
         /\ Finished(g, exit).state \in Idle
         /\ Finished(g, exit).shown \in Idle
<1> DEFINE s == IF g.stopping \/ exit = "ok" THEN "disconnected" ELSE "error"
<1>1. s \in States /\ s \in Idle
  BY DEF States, Idle
<1>2. Flush(g) \in Gui /\ Agrees(Flush(g))
  <2>1. CASE g.buffer = "nothing"
    BY <2>1 DEF Flush
  <2>2. CASE g.buffer # "nothing"
    <3>1. g.buffer \in Lines
      BY <2>2 DEF Gui
    <3>2. Consume(g, g.buffer) \in Gui /\ Agrees(Consume(g, g.buffer))
      BY <3>1, ConsumeEffect
    <3>3. Flush(g) = [Consume(g, g.buffer) EXCEPT !.buffer = "nothing"]
      BY <2>2 DEF Flush
    <3> QED BY <3>2, <3>3 DEF Gui, Agrees
  <2> QED BY <2>1, <2>2
<1>3. Finished(g, exit) = SetState(Flush(g), s)
  BY DEF Finished
<1> HIDE DEF s
<1>4. SetState(Flush(g), s).state = s
  BY <1>1, <1>2, SetStateEffect
<1> QED BY <1>1, <1>2, <1>3, <1>4, SetStateEffect

IInv == TypeOK /\ IdleIsShown /\ WindowAgrees

LEMMA SignalledType ==
  ASSUME NEW c \in Child, NEW signal \in {"term", "kill"}
  PROVE  Signalled(c, signal) \in Child
BY DEF Signalled, Child

\* stop, from any window that is in step.
LEMMA StopEffect ==
  ASSUME IInv, NEW g \in Gui, Agrees(g), Stop(g),
         g.state = gui.state, g.shown = gui.shown
  PROVE  /\ gui' \in Gui /\ child' \in Child /\ timers' \in 0 .. MaxTimers
         /\ Agrees(gui')
         /\ process = "NotRunning" => gui'.state \in Idle /\ gui'.shown \in Idle
<1>1. CASE process = "NotRunning"
  BY <1>1 DEF IInv, TypeOK, IdleIsShown, Stop
<1>2. CASE process # "NotRunning"
  <2> DEFINE h == [g EXCEPT !.stopping = TRUE]
  <2>1. h \in Gui /\ Agrees(h)
    BY DEF Gui, Agrees
  <2>2. gui' = SetState(h, "stopping")
    BY <1>2 DEF Stop
  <2>3. gui' \in Gui /\ Agrees(gui')
    <3> HIDE DEF h
    <3> QED BY <2>1, <2>2, SetStateEffect DEF States
  <2>4. child' \in Child
    BY <1>2, SignalledType DEF Stop, IInv, TypeOK
  <2>5. timers' \in 0 .. MaxTimers
    BY <1>2 DEF Stop, Armed, IInv, TypeOK
  <2> QED BY <1>2, <2>3, <2>4, <2>5
<1> QED BY <1>1, <1>2

LEMMA InitIInv == Init => IInv
BY DEF Init, IInv, TypeOK, IdleIsShown, WindowAgrees, NoChild, Child, Gui, States, Idle

LEMMA StepIInv == IInv /\ [Next]_vars => IInv'
<1> SUFFICES ASSUME IInv, [Next]_vars
             PROVE  IInv'
  OBVIOUS
<1> USE DEF IInv
<1>a. gui \in Gui /\ child \in Child /\ pipe \in Seq(Item) /\ timers \in 0 .. MaxTimers
  BY DEF TypeOK, Item
<1>b. Agrees(gui)
  BY DEF WindowAgrees, Agrees
<1>c. NoChild \in Child
  BY DEF NoChild, Child
\* What each step has to establish.
<1> DEFINE Good ==
      /\ process' \in {"NotRunning", "Starting", "Running"}
      /\ child' \in Child /\ pipe' \in Seq(Item) /\ gui' \in Gui
      /\ timers' \in 0 .. MaxTimers
      /\ Agrees(gui')
      /\ process' = "NotRunning" => gui'.state \in Idle /\ gui'.shown \in Idle
<1>d. SUFFICES Good
  BY DEF TypeOK, IdleIsShown, WindowAgrees, Agrees, Item
<1>e. \A p : p = process => p \in {"NotRunning", "Starting", "Running"}
  BY DEF TypeOK
<1>1. CASE Connect
  <2>1. CASE gui' = Refused(gui) /\ UNCHANGED <<process, child>>
    <3>1. gui' \in Gui /\ Agrees(gui')
      BY <1>1, <1>a, <1>b, <2>1 DEF Connect, CanConnect, Refused, Gui, Agrees, Idle, States
    <3>2. gui'.state = gui.state /\ gui'.shown = "error"
      BY <1>a, <2>1 DEF Refused, Gui
    <3> QED BY <1>1, <1>a, <1>e, <2>1, <3>1, <3>2 DEF Connect, IdleIsShown, Idle
  <2>2. CASE /\ gui' = SetState([gui EXCEPT !.stopping = FALSE], "connecting")
             /\ process' = "Starting"
             /\ child' = [NoChild EXCEPT !.life = "alive"]
    <3> DEFINE h == [gui EXCEPT !.stopping = FALSE]
    <3>1. h \in Gui /\ Agrees(h)
      BY <1>a, <1>b DEF Gui, Agrees
    <3>2. gui' \in Gui /\ Agrees(gui')
      <4>1. gui' = SetState(h, "connecting")
        BY <2>2
      <4> HIDE DEF h
      <4> QED BY <3>1, <4>1, SetStateEffect DEF States
    <3>3. child' \in Child
      BY <2>2 DEF NoChild, Child
    <3> QED BY <1>1, <1>a, <2>2, <3>2, <3>3 DEF Connect
  <2> QED BY <1>1, <2>1, <2>2 DEF Connect
<1>2. CASE Disconnect
  BY <1>2, <1>a, <1>b, <1>e, StopEffect DEF Disconnect
<1>3. CASE Close
  <2> DEFINE h == [gui EXCEPT !.open = FALSE]
  <2>1. h \in Gui /\ Agrees(h) /\ h.state = gui.state /\ h.shown = gui.shown
    BY <1>a, <1>b DEF Gui, Agrees
  <2>2. Stop(h) /\ UNCHANGED <<process, pipe>>
    BY <1>3 DEF Close
  <2> HIDE DEF h
  <2> QED BY <1>a, <1>e, <2>1, <2>2, StopEffect
<1>4. CASE Browse
  <2>1. PICK p \in {"preview", "ready"} :
          gui' = [gui EXCEPT !.profile = p, !.shown = gui.state]
    BY <1>4 DEF Browse
  <2>2. gui' \in Gui /\ Agrees(gui') /\ gui'.state = gui.state /\ gui'.shown = gui.state
    BY <1>a, <2>1 DEF Gui, Agrees
  <2> QED BY <1>4, <1>a, <1>e, <2>2 DEF Browse, IdleIsShown
<1>5. CASE Started
  BY <1>5, <1>a, <1>b DEF Started
<1>6. CASE FailedToStart
  <2>1. gui' = SetState(gui, "error")
    BY <1>6 DEF FailedToStart
  <2>2. /\ gui' \in Gui /\ Agrees(gui')
        /\ gui'.state \in Idle /\ gui'.shown \in Idle
    BY <1>a, <1>b, <2>1, SetStateEffect DEF States, Idle
  <2> QED BY <1>6, <1>a, <1>c, <2>2 DEF FailedToStart
<1>7. CASE ReadyRead
  <2>1. gui' \in Gui /\ Agrees(gui')
    BY <1>7, <1>a, <1>b, ReadEffect DEF ReadyRead
  <2>2. process = "Running" /\ process' = process /\ pipe' = <<>>
    BY <1>7 DEF ReadyRead
  <2> QED BY <1>7, <1>a, <2>1, <2>2 DEF ReadyRead
<1>8. CASE ChildEnded
  <2>1. Read(gui, pipe) \in Gui /\ Agrees(Read(gui, pipe))
    BY <1>a, <1>b, ReadEffect
  <2>2. gui' = Finished(Read(gui, pipe), child.exit)
    BY <1>8 DEF ChildEnded
  <2>3. /\ gui' \in Gui /\ Agrees(gui')
        /\ gui'.state \in Idle /\ gui'.shown \in Idle
    BY <2>1, <2>2, FinishedEffect
  <2> QED BY <1>8, <1>a, <1>c, <2>3 DEF ChildEnded
<1>9. CASE KillTimer
  <2>1. child' \in Child
    BY <1>9, <1>a, SignalledType DEF KillTimer
  <2>2. timers' \in 0 .. MaxTimers
    BY <1>9, <1>a DEF KillTimer
  <2> QED BY <1>9, <1>a, <1>b, <1>e, <2>1, <2>2 DEF KillTimer, IdleIsShown
<1>10. CASE Write
  <2>1. PICK line \in Lines, newline \in BOOLEAN :
          /\ pipe' = Append(pipe, [line |-> line, newline |-> newline])
          /\ child' = [child EXCEPT !.last = ~ newline \/ line = "endpoint_stopped"]
    BY <1>10 DEF Write
  <2>2. pipe' \in Seq(Item)
    BY <1>a, <2>1 DEF Item
  <2>3. child' \in Child
    BY <1>a, <2>1 DEF Child
  <2> QED BY <1>10, <1>a, <1>b, <1>e, <2>2, <2>3 DEF Write, IdleIsShown
<1>11. CASE Exit
  <2>1. PICK exit \in {"ok", "failed", "crashed"} :
          child' = [child EXCEPT !.life = "exited", !.exit = exit]
    BY <1>11 DEF Exit
  <2>2. child' \in Child
    BY <1>a, <2>1 DEF Child
  <2> QED BY <1>11, <1>a, <1>b, <1>e, <2>2 DEF Exit, IdleIsShown
<1>12. CASE Authorise
  <2>1. child' \in Child
    BY <1>12, <1>a DEF Authorise, Child
  <2> QED BY <1>12, <1>a, <1>b, <1>e, <2>1 DEF Authorise, IdleIsShown
<1>13. CASE UNCHANGED vars
  BY <1>13, <1>a, <1>b, <1>e DEF vars, IdleIsShown
<1> QED BY <1>1, <1>2, <1>3, <1>4, <1>5, <1>6, <1>7, <1>8, <1>9, <1>10, <1>11, <1>12, <1>13
        DEF Next

LEMMA InvariantHolds == Spec => []IInv
BY InitIInv, StepIInv, PTL DEF Spec

\* Types, for a child that may be any number of lines ahead.
THEOREM TypeCorrect == Spec => []TypeOK
BY InvariantHolds, PTL DEF IInv

\* Whatever _read_standard_error, _flush_buffers and _on_finished make of the
\* last lines of a log, the client is idle when its process is gone.
THEOREM IdleShown == Spec => []IdleIsShown
BY InvariantHolds, PTL DEF IInv

\* The signals of _set_state keep the window in step with the controller.
THEOREM WindowInStep == Spec => []WindowAgrees
BY InvariantHolds, PTL DEF IInv
=============================================================================
