----------------------------- MODULE GuiEndpoint -----------------------------
(***************************************************************************)
(* The graphical client (gui.py): an EndpointProcess, which runs the       *)
(* endpoint as a child process and follows the events it logs, and the     *)
(* MainWindow with its three buttons.                                      *)
(*                                                                         *)
(* Everything in the client happens in Qt's event loop: one action is one  *)
(* whole callback, with the signals it emits (they are connected in the    *)
(* same thread, so their slots run inside emit).  What the callbacks       *)
(* interleave with is the child: it writes lines to its standard error and *)
(* ends when it likes, and QProcess notices either later.                  *)
(*                                                                         *)
(* The child is pkexec, which replaces itself by the endpoint once root's  *)
(* rights are granted: from then on a client that is not root itself may   *)
(* not signal it.                                                          *)
(***************************************************************************)
EXTENDS Naturals, Sequences

CONSTANTS
  MaxPipe,    \* lines the child may be ahead of the client
  MaxTimers   \* kill timers that may be pending at once

ASSUME ConstantsAssumption == MaxPipe \in Nat /\ MaxTimers \in Nat \ {0}

VARIABLES
  process,  \* QProcess.state()
  child,    \* the process of the operating system
  pipe,     \* what the child has written and the client has not read
  gui,      \* EndpointProcess and MainWindow
  timers    \* pending calls of _kill_if_running

vars == <<process, child, pipe, gui, timers>>

(***************************************************************************)
(* State.  buffer is what _stderr_buffer holds: nothing or a last line     *)
(* without its newline; standard output is handled in the same way.  state *)
(* is the controller's, shown the window's.  profile says what set_profile *)
(* made of the last file: a preview if its keys could not be loaded.       *)
(***************************************************************************)
States ==
  {"disconnected", "connecting", "connected", "reconnecting", "stopping", "error"}

\* Lines without an effect on the state are "other": text, and other events.
\* root says of a child that it is the endpoint and no longer pkexec, and of
\* the client that it was started by root.
Lines == {"session_established", "reconnect_scheduled", "endpoint_stopped", "other"}

Child == [life : {"none", "alive", "exited"}, signal : {"none", "term", "kill"},
          exit : {"ok", "failed", "crashed"}, last : BOOLEAN, root : BOOLEAN]

Gui == [state : States, shown : States, stopping : BOOLEAN,
        buffer : Lines \cup {"nothing"},
        profile : {"none", "preview", "ready"}, open : BOOLEAN, root : BOOLEAN]

NoChild == [life |-> "none", signal |-> "none", exit |-> "ok", last |-> FALSE, root |-> FALSE]

Idle == {"disconnected", "error"}

\* MainWindow._set_state: which buttons are enabled.
CanConnect == gui.open /\ gui.shown \in Idle /\ gui.profile = "ready"
CanDisconnect == gui.open /\ gui.shown \notin Idle
CanBrowse == gui.open /\ gui.shown \in Idle

\* EndpointProcess._set_state: a change is signalled to the window.
SetState(g, s) == IF s = g.state THEN g ELSE [g EXCEPT !.state = s, !.shown = s]

(***************************************************************************)
(* Reading                                                                 *)
(***************************************************************************)
\* Bug: the name of the event becomes the state.
NamedState(line) == line

StateOf(line) ==
  CASE line = "session_established" -> "connected"
    [] line = "reconnect_scheduled" -> "reconnecting"
    [] line = "endpoint_stopped" -> "disconnected"

\* consume_log_line.
Consume(g, line) == IF line = "other" THEN g ELSE SetState(g, StateOf(line))

\* The lines that name a state and have their newline.
Telling(lines) == {i \in DOMAIN lines : lines[i].newline /\ lines[i].line # "other"}

Last(S) == CHOOSE i \in S : \A j \in S : j <= i

\* _read_standard_error: every line that has its newline is consumed, in order.
\* The last one that names a state decides, if any of them changes it at all;
\* a line without a newline stays in the buffer.
Read(g, lines) ==
  LET told == Telling(lines)
      new == StateOf(lines[Last(told)].line)
      rest == {i \in DOMAIN lines : ~ lines[i].newline}
      h == IF \A i \in told : StateOf(lines[i].line) = g.state THEN g
           ELSE [g EXCEPT !.state = new, !.shown = new]
  IN  IF rest = {} THEN h ELSE [h EXCEPT !.buffer = lines[Last(rest)].line]

\* The end of the last line, if the child ended in the middle of it.
Flush(g) ==
  IF g.buffer = "nothing" THEN g
  ELSE [Consume(g, g.buffer) EXCEPT !.buffer = "nothing"]

\* Bug: the rest of the log is consumed after the end was noted.
FinishedFlushingLast(g, exit) ==
  Flush(SetState(g, IF g.stopping \/ exit = "ok" THEN "disconnected" ELSE "error"))

\* _on_finished.
Finished(g, exit) ==
  SetState(Flush(g), IF g.stopping \/ exit = "ok" THEN "disconnected" ELSE "error")

(***************************************************************************)
(* The user                                                                *)
(***************************************************************************)
\* Bug: the profile is loaded after the state has changed.
RefusedLate(g) == [SetState([g EXCEPT !.stopping = FALSE], "connecting") EXCEPT !.shown = "error"]

\* _connect_endpoint when start raises: only the window is told.
Refused(g) == [g EXCEPT !.shown = "error"]

\* start: refused while a process is there, or if the profile or its keys can
\* no longer be loaded.
Connect ==
  /\ CanConnect
  /\ \/ /\ gui' = Refused(gui)
        /\ UNCHANGED <<process, child>>
     \/ /\ process = "NotRunning"
        /\ gui' = SetState([gui EXCEPT !.stopping = FALSE], "connecting")
        /\ process' = "Starting"
        /\ child' = [NoChild EXCEPT !.life = "alive"]
  /\ UNCHANGED <<pipe, timers>>

\* kill(2) refuses an ordinary user's signal to a process of root; terminate and
\* kill of QProcess do not tell.
OutOfReach(c) == c.root /\ ~ gui.root

Signalled(c, signal) ==
  IF c.life = "alive" /\ c.signal # "kill" /\ ~ OutOfReach(c)
  THEN [c EXCEPT !.signal = signal] ELSE c

\* Bug: nothing follows the request to terminate.
ArmedNever(n) == n

Armed(n) == n + 1

\* stop, and what it does to the window g.
Stop(g) ==
  IF process = "NotRunning"
  THEN gui' = g /\ UNCHANGED <<child, timers>>
  ELSE /\ gui' = SetState([g EXCEPT !.stopping = TRUE], "stopping")
       /\ child' = Signalled(child, "term")
       /\ timers < MaxTimers
       /\ timers' = Armed(timers)

Disconnect ==
  /\ CanDisconnect
  /\ Stop(gui)
  /\ UNCHANGED <<process, pipe>>

\* closeEvent; the event loop ends with its last window.
Close ==
  /\ gui.open
  /\ Stop([gui EXCEPT !.open = FALSE])
  /\ UNCHANGED <<process, pipe>>

\* _browse_profile and set_profile; a file that does not load changes nothing.
Browse ==
  /\ CanBrowse
  /\ \E p \in {"preview", "ready"} :
       gui' = [gui EXCEPT !.profile = p, !.shown = gui.state]
  /\ UNCHANGED <<process, child, pipe, timers>>

(***************************************************************************)
(* Callbacks of QProcess and QTimer                                        *)
(***************************************************************************)
Started ==
  /\ gui.open
  /\ process = "Starting"
  /\ process' = "Running"
  /\ UNCHANGED <<child, pipe, gui, timers>>

\* pkexec cannot be executed, so nothing was written: errorOccurred, no finished.
FailedToStart ==
  /\ gui.open
  /\ process = "Starting"
  /\ pipe = <<>> /\ ~ child.root
  /\ process' = "NotRunning"
  /\ child' = NoChild
  /\ gui' = SetState(gui, "error")
  /\ UNCHANGED <<pipe, timers>>

ReadyRead ==
  /\ gui.open
  /\ process = "Running"
  /\ pipe # <<>>
  /\ gui' = Read(gui, pipe)
  /\ pipe' = <<>>
  /\ UNCHANGED <<process, child, timers>>

\* QProcess reads what is left before it emits finished.
ChildEnded ==
  /\ gui.open
  /\ process = "Running"
  /\ child.life = "exited"
  /\ process' = "NotRunning"
  /\ gui' = Finished(Read(gui, pipe), child.exit)
  /\ child' = NoChild
  /\ pipe' = <<>>
  /\ UNCHANGED timers

\* _kill_if_running: it does not ask which process the timer was set for.
KillTimer ==
  /\ gui.open
  /\ timers > 0
  /\ timers' = timers - 1
  /\ child' = IF process = "NotRunning" THEN child ELSE Signalled(child, "kill")
  /\ UNCHANGED <<process, pipe, gui>>

(***************************************************************************)
(* The child.  endpoint_stopped is the last line of a run that an          *)
(* interrupt ended; a line without newline is the last of any.  pkexec     *)
(* logs no events, and succeeds only as the endpoint.                      *)
(***************************************************************************)
Authorise ==
  /\ child.life = "alive" /\ child.signal # "kill" /\ ~ child.root
  /\ child' = [child EXCEPT !.root = TRUE]
  /\ UNCHANGED <<process, pipe, gui, timers>>

Write ==
  /\ child.life = "alive" /\ ~ child.last
  /\ Len(pipe) < MaxPipe
  /\ \E line \in Lines, newline \in BOOLEAN :
       /\ line # "other" => child.root
       /\ pipe' = Append(pipe, [line |-> line, newline |-> newline])
       /\ child' = [child EXCEPT !.last = ~ newline \/ line = "endpoint_stopped"]
  /\ UNCHANGED <<process, gui, timers>>

\* A signal may end it at any time, and so may its own error or an interrupt.
Exit ==
  /\ child.life = "alive"
  /\ \E exit \in {"ok", "failed", "crashed"} :
       (exit = "ok" => child.root) /\ child' = [child EXCEPT !.life = "exited", !.exit = exit]
  /\ UNCHANGED <<process, pipe, gui, timers>>

Killed == child.signal = "kill" /\ Exit

Init ==
  /\ process = "NotRunning"
  /\ child = NoChild
  /\ pipe = <<>>
  /\ \E root \in BOOLEAN :
       gui = [state |-> "disconnected", shown |-> "disconnected", stopping |-> FALSE,
              buffer |-> "nothing", profile |-> "none", open |-> TRUE, root |-> root]
  /\ timers = 0

Next ==
  \/ Connect \/ Disconnect \/ Browse \/ Close
  \/ Started \/ FailedToStart \/ ReadyRead \/ ChildEnded \/ KillTimer
  \/ Authorise \/ Write \/ Exit

\* Qt delivers what is due, and nothing survives SIGKILL.
Fairness ==
  /\ WF_vars(Started \/ FailedToStart)
  /\ WF_vars(ChildEnded)
  /\ WF_vars(KillTimer)
  /\ WF_vars(Killed)

Spec == Init /\ [][Next]_vars /\ Fairness

(***************************************************************************)
(* Properties                                                              *)
(***************************************************************************)

TypeOK ==
  /\ process \in {"NotRunning", "Starting", "Running"}
  /\ child \in Child
  /\ pipe \in Seq([line : Lines, newline : BOOLEAN])
  /\ gui \in Gui
  /\ timers \in 0 .. MaxTimers

\* When no process is there the client says so and Connect is not blocked:
\* whatever the last lines of its log were, when they are read, and whether the
\* process stopped, failed, crashed or never started.
IdleIsShown ==
  process = "NotRunning" => gui.state \in Idle /\ gui.shown \in Idle

\* The window shows another state than the controller's only after a refused
\* start, and then an error: it never shows a connection that is not there.
WindowAgrees ==
  gui.shown # gui.state => gui.shown = "error" /\ gui.state = "disconnected"

\* Disconnect works even if the child ignores the request to terminate, and
\* whatever it logs in the meantime: while the window is open its process ends,
\* unless the client may not signal it.  That is so of an endpoint that runs as
\* root when the client does not, also if root's rights were granted only after
\* Disconnect; nothing then makes it end.
StopEnds ==
  gui.stopping /\ process # "NotRunning"
    ~> process = "NotRunning" \/ ~ gui.open \/ OutOfReach(child)
=============================================================================
