---------------------------- MODULE PointToPoint ----------------------------
(***************************************************************************)
(* The two endpoints of a point-to-point VPN with the ephemeral handshake: *)
(* run_with_reconnect (operations.py) around run_session (cli.py), which   *)
(* opens a socket, runs the handshake of its role (handshake.py) and then  *)
(* a TunnelEngine.  The engine is reduced to what decides how long it      *)
(* lives: its two timers, and which datagrams restart the longer one.      *)
(*                                                                         *)
(* Time is counted in ticks and does not pass over a timer that is due.    *)
(* The network delivers in order and within MaxDelay, except for the       *)
(* faults: it may lose a datagram, deliver it out of turn, or deliver a    *)
(* copy of it; a session may fail with an OSError; a process may end and   *)
(* be launched again.  There are at most MaxFaults of them, at any time.   *)
(***************************************************************************)
EXTENDS Integers, FiniteSets

CONSTANTS
  Attempts,           \* DEFAULT_HANDSHAKE_ATTEMPTS
  HandshakeTimeout,   \* per endpoint, in ticks, as are the next three
  ReconnectDelay,
  KeepaliveInterval,
  LivenessTimeout,
  MaxDelay,           \* ticks a datagram may take
  MaxLate,            \* ticks a datagram out of turn may take
  MaxFaults           \* how many faults happen

Endpoints == {"client", "server"}

Peer(e) == IF e = "client" THEN "server" ELSE "client"

\* config.py and cli.py: positive timeouts, and liveness with both its values.
\* A reconnect delay or keepalive interval below a tick is not modelled.
ASSUME ConstantsAssumption ==
  /\ Attempts \in Nat \ {0} /\ MaxDelay \in Nat /\ MaxFaults \in Nat
  /\ MaxLate \in Nat /\ MaxDelay <= MaxLate
  /\ {HandshakeTimeout, ReconnectDelay, KeepaliveInterval, LivenessTimeout}
       \subseteq [Endpoints -> Nat \ {0}]
  /\ \A e \in Endpoints : KeepaliveInterval[e] < LivenessTimeout[e]

\* A session that only one end has is over: the server gives up, and what it
\* last sent keeps the client for one timeout more.  Or the other way round.
OrphansOver == LivenessTimeout["server"] + MaxDelay + LivenessTimeout["client"]

\* A client without a session has sent its next hello, and it has arrived.
HelloComes == HandshakeTimeout["client"] + ReconnectDelay["client"] + MaxDelay

\* How long recovery takes at most: orphans end; a hello comes, and may find the
\* server between two rounds; after its delay the next one comes; the answer
\* travels.
Deadline ==
  OrphansOver + HelloComes + ReconnectDelay["server"] + HelloComes + MaxDelay

VARIABLES
  node,    \* per endpoint, what its process is doing
  net,     \* the datagrams on their way, with the ticks they may still take
  faults,  \* faults that have happened
  calm     \* ticks since the last fault

vars == <<node, net, faults, calm>>

(***************************************************************************)
(* State.  A session is the hello and the answer its secret is derived     *)
(* from; either is a number, 0 for none.  Numbers are given again once     *)
(* nothing refers to them.  wait is the time left of the sleep, of the     *)
(* blocking receive, or to the liveness timeout; left counts the handshake *)
(* attempts that remain after the current one.                             *)
(***************************************************************************)
Session == [hello : Nat, answer : Nat]

NoSession == [hello |-> 0, answer |-> 0]

Node == [phase : {"sleeping", "handshake", "engine", "ended"},
         session : Session, left : 0 .. Attempts - 1, wait : Nat, due : Nat]

Datagram == [to : Endpoints, type : {"HELLO", "ANSWER", "DATA"},
             session : Session, left : 0 .. MaxLate]

\* run_with_reconnect after an OSError, and the handshake's TimeoutError is one.
Sleeping(e) ==
  [phase |-> "sleeping", session |-> NoSession, left |-> 0,
   wait |-> ReconnectDelay[e], due |-> 0]

Handshaking(e, s, left) ==
  [phase |-> "handshake", session |-> s, left |-> left,
   wait |-> HandshakeTimeout[e], due |-> 0]

\* TunnelEngine.__init__, with the session's cipher.
Established(e, s) ==
  [phase |-> "engine", session |-> s, left |-> 0,
   wait |-> LivenessTimeout[e], due |-> KeepaliveInterval[e]]

Gone == [phase |-> "ended", session |-> NoSession, left |-> 0, wait |-> 0, due |-> 0]

From(e, type, s) == [to |-> Peer(e), type |-> type, session |-> s, left |-> MaxDelay]

\* What a handshake loop sends when it begins an attempt.
Opening(e, s) == IF e = "client" THEN {From(e, "HELLO", s)} ELSE {}

InUse == {node[e].session : e \in Endpoints} \cup {d.session : d \in net}

Unused(names) == CHOOSE n \in 1 .. Cardinality(names) + 1 : n \notin names

NewHello == Unused({s.hello : s \in InUse})

NewAnswer == Unused({s.answer : s \in InUse})

(***************************************************************************)
(* Steps of an endpoint.  Become is what each of them has in common.       *)
(***************************************************************************)
Become(e, x, read, out) ==
  /\ node' = [node EXCEPT ![e] = x]
  /\ net' = (net \ read) \cup out
  /\ UNCHANGED <<faults, calm>>

\* run_session opens its socket; the client makes its hello and sends it.
Open(e) ==
  LET s == IF e = "client" THEN [NoSession EXCEPT !.hello = NewHello] ELSE NoSession
  IN  /\ node[e].phase = "sleeping"
      /\ node[e].wait = 0
      /\ Become(e, Handshaking(e, s, Attempts - 1), {}, Opening(e, s))

\* Bug: the test comes one attempt too late.
LastAttemptLate(x) == x.left + 1 = 0

LastAttempt(x) == x.left = 0

\* An attempt is over, by its timeout or by a datagram that is of no use: the
\* loop goes on with the same hello, or raises TimeoutError.
NextAttempt(e, read) ==
  LET x == node[e] IN
  IF LastAttempt(x) THEN Become(e, Sleeping(e), read, {})
  ELSE Become(e, Handshaking(e, x.session, x.left - 1), read, Opening(e, x.session))

Expire(e) ==
  /\ node[e].phase = "handshake"
  /\ node[e].wait = 0
  /\ NextAttempt(e, {})

\* Bug: any SERVER_HELLO is taken for the answer to this client's hello.
AnyAnswer(d, s) == d.type = "ANSWER"

\* finish_client_handshake: type, session_id and the tag over both payloads.
Answers(d, s) == d.type = "ANSWER" /\ d.session.hello = s.hello

\* What the loop of each role goes on with; both roles' errors are ValueErrors.
Usable(e, d) ==
  IF e = "client" THEN Answers(d, node[e].session) ELSE d.type = "HELLO"

Finish(d) ==
  LET s == [node["client"].session EXCEPT !.answer = d.session.answer]
  IN  Become("client", Established("client", s), {d}, {})

\* run_server_handshake: the answer is sent once, and the handshake is over.
Accept(d) ==
  LET s == [hello |-> d.session.hello, answer |-> NewAnswer]
  IN  Become("server", Established("server", s), {d}, {From("server", "ANSWER", s)})

ReceiveInHandshake(e, d) ==
  /\ node[e].phase = "handshake"
  /\ IF ~ Usable(e, d) THEN NextAttempt(e, {d})
     ELSE IF e = "client" THEN Finish(d) ELSE Accept(d)

\* Bug: the clock restarts before the datagram is authenticated.
RefreshedEarly(e, d) == [node[e] EXCEPT !.wait = LivenessTimeout[e]]

\* _receive_udp_packet: only a packet under the session's key has an effect.
Refreshed(e, d) ==
  IF d.type = "DATA" /\ d.session = node[e].session
  THEN [node[e] EXCEPT !.wait = LivenessTimeout[e]] ELSE node[e]

ReceiveInEngine(e, d) ==
  /\ node[e].phase = "engine"
  /\ Become(e, Refreshed(e, d), {d}, {})

\* No socket is bound: the datagram is lost.
ReceiveNowhere(e, d) ==
  /\ node[e].phase \in {"sleeping", "ended"}
  /\ Become(e, node[e], {d}, {})

\* Sent before d, to the same end.  What an endpoint sends at one time begins
\* with its hello or answer.
Before(c, d) ==
  /\ c.to = d.to
  /\ c.left < d.left \/ (c.left = d.left /\ c.type # "DATA" /\ d.type = "DATA")

Receive(e) ==
  \E d \in net :
    /\ d.to = e
    /\ d.left > MaxDelay \/ ~ \E c \in net : Before(c, d)
    /\ ReceiveInHandshake(e, d) \/ ReceiveInEngine(e, d) \/ ReceiveNowhere(e, d)

\* A packet from TUN.
Send(e) ==
  /\ node[e].phase = "engine"
  /\ Become(e, node[e], {}, {From(e, "DATA", node[e].session)})

\* Bug: only the client sends keepalives.
KeepalivesOfClient(e, x) ==
  IF x.due = 0 /\ e = "client" THEN {From(e, "DATA", x.session)} ELSE {}

Keepalives(e, x) == IF x.due = 0 THEN {From(e, "DATA", x.session)} ELSE {}

\* The end of run_once: the keepalive first, then the liveness test, whose
\* TimeoutError is an OSError.
CheckTimers(e) ==
  LET x == node[e]
      y == IF x.due = 0 THEN [x EXCEPT !.due = KeepaliveInterval[e]] ELSE x
  IN  /\ x.phase = "engine"
      /\ x.due = 0 \/ x.wait = 0
      /\ Become(e, IF x.wait = 0 THEN Sleeping(e) ELSE y, {}, Keepalives(e, x))

(***************************************************************************)
(* Faults                                                                  *)
(***************************************************************************)
Fault ==
  /\ faults < MaxFaults
  /\ faults' = faults + 1
  /\ calm' = 0

Lose ==
  /\ Fault
  /\ \E d \in net : net' = net \ {d}
  /\ UNCHANGED node

Late ==
  /\ Fault
  /\ \E d \in net : net' = (net \ {d}) \cup {[d EXCEPT !.left = MaxLate]}
  /\ UNCHANGED node

\* To an engine a copy of a packet is a replay (see TunnelEngine), of no use.
Copy(d) ==
  [d EXCEPT !.left = MaxLate, !.session = IF d.type = "DATA" THEN NoSession ELSE @]

Duplicate ==
  /\ Fault
  /\ \E d \in net : net' = net \cup {Copy(d)}
  /\ UNCHANGED node

\* A send, the TUN device or its set-up raises OSError.
Fail(e) ==
  /\ Fault
  /\ node[e].phase \in {"handshake", "engine"}
  /\ node' = [node EXCEPT ![e] = Sleeping(e)]
  /\ UNCHANGED net

\* An error that run_with_reconnect does not catch, or the process is stopped.
End(e) ==
  /\ Fault
  /\ node[e].phase # "ended"
  /\ node' = [node EXCEPT ![e] = Gone]
  /\ UNCHANGED net

\* An operator starts the program; its first session is not delayed.
Launch(e) ==
  /\ node[e].phase = "ended"
  /\ node' = [node EXCEPT ![e] = [Sleeping(e) EXCEPT !.wait = 0]]
  /\ UNCHANGED <<net, faults, calm>>

(***************************************************************************)
(* Time                                                                    *)
(***************************************************************************)
Prompt(e) ==
  /\ node[e].phase \in {"sleeping", "handshake"} => node[e].wait > 0
  /\ node[e].phase = "engine" => node[e].wait > 0 /\ node[e].due > 0

Less(n) == IF n > 0 THEN n - 1 ELSE 0

\* Both processes run and no late copy is on its way.
Quiet ==
  /\ \A e \in Endpoints : node[e].phase # "ended"
  /\ \A d \in net : d.left <= MaxDelay

Tick ==
  /\ \A e \in Endpoints : Prompt(e)
  /\ \A d \in net : d.left > 0
  /\ node' = [e \in Endpoints |->
                [node[e] EXCEPT !.wait = Less(@), !.due = Less(@)]]
  /\ net' = {[d EXCEPT !.left = @ - 1] : d \in net}
  /\ calm' = IF ~ Quiet THEN 0 ELSE IF calm > Deadline THEN calm ELSE calm + 1
  /\ UNCHANGED faults

Init ==
  /\ node = [e \in Endpoints |-> Gone]
  /\ net = {}
  /\ faults = 0
  /\ calm = 0

Step(e) == Open(e) \/ Expire(e) \/ Receive(e) \/ Send(e) \/ CheckTimers(e)

Next ==
  \/ \E e \in Endpoints : Step(e) \/ Fail(e) \/ End(e) \/ Launch(e)
  \/ Lose
  \/ Late
  \/ Duplicate
  \/ Tick

Spec == Init /\ [][Next]_vars

(***************************************************************************)
(* Properties                                                              *)
(***************************************************************************)

TypeOK ==
  /\ node \in [Endpoints -> Node]
  /\ net \subseteq Datagram
  /\ faults \in 0 .. MaxFaults
  /\ calm \in 0 .. Deadline + 1

Connected ==
  /\ \A e \in Endpoints : node[e].phase = "engine"
  /\ node["client"].session = node["server"].session

\* Two engines that share the server's ephemeral key share the whole session:
\* a client never completes its handshake with the answer to another hello,
\* however many of its own earlier hellos and their answers are still about.
AnswersMatchHellos ==
  \A e \in Endpoints :
    node[e].phase = "engine" /\ node[Peer(e)].phase = "engine"
      => (node[e].session.answer = node[Peer(e)].session.answer
            <=> node[e].session = node[Peer(e)].session)

\* The timers suit the network: an answer is back before its attempt expires,
\* a keepalive before the liveness timeout; the server is away long enough for
\* what it last sent, and for the hellos it made the client give up, to be gone;
\* and the client repeats its hello often enough to hit every round of the
\* server's handshake.
WideTimers ==
  /\ 2 * MaxDelay < HandshakeTimeout["client"]
  /\ 2 * MaxDelay < ReconnectDelay["server"]
  /\ \A e \in Endpoints :
       KeepaliveInterval[Peer(e)] + 2 * MaxDelay < LivenessTimeout[e]
  /\ HandshakeTimeout["client"] + ReconnectDelay["client"] + MaxDelay
       < Attempts * HandshakeTimeout["server"]

\* No fault yet, or none within a liveness timeout.
Undisturbed ==
  /\ UNCHANGED faults
  /\ faults = 0 \/ \A e \in Endpoints : calm >= LivenessTimeout[e]

\* A session that both ends have is given up only because of a recent fault:
\* late hellos and answers, datagrams of earlier sessions and idle TUN devices
\* do not end it.
ConnectedStays ==
  [][WideTimers /\ Connected /\ Undisturbed => Connected']_vars

\* Whatever has gone wrong, in whatever phase, and whichever end thinks it has
\* a session the other does not: once nothing more goes wrong the ends have a
\* common session again before the deadline.
RecoveredInTime == WideTimers /\ calm > Deadline => Connected
=============================================================================
