------------------------ MODULE PointToPoint_proofs ------------------------
(***************************************************************************)
(* Proofs about the two endpoints of a point-to-point VPN, for all timers, *)
(* delays and numbers of faults: which sessions are about, that the ends   *)
(* of a common session hear each other in time, and that ends without one  *)
(* have one again in time.                                                 *)
(***************************************************************************)
EXTENDS PointToPoint, FiniteSetTheorems, TLAPS

USE ConstantsAssumption

(***************************************************************************)
(* The inductive invariant.                                                *)
(***************************************************************************)

NetIsFinite == IsFiniteSet(net)

\* An answer belongs to one hello.
Paired ==
  \A s, t \in InUse : s.answer # 0 /\ s.answer = t.answer => s = t

\* Whoever runs an engine has an answer, and so has every SERVER_HELLO.
Answered ==
  /\ \A e \in Endpoints : node[e].phase = "engine" => node[e].session.answer # 0
  /\ \A d \in net : d.type = "ANSWER" => d.session.answer # 0

DueSoon ==
  \A e \in Endpoints : node[e].phase = "engine" => node[e].due <= KeepaliveInterval[e]

\* A datagram out of turn is a fault, and no calm begins before it is back in
\* the bounds of the others.
LateIsRecent ==
  \A d \in net : d.left > MaxDelay => faults # 0 /\ calm = 0

Silence(e) == LivenessTimeout[e] - node[e].wait

\* e has heard from its peer, or a fault has happened, in the last n ticks.
Within(e, n) == Silence(e) <= n \/ (faults # 0 /\ calm <= n)

\* The server accepted the hello no longer ago than its answer has travelled.
AnswerIsFresh ==
  \A d \in net :
    /\ d.type = "ANSWER" /\ d.left <= MaxDelay
    /\ node["server"].phase = "engine" /\ d.session = node["server"].session
    => Within("server", MaxDelay - d.left)

PacketFor(e, d) ==
  /\ d.to = e /\ d.type = "DATA" /\ d.session = node[e].session
  /\ d.left <= MaxDelay

\* The peer's next keepalive is near, or one of its packets is on its way.
Hears(e) ==
  \/ Within(e, KeepaliveInterval[Peer(e)] + MaxDelay - node[Peer(e)].due)
  \/ \E d \in net :
       /\ PacketFor(e, d)
       /\ Within(e, KeepaliveInterval[Peer(e)] + 2 * MaxDelay - d.left)

Heard == Connected => \A e \in Endpoints : Hears(e)

Sessions == Paired /\ Answered

Timely == DueSoon /\ LateIsRecent /\ AnswerIsFresh /\ Heard

IInv == TypeOK /\ NetIsFinite /\ Sessions /\ Timely

(***************************************************************************)
(* Numbers that are not in use                                             *)
(***************************************************************************)

LEMMA TheEnds ==
  /\ "client" \in Endpoints /\ "server" \in Endpoints
  /\ \A e \in Endpoints : Peer(e) \in Endpoints /\ Peer(e) # e /\ Peer(Peer(e)) = e
  /\ \A e, f \in Endpoints : f = e \/ f = Peer(e)
BY DEF Endpoints, Peer

\* CHOOSE finds a number: n of them cannot include the first n + 1.
LEMMA UnusedIsNew ==
  ASSUME NEW names, IsFiniteSet(names)
  PROVE  Unused(names) \in Nat \ {0} /\ Unused(names) \notin names
<1> DEFINE N == Cardinality(names) + 1
<1>1. Cardinality(names) \in Nat
  BY FS_CardinalityType
<1>2. \E n \in 1 .. N : n \notin names
  <2> SUFFICES ASSUME (1 .. N) \subseteq names PROVE FALSE
    OBVIOUS
  <2>1. Cardinality(1 .. N) = N
    BY <1>1, FS_Interval
  <2>2. (1 .. N) \in SUBSET names
    OBVIOUS
  <2>3. Cardinality(1 .. N) <= Cardinality(names)
    BY <2>2, FS_Subset
  <2> QED
    BY <1>1, <2>1, <2>3
<1>3. Unused(names) \in 1 .. N /\ Unused(names) \notin names
  BY <1>2 DEF Unused
<1> QED
  BY <1>1, <1>3

\* The image of a finite set is finite.
LEMMA ImageIsFinite ==
  ASSUME NEW S, IsFiniteSet(S), NEW T, NEW f \in [S -> T],
         \A t \in T : \E x \in S : f[x] = t
  PROVE  IsFiniteSet(T)
<1>1. f \in Surjection(S, T)
  BY DEF Surjection
<1> QED
  BY <1>1, FS_Surjection

LEMMA InUseIsFinite ==
  ASSUME NetIsFinite
  PROVE  IsFiniteSet(InUse)
<1> DEFINE A == {node[e].session : e \in Endpoints}
           B == {d.session : d \in net}
           f == [e \in Endpoints |-> node[e].session]
           g == [d \in net |-> d.session]
<1>1. IsFiniteSet(Endpoints)
  <2>1. Endpoints = {"client"} \cup {"server"}
    BY DEF Endpoints
  <2>2. IsFiniteSet({"client"}) /\ IsFiniteSet({"server"})
    BY FS_Singleton
  <2> QED
    BY <2>1, <2>2, FS_Union
<1>2. IsFiniteSet(A)
  <2>1. f \in [Endpoints -> A] /\ \A t \in A : \E e \in Endpoints : f[e] = t
    OBVIOUS
  <2> HIDE DEF f, A
  <2> QED
    BY <1>1, <2>1, ImageIsFinite
<1>3. IsFiniteSet(B)
  <2>1. g \in [net -> B] /\ \A t \in B : \E d \in net : g[d] = t
    OBVIOUS
  <2> HIDE DEF g, B
  <2> QED
    BY <2>1, ImageIsFinite DEF NetIsFinite
<1> QED
  BY <1>2, <1>3, FS_Union DEF InUse

LEMMA NewNumbers ==
  ASSUME NetIsFinite
  PROVE  /\ NewHello \in Nat
         /\ NewAnswer \in Nat \ {0}
         /\ \A s \in InUse : s.answer # NewAnswer
<1> DEFINE hellos == {s.hello : s \in InUse}
           answers == {s.answer : s \in InUse}
           f == [s \in InUse |-> s.hello]
           g == [s \in InUse |-> s.answer]
<1>1. IsFiniteSet(InUse)
  BY InUseIsFinite
<1>2. IsFiniteSet(hellos)
  <2>1. f \in [InUse -> hellos] /\ \A t \in hellos : \E s \in InUse : f[s] = t
    OBVIOUS
  <2> HIDE DEF f, hellos
  <2> QED
    BY <1>1, <2>1, ImageIsFinite
<1>3. IsFiniteSet(answers)
  <2>1. g \in [InUse -> answers] /\ \A t \in answers : \E s \in InUse : g[s] = t
    OBVIOUS
  <2> HIDE DEF g, answers
  <2> QED
    BY <1>1, <2>1, ImageIsFinite
<1>4. NewHello \in Nat
  BY <1>2, UnusedIsNew DEF NewHello
<1>5. NewAnswer \in Nat \ {0} /\ NewAnswer \notin answers
  BY <1>3, UnusedIsNew DEF NewAnswer
<1> QED
  BY <1>4, <1>5

(***************************************************************************)
(* What one step does to an endpoint.  Become(e, x, read, out) with one of *)
(* these four effects is all the actions of an endpoint and Launch.        *)
(***************************************************************************)

Emits(e, out) ==
  /\ out \subseteq Datagram /\ IsFiniteSet(out)
  /\ \A d \in out : d.to = Peer(e) /\ d.left = MaxDelay

\* It has no engine afterwards.
Idles(e, x, out) ==
  /\ x.phase # "engine"
  /\ x.session \in InUse \/ x.session.answer = 0
  /\ \A d \in out :
       d.type # "ANSWER" /\ (d.session = x.session \/ d.session = node[e].session)

\* Its engine goes on.
GoesOn(e, x, read, out) ==
  /\ node[e].phase = "engine" /\ x.phase = "engine"
  /\ x.session = node[e].session
  /\ x.wait = node[e].wait \/ x.wait = LivenessTimeout[e]
  /\ \/ x.due = node[e].due
     \/ /\ node[e].due = 0 /\ x.due = KeepaliveInterval[e]
        /\ From(e, "DATA", x.session) \in out
  /\ \A d \in out : d = From(e, "DATA", x.session)
  /\ \A d \in read : d.to = e
  /\ \A d \in read :
       d.type = "DATA" /\ d.session = x.session => x.wait = LivenessTimeout[e]

\* finish_client_handshake succeeds.
Finishes(e, x, out) ==
  /\ e = "client" /\ out = {}
  /\ \E d \in net : d.type = "ANSWER" /\ x = Established(e, d.session)

\* run_server_handshake takes a hello.
Accepts(e, x, out) ==
  /\ e = "server"
  /\ \E s \in Session :
       /\ s.answer = NewAnswer
       /\ x = Established(e, s)
       /\ out = {From(e, "ANSWER", s)}

Effect(e, x, read, out) ==
  \/ Idles(e, x, out)
  \/ GoesOn(e, x, read, out)
  \/ Finishes(e, x, out)
  \/ Accepts(e, x, out)

Moves(e) ==
  \E x, read, out :
    x \in Node /\ Become(e, x, read, out) /\ Emits(e, out) /\ Effect(e, x, read, out)

LEMMA Timers ==
  ASSUME NEW e \in Endpoints
  PROVE  /\ HandshakeTimeout[e] \in Nat \ {0} /\ ReconnectDelay[e] \in Nat \ {0}
         /\ KeepaliveInterval[e] \in Nat \ {0} /\ LivenessTimeout[e] \in Nat \ {0}
         /\ KeepaliveInterval[e] < LivenessTimeout[e]
BY DEF ConstantsAssumption

LEMMA NodeFields ==
  ASSUME TypeOK, NEW e \in Endpoints
  PROVE  /\ node[e] \in Node /\ node[e].session \in Session
         /\ node[e].session \in InUse
         /\ node[e].wait \in Nat /\ node[e].due \in Nat
         /\ node[e].left \in 0 .. Attempts - 1
BY DEF TypeOK, Node, InUse

LEMMA DatagramFields ==
  ASSUME TypeOK, NEW d \in net
  PROVE  /\ d \in Datagram /\ d.session \in Session /\ d.session \in InUse
         /\ d.to \in Endpoints /\ d.left \in 0 .. MaxLate
BY DEF TypeOK, Datagram, InUse

LEMMA SessionFields ==
  /\ NoSession \in Session /\ NoSession.answer = 0
  /\ \A s \in Session : s.hello \in Nat /\ s.answer \in Nat
  /\ \A s, t \in Session : s.hello = t.hello /\ s.answer = t.answer => s = t
BY DEF Session, NoSession

LEMMA NoAttempts == 0 \in 0 .. Attempts - 1 /\ Attempts - 1 \in 0 .. Attempts - 1
BY DEF ConstantsAssumption

LEMMA IdleNodes ==
  ASSUME NEW e \in Endpoints
  PROVE  /\ Sleeping(e) \in Node /\ Sleeping(e).phase = "sleeping"
         /\ Sleeping(e).session.answer = 0
         /\ [Sleeping(e) EXCEPT !.wait = 0] \in Node
         /\ [Sleeping(e) EXCEPT !.wait = 0].phase = "sleeping"
         /\ [Sleeping(e) EXCEPT !.wait = 0].session.answer = 0
         /\ Gone \in Node /\ Gone.phase = "ended" /\ Gone.session.answer = 0
BY NoAttempts, Timers, SessionFields DEF Sleeping, Gone, Node

LEMMA HandshakingNode ==
  ASSUME NEW e \in Endpoints, NEW s \in Session, NEW n \in 0 .. Attempts - 1
  PROVE  /\ Handshaking(e, s, n) \in Node
         /\ Handshaking(e, s, n).phase = "handshake"
         /\ Handshaking(e, s, n).session = s
BY Timers DEF Handshaking, Node

LEMMA EstablishedNode ==
  ASSUME NEW e \in Endpoints, NEW s \in Session
  PROVE  /\ Established(e, s) \in Node /\ Established(e, s).phase = "engine"
         /\ Established(e, s).session = s
         /\ Established(e, s).wait = LivenessTimeout[e]
         /\ Established(e, s).due = KeepaliveInterval[e]
BY NoAttempts, Timers DEF Established, Node

LEMMA NewDatagram ==
  ASSUME NEW e \in Endpoints, NEW s \in Session,
         NEW type \in {"HELLO", "ANSWER", "DATA"}
  PROVE  /\ From(e, type, s) \in Datagram
         /\ From(e, type, s).to = Peer(e) /\ From(e, type, s).type = type
         /\ From(e, type, s).session = s /\ From(e, type, s).left = MaxDelay
BY TheEnds DEF From, Datagram, ConstantsAssumption

LEMMA EmitsNothing ==
  ASSUME NEW e \in Endpoints
  PROVE  Emits(e, {})
BY FS_EmptySet DEF Emits

LEMMA EmitsOne ==
  ASSUME NEW e \in Endpoints, NEW s \in Session,
         NEW type \in {"HELLO", "ANSWER", "DATA"}
  PROVE  Emits(e, {From(e, type, s)})
<1> DEFINE d == From(e, type, s)
<1>1. d \in Datagram /\ d.to = Peer(e) /\ d.left = MaxDelay
  BY NewDatagram
<1> HIDE DEF d
<1>2. IsFiniteSet({d})
  BY FS_Singleton
<1>3. Emits(e, {d})
  BY <1>1, <1>2 DEF Emits
<1> QED
  BY <1>3 DEF d

LEMMA Openings ==
  ASSUME NEW e \in Endpoints, NEW s \in Session
  PROVE  /\ Emits(e, Opening(e, s))
         /\ \A d \in Opening(e, s) : d.type = "HELLO" /\ d.session = s
<1>1. Emits(e, {From(e, "HELLO", s)}) /\ Emits(e, {})
  BY EmitsOne, EmitsNothing
<1>2. From(e, "HELLO", s).type = "HELLO" /\ From(e, "HELLO", s).session = s
  BY NewDatagram
<1> QED
  BY <1>1, <1>2 DEF Opening

LEMMA NextAttemptMoves ==
  ASSUME TypeOK, NEW e \in Endpoints, NEW read, NextAttempt(e, read),
         node[e].phase = "handshake"
  PROVE  Moves(e)
<1> DEFINE s == node[e].session
           y == Handshaking(e, s, node[e].left - 1)
<1>1. CASE LastAttempt(node[e])
  <2>1. Become(e, Sleeping(e), read, {})
    BY <1>1 DEF NextAttempt
  <2>2. Idles(e, Sleeping(e), {})
    BY IdleNodes DEF Idles
  <2> QED
    BY <2>1, <2>2, IdleNodes, EmitsNothing DEF Moves, Effect
<1>2. CASE ~ LastAttempt(node[e])
  <2>1. Become(e, y, read, Opening(e, s))
    BY <1>2 DEF NextAttempt
  <2>2. s \in Session /\ s \in InUse /\ node[e].left - 1 \in 0 .. Attempts - 1
    BY <1>2, NodeFields DEF LastAttempt, ConstantsAssumption
  <2>3. y \in Node /\ y.phase = "handshake" /\ y.session = s
    BY <2>2, HandshakingNode
  <2>4. Idles(e, y, Opening(e, s))
    BY <2>2, <2>3, Openings DEF Idles
  <2> QED
    BY <2>1, <2>2, <2>3, <2>4, Openings DEF Moves, Effect
<1> QED
  BY <1>1, <1>2

LEMMA OpenMoves ==
  ASSUME TypeOK, NetIsFinite, NEW e \in Endpoints, Open(e)
  PROVE  Moves(e)
<1> DEFINE s == IF e = "client" THEN [NoSession EXCEPT !.hello = NewHello]
                ELSE NoSession
           y == Handshaking(e, s, Attempts - 1)
<1>1. Become(e, y, {}, Opening(e, s))
  BY DEF Open
<1>2. s \in Session /\ s.answer = 0
  BY NewNumbers DEF NoSession, Session
<1>3. Attempts - 1 \in 0 .. Attempts - 1
  BY DEF ConstantsAssumption
<1>4. y \in Node /\ y.phase = "handshake" /\ y.session = s
  BY <1>2, <1>3, HandshakingNode
<1> HIDE DEF s, y
<1>5. Idles(e, y, Opening(e, s))
  BY <1>2, <1>4, Openings DEF Idles
<1> QED
  BY <1>1, <1>2, <1>4, <1>5, Openings DEF Moves, Effect

LEMMA ReceiveMoves ==
  ASSUME TypeOK, NetIsFinite, NEW e \in Endpoints, Receive(e)
  PROVE  Moves(e)
<1> PICK d \in net :
      /\ d.to = e
      /\ ReceiveInHandshake(e, d) \/ ReceiveInEngine(e, d) \/ ReceiveNowhere(e, d)
  BY DEF Receive
<1>0. d.session \in Session /\ d.session \in InUse /\ node[e] \in Node
  BY DatagramFields, NodeFields
<1>1. CASE ReceiveInHandshake(e, d) /\ ~ Usable(e, d)
  BY <1>1, NextAttemptMoves DEF ReceiveInHandshake
<1>2. CASE ReceiveInHandshake(e, d) /\ Usable(e, d) /\ e = "client"
  <2> DEFINE s == [node["client"].session EXCEPT !.answer = d.session.answer]
  <2>1. Become("client", Established("client", s), {d}, {})
    BY <1>2 DEF ReceiveInHandshake, Finish
  <2>2. d.type = "ANSWER" /\ d.session.hello = node[e].session.hello
    BY <1>2 DEF Usable, Answers
  <2>3. s = d.session
    BY <1>0, <1>2, <2>2, NodeFields DEF Session
  <2>4. Finishes(e, Established(e, s), {})
    BY <1>2, <2>2, <2>3 DEF Finishes
  <2> QED
    BY <1>0, <1>2, <2>1, <2>3, <2>4, EstablishedNode, EmitsNothing DEF Moves, Effect
<1>3. CASE ReceiveInHandshake(e, d) /\ Usable(e, d) /\ e # "client"
  <2> DEFINE s == [hello |-> d.session.hello, answer |-> NewAnswer]
  <2>1. e = "server" /\ Become(e, Established(e, s), {d}, {From(e, "ANSWER", s)})
    BY <1>3 DEF ReceiveInHandshake, Accept, Endpoints
  <2>2. s \in Session /\ s.answer = NewAnswer
    BY <1>0, NewNumbers DEF Session
  <2> HIDE DEF s
  <2>3. Accepts(e, Established(e, s), {From(e, "ANSWER", s)})
    BY <2>1, <2>2 DEF Accepts
  <2> QED
    BY <2>1, <2>2, <2>3, EstablishedNode, EmitsOne DEF Moves, Effect
<1>4. CASE ReceiveInEngine(e, d)
  <2> DEFINE y == Refreshed(e, d)
  <2>1. Become(e, y, {d}, {}) /\ node[e].phase = "engine"
    BY <1>4 DEF ReceiveInEngine
  <2>2. /\ y \in Node /\ y.phase = "engine" /\ y.session = node[e].session
        /\ y.wait = node[e].wait \/ y.wait = LivenessTimeout[e]
        /\ y.due = node[e].due
        /\ d.type = "DATA" /\ d.session = y.session => y.wait = LivenessTimeout[e]
    BY <1>0, <2>1, Timers DEF Refreshed, Node
  <2> HIDE DEF y
  <2>3. GoesOn(e, y, {d}, {})
    BY <2>1, <2>2 DEF GoesOn
  <2> QED
    BY <2>1, <2>2, <2>3, EmitsNothing DEF Moves, Effect
<1>5. CASE ReceiveNowhere(e, d)
  <2>1. Become(e, node[e], {d}, {}) /\ node[e].phase # "engine"
    BY <1>5 DEF ReceiveNowhere
  <2>2. Idles(e, node[e], {})
    BY <2>1, NodeFields DEF Idles
  <2> QED
    BY <1>0, <2>1, <2>2, EmitsNothing DEF Moves, Effect
<1> QED
  BY <1>1, <1>2, <1>3, <1>4, <1>5

LEMMA SendMoves ==
  ASSUME TypeOK, NEW e \in Endpoints, Send(e)
  PROVE  Moves(e)
<1> DEFINE s == node[e].session
           out == {From(e, "DATA", s)}
<1>1. node[e].phase = "engine" /\ Become(e, node[e], {}, out)
  BY DEF Send
<1>2. s \in Session /\ node[e] \in Node
  BY NodeFields
<1>3. GoesOn(e, node[e], {}, out)
  BY <1>1 DEF GoesOn
<1> QED
  BY <1>1, <1>2, <1>3, EmitsOne DEF Moves, Effect

LEMMA CheckTimersMoves ==
  ASSUME TypeOK, NEW e \in Endpoints, CheckTimers(e)
  PROVE  Moves(e)
<1> DEFINE s == node[e].session
           out == Keepalives(e, node[e])
           y == IF node[e].due = 0
                THEN [node[e] EXCEPT !.due = KeepaliveInterval[e]] ELSE node[e]
<1>1. /\ node[e].phase = "engine"
      /\ Become(e, IF node[e].wait = 0 THEN Sleeping(e) ELSE y, {}, out)
  BY DEF CheckTimers
<1>2. s \in Session /\ node[e] \in Node
  BY NodeFields
<1>3. Emits(e, out)
  <2>1. Emits(e, {From(e, "DATA", s)}) /\ Emits(e, {})
    BY <1>2, EmitsOne, EmitsNothing
  <2> QED
    BY <2>1 DEF Keepalives
<1>4. \A d \in out : d = From(e, "DATA", s)
  BY DEF Keepalives
<1>5. CASE node[e].wait = 0
  <2>1. \A d \in out : d.type # "ANSWER" /\ d.session = s
    BY <1>2, <1>4, NewDatagram
  <2>2. Idles(e, Sleeping(e), out)
    BY <2>1, IdleNodes DEF Idles
  <2> HIDE DEF out
  <2>3. Become(e, Sleeping(e), {}, out)
    BY <1>1, <1>5
  <2> QED
    BY <1>3, <2>2, <2>3, IdleNodes DEF Moves, Effect
<1>6. CASE node[e].wait # 0
  <2>1. /\ y \in Node /\ y.phase = "engine" /\ y.session = s
        /\ y.wait = node[e].wait
        /\ \/ y.due = node[e].due
           \/ /\ node[e].due = 0 /\ y.due = KeepaliveInterval[e]
              /\ From(e, "DATA", s) \in out
    BY <1>1, <1>2, Timers DEF Node, Keepalives
  <2> HIDE DEF y, out
  <2>2. GoesOn(e, y, {}, out)
    BY <1>1, <1>4, <2>1 DEF GoesOn
  <2>3. Become(e, y, {}, out)
    BY <1>1, <1>6
  <2> QED
    BY <1>3, <2>1, <2>2, <2>3 DEF Moves, Effect
<1> QED
  BY <1>5, <1>6

LEMMA LaunchMoves ==
  ASSUME TypeOK, NEW e \in Endpoints, Launch(e)
  PROVE  Moves(e)
<1> DEFINE y == [Sleeping(e) EXCEPT !.wait = 0]
<1>1. y \in Node /\ y.phase # "engine" /\ y.session.answer = 0
  BY IdleNodes
<1>2. Become(e, y, {}, {})
  BY DEF Launch, Become
<1> HIDE DEF y
<1>3. Idles(e, y, {})
  BY <1>1 DEF Idles
<1> QED
  BY <1>1, <1>2, <1>3, EmitsNothing DEF Moves, Effect

LEMMA StepMoves ==
  ASSUME TypeOK, NetIsFinite, NEW e \in Endpoints, Step(e) \/ Launch(e)
  PROVE  Moves(e)
<1>1. CASE Expire(e)
  BY <1>1, NextAttemptMoves DEF Expire
<1> QED
  BY <1>1, OpenMoves, ReceiveMoves, SendMoves, CheckTimersMoves, LaunchMoves
  DEF Step

(***************************************************************************)
(* Types                                                                   *)
(***************************************************************************)

LEMMA DeadlineIsNat == Deadline \in Nat
BY TheEnds, Timers DEF Deadline, OrphansOver, HelloComes, ConstantsAssumption

LEMMA Becomes ==
  ASSUME TypeOK, NEW e \in Endpoints, NEW x, NEW read, NEW out,
         Become(e, x, read, out)
  PROVE  /\ node'[e] = x
         /\ \A f \in Endpoints : f # e => node'[f] = node[f]
         /\ net' = (net \ read) \cup out
         /\ faults' = faults /\ calm' = calm
BY DEF Become, TypeOK

LEMMA MovesTypes ==
  ASSUME TypeOK, NetIsFinite, NEW e \in Endpoints, Moves(e)
  PROVE  TypeOK' /\ NetIsFinite'
<1> PICK x, read, out :
      x \in Node /\ Become(e, x, read, out) /\ Emits(e, out)
  BY DEF Moves
<1>1. node' \in [Endpoints -> Node] /\ faults' = faults /\ calm' = calm
  BY DEF Become, TypeOK
<1>2. net' \subseteq Datagram
  BY DEF Become, TypeOK, Emits
<1>3. IsFiniteSet(net \ read)
  BY FS_Subset DEF NetIsFinite
<1>4. IsFiniteSet(net')
  BY <1>3, FS_Union DEF Become, Emits
<1> QED
  BY <1>1, <1>2, <1>4 DEF TypeOK, NetIsFinite

\* What a fault does to the datagrams: it takes some away, and adds at most one.
Disturbs(d, c) ==
  /\ c \in Datagram /\ c.left = MaxLate /\ c.type = d.type
  /\ \/ c.session = d.session
     \/ c.type = "DATA" /\ c.session = NoSession

NetFault ==
  \/ net' \subseteq net
  \/ \E d, c : d \in net /\ Disturbs(d, c) /\ net' \subseteq net \cup {c}

LEMMA NetFaults ==
  ASSUME TypeOK, Lose \/ Late \/ Duplicate
  PROVE  Fault /\ node' = node /\ NetFault
<1>1. CASE Lose
  BY <1>1 DEF Lose, NetFault
<1>2. CASE Late
  <2> PICK d \in net : net' = (net \ {d}) \cup {[d EXCEPT !.left = MaxLate]}
    BY <1>2 DEF Late
  <2> DEFINE c == [d EXCEPT !.left = MaxLate]
  <2>1. Disturbs(d, c)
    BY DatagramFields DEF Disturbs, Datagram, ConstantsAssumption
  <2>2. net' \subseteq net \cup {c}
    OBVIOUS
  <2> HIDE DEF c
  <2>3. NetFault
    BY <2>1, <2>2 DEF NetFault
  <2> QED
    BY <1>2, <2>3 DEF Late
<1>3. CASE Duplicate
  <2> PICK d \in net : net' = net \cup {Copy(d)}
    BY <1>3 DEF Duplicate
  <2>0. d \in Datagram /\ MaxLate \in 0 .. MaxLate
    BY DatagramFields DEF ConstantsAssumption
  <2>1. Disturbs(d, Copy(d))
    <3>1. CASE d.type = "DATA"
      BY <2>0, <3>1, SessionFields DEF Disturbs, Copy, Datagram
    <3>2. CASE d.type # "DATA"
      BY <2>0, <3>2 DEF Disturbs, Copy, Datagram
    <3> QED
      BY <3>1, <3>2
  <2>2. NetFault
    BY <2>1 DEF NetFault
  <2> QED
    BY <1>3, <2>2 DEF Duplicate
<1> QED
  BY <1>1, <1>2, <1>3

\* The other faults take an endpoint's session away.
NodeFault(e) ==
  \E x \in Node :
    /\ x.phase # "engine" /\ x.session.answer = 0
    /\ node' = [node EXCEPT ![e] = x]
    /\ net' = net

LEMMA NodeFaults ==
  ASSUME TypeOK, NEW e \in Endpoints, Fail(e) \/ End(e)
  PROVE  Fault /\ NodeFault(e)
BY IdleNodes DEF Fail, End, NodeFault

LEMMA FaultTypes ==
  ASSUME TypeOK, NetIsFinite, Fault,
         \/ node' = node /\ NetFault
         \/ \E e \in Endpoints : NodeFault(e)
  PROVE  TypeOK' /\ NetIsFinite'
<1>1. faults' \in 0 .. MaxFaults /\ calm' \in 0 .. Deadline + 1
  BY DeadlineIsNat DEF Fault, TypeOK, ConstantsAssumption
<1>2. node' \in [Endpoints -> Node]
  BY DEF NodeFault, TypeOK
<1>3. net' \subseteq Datagram /\ IsFiniteSet(net')
  <2>1. CASE net' \subseteq net
    BY <2>1, FS_Subset DEF TypeOK, NetIsFinite
  <2>2. CASE \E d, c : d \in net /\ Disturbs(d, c) /\ net' \subseteq net \cup {c}
    <3> PICK d, c : d \in net /\ Disturbs(d, c) /\ net' \subseteq net \cup {c}
      BY <2>2
    <3>1. c \in Datagram
      BY DEF Disturbs
    <3>2. IsFiniteSet(net \cup {c})
      BY FS_Union, FS_Singleton DEF NetIsFinite
    <3> QED
      BY <3>1, <3>2, FS_Subset DEF TypeOK
  <2> QED
    BY <2>1, <2>2 DEF NetFault, NodeFault
<1> QED
  BY <1>1, <1>2, <1>3 DEF TypeOK, NetIsFinite

LEMMA Ticks ==
  ASSUME TypeOK, Tick
  PROVE  /\ \A e \in Endpoints :
              /\ node'[e] = [node[e] EXCEPT !.wait = Less(@), !.due = Less(@)]
              /\ node'[e] \in Node
              /\ node'[e].phase = node[e].phase
              /\ node'[e].session = node[e].session
              /\ node'[e].wait >= node[e].wait - 1
              /\ node[e].phase = "engine" => node'[e].due = node[e].due - 1
         /\ node' \in [Endpoints -> Node]
         /\ \A d \in net : d.left > 0 /\ [d EXCEPT !.left = @ - 1] \in net'
         /\ \A c \in net' : \E d \in net : c = [d EXCEPT !.left = @ - 1]
         /\ calm' \in 0 .. Deadline + 1
         /\ calm' <= calm + 1
         /\ ~ Quiet => calm' = 0
         /\ faults' = faults
<1>1. ASSUME NEW e \in Endpoints
      PROVE  /\ node'[e] = [node[e] EXCEPT !.wait = Less(@), !.due = Less(@)]
             /\ node'[e] \in Node
             /\ node'[e].phase = node[e].phase
             /\ node'[e].session = node[e].session
             /\ node'[e].wait >= node[e].wait - 1
             /\ node[e].phase = "engine" => node'[e].due = node[e].due - 1
  <2>1. node'[e] = [node[e] EXCEPT !.wait = Less(@), !.due = Less(@)]
    BY DEF Tick
  <2>0. node[e].wait \in Nat /\ node[e].due \in Nat
    BY NodeFields
  <2>3. node[e].phase = "engine" => node[e].due > 0
    BY DEF Tick, Prompt
  <2> DEFINE w == node[e].wait
             u == node[e].due
  <2>4. w \in Nat => Less(w) \in Nat /\ Less(w) >= w - 1
    BY DEF Less
  <2>5. u \in Nat => Less(u) \in Nat /\ (u > 0 => Less(u) = u - 1)
    BY DEF Less
  <2>2. /\ Less(node[e].wait) \in Nat /\ Less(node[e].due) \in Nat
        /\ Less(node[e].wait) >= node[e].wait - 1
        /\ node[e].phase = "engine" => Less(node[e].due) = node[e].due - 1
    BY <2>0, <2>3, <2>4, <2>5
  <2> QED
    BY <2>1, <2>2, NodeFields DEF Node
<1>2. node' \in [Endpoints -> Node]
  BY <1>1 DEF Tick
<1>3. calm \in 0 .. Deadline + 1 /\ Deadline \in Nat
  BY DeadlineIsNat DEF TypeOK
<1>4. /\ calm' \in 0 .. Deadline + 1
      /\ calm' <= calm + 1
      /\ ~ Quiet => calm' = 0
  <2>1. calm' = IF ~ Quiet THEN 0 ELSE IF calm > Deadline THEN calm ELSE calm + 1
    BY DEF Tick
  <2>2. \/ ~ Quiet /\ calm' = 0
        \/ Quiet /\ calm > Deadline /\ calm' = calm
        \/ Quiet /\ ~ (calm > Deadline) /\ calm' = calm + 1
    BY <2>1
  <2> QED
    BY <1>3, <2>2
<1>5. /\ \A d \in net : d.left > 0 /\ [d EXCEPT !.left = @ - 1] \in net'
      /\ \A c \in net' : \E d \in net : c = [d EXCEPT !.left = @ - 1]
  BY DEF Tick
<1> QED
  BY <1>1, <1>2, <1>4, <1>5 DEF Tick

\* One tick less for a datagram.
LEMMA Ages ==
  ASSUME TypeOK, Tick, NEW d \in net, NEW c, c = [d EXCEPT !.left = @ - 1]
  PROVE  /\ c \in Datagram /\ c.left = d.left - 1
         /\ c.to = d.to /\ c.type = d.type /\ c.session = d.session
<1>1. d \in Datagram /\ d.left > 0 /\ MaxLate \in Nat
  BY Ticks, DatagramFields DEF ConstantsAssumption
<1>2. d.left - 1 \in 0 .. MaxLate
  BY <1>1 DEF Datagram
<1> QED
  BY <1>1, <1>2 DEF Datagram

LEMMA TickTypes ==
  ASSUME TypeOK, NetIsFinite, Tick
  PROVE  TypeOK' /\ NetIsFinite'
<1>1. net' \subseteq Datagram
  BY Ticks, Ages
<1>2. IsFiniteSet(net')
  <2> DEFINE f == [d \in net |-> [d EXCEPT !.left = @ - 1]]
  <2>1. f \in [net -> net'] /\ \A c \in net' : \E d \in net : f[d] = c
    BY Ticks
  <2> HIDE DEF f
  <2> QED
    BY <2>1, ImageIsFinite DEF NetIsFinite
<1> QED
  BY <1>1, <1>2, Ticks DEF TypeOK, NetIsFinite

LEMMA NextCases ==
  ASSUME TypeOK, NetIsFinite, Next
  PROVE  \/ \E e \in Endpoints : Moves(e)
         \/ Fault /\ node' = node /\ NetFault
         \/ Fault /\ \E e \in Endpoints : NodeFault(e)
         \/ Tick
BY StepMoves, NetFaults, NodeFaults DEF Next

LEMMA StutterTypes ==
  ASSUME TypeOK, NetIsFinite, UNCHANGED vars
  PROVE  TypeOK' /\ NetIsFinite'
BY DEF TypeOK, NetIsFinite, vars

LEMMA TypesInvariance ==
  ASSUME TypeOK, NetIsFinite, [Next]_vars
  PROVE  TypeOK' /\ NetIsFinite'
BY NextCases, MovesTypes, FaultTypes, TickTypes, StutterTypes

LEMMA InitTypes == Init => TypeOK /\ NetIsFinite
<1>1. Gone \in Node
  BY IdleNodes, TheEnds
<1>2. IsFiniteSet({})
  BY FS_EmptySet
<1>3. 0 \in 0 .. MaxFaults /\ 0 \in 0 .. Deadline + 1
  BY DeadlineIsNat DEF ConstantsAssumption
<1> QED
  BY <1>1, <1>2, <1>3 DEF Init, TypeOK, NetIsFinite

(***************************************************************************)
(* What the state consists of has its type: in particular the numbers of   *)
(* sessions are always found, however many datagrams are on their way.     *)
(***************************************************************************)
THEOREM TypeCorrect == Spec => []TypeOK
<1>1. Init => TypeOK /\ NetIsFinite
  BY InitTypes
<1>2. TypeOK /\ NetIsFinite /\ [Next]_vars => TypeOK' /\ NetIsFinite'
  BY TypesInvariance
<1> QED
  BY <1>1, <1>2, PTL DEF Spec

(***************************************************************************)
(* Sessions                                                                *)
(***************************************************************************)

\* What was in use, or has no answer, or is the session of a new answer.
Known(s, n) == s \in InUse \/ s.answer = 0 \/ (n.session = s /\ s.answer = NewAnswer)

LEMMA EmptyIsKnown ==
  \A n : Known(NoSession, n)
BY SessionFields DEF Known

LEMMA KnownKeepsPaired ==
  ASSUME NetIsFinite, Paired, NEW n, \A s \in InUse' : Known(s, n)
  PROVE  Paired'
<1> SUFFICES ASSUME NEW s \in InUse', NEW t \in InUse', s.answer # 0,
                    s.answer = t.answer
             PROVE  s = t
  BY DEF Paired
<1>1. Known(s, n) /\ Known(t, n)
  OBVIOUS
<1> QED
  BY <1>1, NewNumbers DEF Known, Paired

\* After an effect, of the endpoint and of what it sends.
LEMMA EffectKnown ==
  ASSUME TypeOK, NEW e \in Endpoints, NEW x \in Node, NEW read, NEW out,
         Emits(e, out), Effect(e, x, read, out)
  PROVE  Known(x.session, x) /\ \A d \in out : Known(d.session, x)
<1>0. node[e].session \in InUse
  BY NodeFields
<1>1. CASE Idles(e, x, out)
  BY <1>0, <1>1 DEF Idles, Known
<1>2. CASE GoesOn(e, x, read, out)
  BY <1>0, <1>2 DEF GoesOn, Known, From
<1>3. CASE Finishes(e, x, out)
  BY <1>3, DatagramFields, EstablishedNode DEF Finishes, Known
<1>4. CASE Accepts(e, x, out)
  <2> PICK s \in Session :
        s.answer = NewAnswer /\ x = Established(e, s) /\ out = {From(e, "ANSWER", s)}
    BY <1>4 DEF Accepts
  <2>1. x.session = s /\ From(e, "ANSWER", s).session = s
    BY EstablishedNode, NewDatagram
  <2> QED
    BY <2>1 DEF Known
<1> QED
  BY <1>1, <1>2, <1>3, <1>4 DEF Effect

LEMMA MovesSessions ==
  ASSUME TypeOK, NetIsFinite, Sessions, NEW e \in Endpoints, Moves(e)
  PROVE  Sessions'
<1> PICK x, read, out :
      x \in Node /\ Become(e, x, read, out) /\ Emits(e, out) /\ Effect(e, x, read, out)
  BY DEF Moves
<1>0. Known(x.session, x) /\ \A d \in out : Known(d.session, x)
  BY EffectKnown
<1>1. \A s \in InUse' : Known(s, x)
  <2>1. ASSUME NEW f \in Endpoints PROVE Known(node'[f].session, x)
    <3>1. CASE f = e
      BY <1>0, <3>1, Becomes
    <3>2. CASE f # e
      BY <3>2, Becomes, NodeFields DEF Known
    <3> QED
      BY <3>1, <3>2
  <2>2. ASSUME NEW d \in net' PROVE Known(d.session, x)
    <3>1. CASE d \in net
      BY <3>1, DatagramFields DEF Known
    <3>2. CASE d \in out
      BY <1>0, <3>2
    <3> QED
      BY <3>1, <3>2, Becomes
  <2> QED
    BY <2>1, <2>2 DEF InUse
<1>2. Paired'
  BY <1>1, KnownKeepsPaired DEF Sessions
<1>3. /\ x.phase = "engine" => x.session.answer # 0
      /\ \A d \in out : d.type = "ANSWER" => d.session.answer # 0
  <2>1. CASE Idles(e, x, out)
    BY <2>1 DEF Idles
  <2>2. CASE GoesOn(e, x, read, out)
    BY <2>2 DEF GoesOn, From, Sessions, Answered
  <2>3. CASE Finishes(e, x, out)
    BY <2>3, DatagramFields, EstablishedNode DEF Finishes, Sessions, Answered
  <2>4. CASE Accepts(e, x, out)
    <3> PICK s \in Session :
          s.answer = NewAnswer /\ x = Established(e, s) /\ out = {From(e, "ANSWER", s)}
      BY <2>4 DEF Accepts
    <3>1. x.session = s /\ From(e, "ANSWER", s).session = s /\ s.answer # 0
      BY EstablishedNode, NewDatagram, NewNumbers
    <3> QED
      BY <3>1
  <2> QED
    BY <2>1, <2>2, <2>3, <2>4 DEF Effect
<1>4. Answered'
  <2>1. ASSUME NEW f \in Endpoints, node'[f].phase = "engine"
        PROVE  node'[f].session.answer # 0
    BY <1>3, <2>1, Becomes DEF Sessions, Answered
  <2>2. ASSUME NEW d \in net', d.type = "ANSWER"
        PROVE  d.session.answer # 0
    BY <1>3, <2>2, Becomes DEF Sessions, Answered
  <2> QED
    BY <2>1, <2>2 DEF Answered
<1> QED
  BY <1>2, <1>4 DEF Sessions

LEMMA FaultSessions ==
  ASSUME TypeOK, NetIsFinite, Sessions,
         \/ node' = node /\ NetFault
         \/ \E e \in Endpoints : NodeFault(e)
  PROVE  Sessions'
<1>1. CASE node' = node /\ NetFault
  <2>1. ASSUME NEW d \in net'
        PROVE  /\ Known(d.session, NoSession)
               /\ d.type = "ANSWER" => d.session.answer # 0
    <3>1. CASE d \in net
      BY <3>1, DatagramFields DEF Known, Sessions, Answered
    <3>2. CASE d \notin net
      <4> PICK c \in net : Disturbs(c, d)
        BY <1>1, <3>2 DEF NetFault
      <4>1. /\ c.session \in InUse
            /\ c.type = "ANSWER" => c.session.answer # 0
        BY DatagramFields DEF Sessions, Answered
      <4> QED
        BY <4>1, SessionFields DEF Disturbs, Known
    <3> QED
      BY <3>1, <3>2
  <2>2. \A s \in InUse' : Known(s, NoSession)
    BY <1>1, <2>1, NodeFields DEF InUse, Known
  <2>3. Paired'
    BY <2>2, KnownKeepsPaired DEF Sessions
  <2>4. Answered'
    BY <1>1, <2>1 DEF Sessions, Answered
  <2> QED
    BY <2>3, <2>4 DEF Sessions
<1>2. ASSUME NEW e \in Endpoints, NodeFault(e) PROVE Sessions'
  <2> PICK x \in Node :
        /\ x.phase # "engine" /\ x.session.answer = 0
        /\ node' = [node EXCEPT ![e] = x] /\ net' = net
    BY <1>2 DEF NodeFault
  <2>1. \A f \in Endpoints : node'[f] = x \/ node'[f] = node[f]
    BY DEF TypeOK
  <2>2. \A s \in InUse' : Known(s, x)
    <3>1. \A f \in Endpoints : Known(node'[f].session, x)
      BY <2>1, NodeFields DEF Known
    <3>2. \A d \in net' : Known(d.session, x)
      BY DatagramFields DEF Known
    <3> QED
      BY <3>1, <3>2 DEF InUse
  <2>3. Paired'
    BY <2>2, KnownKeepsPaired DEF Sessions
  <2>4. Answered'
    BY <2>1 DEF Sessions, Answered
  <2> QED
    BY <2>3, <2>4 DEF Sessions
<1> QED
  BY <1>1, <1>2

LEMMA TickSessions ==
  ASSUME TypeOK, NetIsFinite, Sessions, Tick
  PROVE  Sessions'
<1>1. ASSUME NEW c \in net'
      PROVE  \E d \in net : c.type = d.type /\ c.session = d.session
  <2> PICK d \in net : c = [d EXCEPT !.left = @ - 1]
    BY Ticks
  <2> QED
    BY Ages
<1>2. \A e \in Endpoints :
        node'[e].phase = node[e].phase /\ node'[e].session = node[e].session
  BY Ticks
<1>3. \A s \in InUse' : Known(s, NoSession)
  BY <1>1, <1>2, NodeFields, DatagramFields DEF InUse, Known
<1>4. Paired'
  BY <1>3, KnownKeepsPaired DEF Sessions
<1>5. Answered'
  BY <1>1, <1>2 DEF Sessions, Answered
<1> QED
  BY <1>4, <1>5 DEF Sessions

LEMMA SessionsInvariance ==
  ASSUME TypeOK, NetIsFinite, Sessions, [Next]_vars
  PROVE  Sessions'
<1>1. CASE UNCHANGED vars
  BY <1>1 DEF vars, Sessions, Paired, Answered, InUse
<1> QED
  BY <1>1, NextCases, MovesSessions, FaultSessions, TickSessions

LEMMA InitSessions == Init => Sessions
<1> SUFFICES ASSUME Init PROVE Sessions
  OBVIOUS
<1>1. \A e \in Endpoints : node[e] = Gone
  BY DEF Init
<1>2. net = {}
  BY DEF Init
<1>3. Gone.session.answer = 0 /\ Gone.phase # "engine"
  BY IdleNodes, TheEnds
<1>4. \A s \in InUse : s.answer = 0
  BY <1>1, <1>2, <1>3 DEF InUse
<1> QED
  BY <1>1, <1>2, <1>3, <1>4 DEF Sessions, Paired, Answered

(***************************************************************************)
(* Two engines with one answer have one session: no client completes its   *)
(* handshake with the answer to another hello.                             *)
(***************************************************************************)
THEOREM AnswersAreForTheirHellos == Spec => []AnswersMatchHellos
<1>1. Init => TypeOK /\ NetIsFinite /\ Sessions
  BY InitTypes, InitSessions
<1>2. TypeOK /\ NetIsFinite /\ Sessions /\ [Next]_vars
        => TypeOK' /\ NetIsFinite' /\ Sessions'
  BY TypesInvariance, SessionsInvariance
<1>3. TypeOK /\ Sessions => AnswersMatchHellos
  <2> SUFFICES ASSUME TypeOK, Sessions, NEW e \in Endpoints,
                      node[e].phase = "engine",
                      node[e].session.answer = node[Peer(e)].session.answer
               PROVE  node[e].session = node[Peer(e)].session
    BY DEF AnswersMatchHellos
  <2>1. node[e].session \in InUse /\ node[Peer(e)].session \in InUse
    BY NodeFields, TheEnds
  <2> QED
    BY <2>1 DEF Sessions, Paired, Answered
<1> QED
  BY <1>1, <1>2, <1>3, PTL DEF Spec

(***************************************************************************)
(* Timers                                                                  *)
(***************************************************************************)

LEMMA Numbers ==
  ASSUME TypeOK, NEW e \in Endpoints
  PROVE  /\ Silence(e) \in Int /\ calm \in Nat /\ MaxDelay \in Nat
         /\ node[e].due \in Nat /\ KeepaliveInterval[e] \in Nat
BY NodeFields, Timers, DeadlineIsNat DEF Silence, TypeOK, ConstantsAssumption

LEMMA WithinMore ==
  ASSUME TypeOK, NEW e \in Endpoints, NEW m \in Int, NEW n \in Int,
         m <= n, Within(e, m)
  PROVE  Within(e, n)
BY Numbers DEF Within

\* Just heard, it hears: the first disjunct of Hears.
LEMMA HearsSoon ==
  ASSUME TypeOK', DueSoon', NEW e \in Endpoints, Within(e, MaxDelay)',
         node'[Peer(e)].phase = "engine"
  PROVE  Hears(e)'
<1> DEFINE k == KeepaliveInterval[Peer(e)]
           u == node'[Peer(e)].due
           w == Silence(e)'
           c == calm'
<1>1. k \in Nat /\ u \in Nat /\ u <= k /\ MaxDelay \in Nat
  BY TheEnds, Timers DEF DueSoon, TypeOK, Node, ConstantsAssumption
<1>2. w \in Int /\ c \in Int
  BY Timers, DeadlineIsNat DEF Silence, TypeOK, Node
<1>3. w <= MaxDelay \/ (faults' # 0 /\ c <= MaxDelay)
  BY DEF Within
<1> HIDE DEF k, u, w, c
<1>4. w <= k + MaxDelay - u \/ (faults' # 0 /\ c <= k + MaxDelay - u)
  BY <1>1, <1>2, <1>3
<1> QED
  BY <1>4 DEF Hears, Within, k, u, w, c

LEMMA EffectDue ==
  ASSUME TypeOK, DueSoon, NEW e \in Endpoints, NEW x \in Node, NEW read, NEW out,
         Effect(e, x, read, out), x.phase = "engine"
  PROVE  x.due <= KeepaliveInterval[e]
<1>1. CASE GoesOn(e, x, read, out)
  BY <1>1, Timers DEF GoesOn, DueSoon
<1>2. CASE Finishes(e, x, out)
  BY <1>2, DatagramFields, EstablishedNode, Timers DEF Finishes
<1>3. CASE Accepts(e, x, out)
  BY <1>3, EstablishedNode, Timers DEF Accepts
<1> QED
  BY <1>1, <1>2, <1>3 DEF Effect, Idles

\* An engine that goes on is not silent for longer than before.
LEMMA GoesOnWithin ==
  ASSUME TypeOK, TypeOK', NEW e \in Endpoints, NEW x \in Node, NEW read, NEW out,
         Become(e, x, read, out), GoesOn(e, x, read, out),
         NEW n \in Nat, Within(e, n) \/ x.wait = LivenessTimeout[e]
  PROVE  Within(e, n)'
<1>1. node'[e] = x /\ faults' = faults /\ calm' = calm
  BY Becomes
<1>2. node[e].wait \in Nat /\ LivenessTimeout[e] \in Nat
  BY NodeFields, Timers
<1>3. CASE x.wait = LivenessTimeout[e]
  BY <1>1, <1>2, <1>3 DEF Within, Silence
<1>4. CASE x.wait = node[e].wait /\ Within(e, n)
  BY <1>1, <1>4 DEF Within, Silence
<1> QED
  BY <1>3, <1>4 DEF GoesOn

\* Its silence does not change where nothing happens.
LEMMA OtherWithin ==
  ASSUME TypeOK, NEW e \in Endpoints, NEW f \in Endpoints, f # e, NEW x, NEW read,
         NEW out, Become(e, x, read, out), NEW n, Within(f, n)
  PROVE  Within(f, n)'
BY Becomes DEF Within, Silence

LEMMA MovesAnswer ==
  ASSUME TypeOK, TypeOK', NetIsFinite, Timely, NEW e \in Endpoints, NEW x \in Node,
         NEW read, NEW out, Become(e, x, read, out), Emits(e, out),
         Effect(e, x, read, out)
  PROVE  AnswerIsFresh'
<1> SUFFICES ASSUME NEW d \in net', d.type = "ANSWER", d.left <= MaxDelay,
                    node'["server"].phase = "engine",
                    d.session = node'["server"].session
             PROVE  Within("server", MaxDelay - d.left)'
  BY DEF AnswerIsFresh
<1>0. d.left \in Nat /\ MaxDelay \in Nat /\ MaxDelay - d.left \in Nat
  BY DEF TypeOK, Datagram, ConstantsAssumption
<1>1. CASE d \in net /\ e # "server"
  <2>1. node'["server"] = node["server"]
    BY <1>1, TheEnds, Becomes
  <2>2. Within("server", MaxDelay - d.left)
    BY <1>1, <2>1 DEF Timely, AnswerIsFresh
  <2> QED
    BY <1>1, <2>2, TheEnds, OtherWithin
<1>2. CASE d \in net /\ e = "server"
  <2>1. node'["server"] = x
    BY <1>2, Becomes
  <2>2. CASE GoesOn(e, x, read, out)
    <3>1. Within("server", MaxDelay - d.left)
      BY <1>2, <2>1, <2>2 DEF GoesOn, Timely, AnswerIsFresh
    <3> QED
      BY <1>0, <1>2, <2>2, <3>1, GoesOnWithin
  <2>3. ~ Accepts(e, x, out)
    <3> SUFFICES ASSUME NEW s \in Session, s.answer = NewAnswer,
                        x = Established(e, s)
                 PROVE  FALSE
      BY DEF Accepts
    <3>1. d.session = s
      BY <2>1, EstablishedNode
    <3> QED
      BY <1>2, <3>1, DatagramFields, NewNumbers
  <2> QED
    BY <1>2, <2>1, <2>2, <2>3 DEF Effect, Idles, Finishes
<1>3. CASE d \in out
  <2>1. ~ Idles(e, x, out) /\ ~ Finishes(e, x, out) /\ ~ GoesOn(e, x, read, out)
    BY <1>3 DEF Idles, Finishes, GoesOn, From
  <2>2. PICK s \in Session : e = "server" /\ x = Established(e, s)
    BY <2>1 DEF Effect, Accepts
  <2>3. x.wait = LivenessTimeout["server"] /\ node'["server"] = x
    BY <2>2, EstablishedNode, Becomes
  <2>4. LivenessTimeout["server"] \in Nat
    BY TheEnds, Timers
  <2> QED
    BY <1>0, <2>3, <2>4 DEF Within, Silence
<1> QED
  BY <1>1, <1>2, <1>3, Becomes

\* An engine that goes on keeps the session, hears, and is heard.
LEMMA GoesOnHeard ==
  ASSUME TypeOK, TypeOK', DueSoon, DueSoon', Heard, NEW e \in Endpoints,
         NEW x \in Node, NEW read, NEW out, Become(e, x, read, out), Emits(e, out),
         GoesOn(e, x, read, out), Connected'
  PROVE  Hears(e)' /\ Hears(Peer(e))'
<1> DEFINE p == Peer(e)
<1>0. p \in Endpoints /\ p # e /\ Peer(p) = e
  BY TheEnds
<1> HIDE DEF p
<1>1. node'[e] = x /\ node'[p] = node[p] /\ net' = (net \ read) \cup out
  BY <1>0, Becomes
<1>2. /\ node[e].phase = "engine" /\ node[p].phase = "engine"
      /\ node[e].session = node[p].session /\ x.session = node[e].session
  BY <1>0, <1>1, TheEnds DEF GoesOn, Connected, Endpoints, Peer
<1>3. Connected
  BY <1>0, <1>2, TheEnds DEF Connected, Endpoints, Peer
<1>4. Hears(e) /\ Hears(p)
  BY <1>0, <1>3 DEF Heard
<1> DEFINE k == KeepaliveInterval[p]
           u == node[p].due
           j == KeepaliveInterval[e]
           v == node[e].due
<1>5. /\ k \in Nat /\ u \in Nat /\ u <= k /\ MaxDelay \in Nat
      /\ j \in Nat /\ v \in Nat /\ v <= j
  BY <1>0, <1>2, Numbers DEF DueSoon
<1>6. Hears(e)'
  <2>1. CASE x.wait = LivenessTimeout[e]
    <3>1. Within(e, MaxDelay)'
      BY <1>5, <2>1, GoesOnWithin
    <3>2. node'[p].phase = "engine"
      BY <1>1, <1>2
    <3> QED
      BY <3>1, <3>2, HearsSoon DEF p
  <2>2. CASE Within(e, k + MaxDelay - u)
    <3>1. PICK n \in Nat : n = k + MaxDelay - u
      BY <1>5
    <3>2. Within(e, n)'
      BY <2>2, <3>1, GoesOnWithin
    <3>3. n = k + MaxDelay - node'[p].due
      BY <1>1, <3>1
    <3> QED
      BY <3>2, <3>3 DEF Hears, Within, p
  <2>3. ASSUME NEW d \in net, PacketFor(e, d), Within(e, k + 2 * MaxDelay - d.left)
        PROVE  Hears(e)'
    <3>1. CASE d \in read
      BY <1>2, <2>1, <2>3, <3>1 DEF PacketFor, GoesOn
    <3>2. CASE d \notin read
      <4>1. d \in net' /\ PacketFor(e, d)'
        BY <1>1, <1>2, <2>3, <3>2 DEF PacketFor
      <4>2. d.left \in Nat /\ d.left <= MaxDelay
        BY <2>3, DatagramFields DEF PacketFor, ConstantsAssumption
      <4>3. k + 2 * MaxDelay - d.left \in Nat
        BY <1>5, <4>2
      <4> HIDE DEF k
      <4>4. Within(e, k + 2 * MaxDelay - d.left)'
        BY <2>3, <4>3, GoesOnWithin
      <4> QED
        BY <4>1, <4>4 DEF Hears, Within, Silence, k, p
    <3> QED
      BY <3>1, <3>2
  <2> QED
    BY <1>4, <2>2, <2>3 DEF Hears, p
<1>7. Hears(p)'
  <2>1. CASE Within(p, j + MaxDelay - v) /\ x.due = v
    <3>1. PICK n \in Nat : n = j + MaxDelay - v
      BY <1>5
    <3>2. Within(p, n)'
      BY <1>0, <2>1, <3>1, OtherWithin
    <3>3. n = j + MaxDelay - node'[e].due
      BY <1>1, <2>1, <3>1
    <3> QED
      BY <1>0, <3>2, <3>3 DEF Hears, Within
  <2>2. CASE Within(p, j + MaxDelay - v) /\ x.due # v
    <3> DEFINE d == From(e, "DATA", x.session)
    <3>1. v = 0 /\ d \in out
      BY <2>2 DEF GoesOn
    <3>2. d.to = p /\ d.type = "DATA" /\ d.session = x.session /\ d.left = MaxDelay
      BY <1>2, NodeFields, NewDatagram DEF p
    <3> HIDE DEF d
    <3>3. d \in net' /\ PacketFor(p, d)'
      BY <1>1, <1>2, <1>5, <3>1, <3>2 DEF PacketFor
    <3>4. PICK n \in Nat : n = j + MaxDelay - v
      BY <1>5
    <3>5. Within(p, n)'
      BY <1>0, <2>2, <3>4, OtherWithin
    <3>6. n = j + 2 * MaxDelay - d.left
      BY <1>5, <3>1, <3>2, <3>4
    <3> QED
      BY <1>0, <3>3, <3>5, <3>6 DEF Hears, Within
  <2>3. ASSUME NEW d \in net, PacketFor(p, d), Within(p, j + 2 * MaxDelay - d.left)
        PROVE  Hears(p)'
    <3>1. d \notin read
      BY <1>0, <2>3 DEF PacketFor, GoesOn
    <3>2. d \in net' /\ PacketFor(p, d)'
      BY <1>1, <2>3, <3>1 DEF PacketFor
    <3>3. PICK n : n = j + 2 * MaxDelay - d.left
      OBVIOUS
    <3>4. Within(p, n)'
      BY <1>0, <2>3, <3>3, OtherWithin
    <3> QED
      BY <1>0, <3>2, <3>3, <3>4 DEF Hears, Within
  <2> QED
    BY <1>0, <1>4, <2>1, <2>2, <2>3 DEF Hears
<1> QED
  BY <1>6, <1>7 DEF p

\* The one step that connects the ends.
LEMMA FinishHeard ==
  ASSUME TypeOK, TypeOK', DueSoon', LateIsRecent, AnswerIsFresh,
         NEW x \in Node, NEW read, NEW out, Become("client", x, read, out),
         Finishes("client", x, out), Connected'
  PROVE  Hears("client")' /\ Hears("server")'
<1>0. /\ "client" \in Endpoints /\ "server" \in Endpoints
      /\ Peer("client") = "server" /\ Peer("server") = "client"
  BY DEF Endpoints, Peer
<1>1. PICK d \in net : d.type = "ANSWER" /\ x = Established("client", d.session)
  BY DEF Finishes
<1>2. /\ x.session = d.session /\ x.wait = LivenessTimeout["client"]
      /\ d.left \in Nat /\ MaxDelay \in Nat /\ LivenessTimeout["client"] \in Nat
  BY <1>0, <1>1, DatagramFields, EstablishedNode, Timers DEF ConstantsAssumption
<1>3. /\ node'["client"] = x /\ node'["server"] = node["server"]
      /\ faults' = faults /\ calm' = calm
  BY <1>0, Becomes
<1>4. /\ node'["client"].phase = "engine" /\ node'["server"].phase = "engine"
      /\ node["server"].phase = "engine" /\ d.session = node["server"].session
  BY <1>0, <1>2, <1>3 DEF Connected
<1>5. Within("client", MaxDelay)'
  BY <1>2, <1>3 DEF Within, Silence
<1>6. Within("server", MaxDelay)
  <2>1. CASE d.left <= MaxDelay
    <3>1. Within("server", MaxDelay - d.left)
      BY <1>1, <1>4, <2>1 DEF AnswerIsFresh
    <3>2. MaxDelay - d.left \in Int /\ MaxDelay - d.left <= MaxDelay
      BY <1>2
    <3> QED
      BY <1>0, <1>2, <3>1, <3>2, WithinMore
  <2>2. CASE d.left > MaxDelay
    BY <1>2, <2>2 DEF LateIsRecent, Within
  <2> QED
    BY <1>2, <2>1, <2>2
<1>7. Within("server", MaxDelay)'
  BY <1>3, <1>6 DEF Within, Silence
<1> QED
  BY <1>0, <1>4, <1>5, <1>7, HearsSoon

LEMMA MovesTimely ==
  ASSUME TypeOK, TypeOK', NetIsFinite, Timely, NEW e \in Endpoints, Moves(e)
  PROVE  Timely'
<1> PICK x, read, out :
      x \in Node /\ Become(e, x, read, out) /\ Emits(e, out) /\ Effect(e, x, read, out)
  BY DEF Moves
<1>1. /\ node'[e] = x /\ \A f \in Endpoints : f # e => node'[f] = node[f]
      /\ net' = (net \ read) \cup out /\ faults' = faults /\ calm' = calm
  BY Becomes
<1>2. DueSoon'
  BY <1>1, EffectDue DEF Timely, DueSoon
<1>3. LateIsRecent'
  <2> SUFFICES ASSUME NEW d \in net', d.left > MaxDelay
               PROVE  faults' # 0 /\ calm' = 0
    BY DEF LateIsRecent
  <2>1. d \notin out
    BY DEF Emits, ConstantsAssumption
  <2> QED
    BY <1>1, <2>1 DEF Timely, LateIsRecent
<1>4. AnswerIsFresh'
  BY MovesAnswer
<1>5. Heard'
  <2> SUFFICES ASSUME Connected' PROVE \A f \in Endpoints : Hears(f)'
    BY DEF Heard
  <2>1. x.phase = "engine"
    BY <1>1 DEF Connected
  <2>2. CASE GoesOn(e, x, read, out)
    BY <1>2, <2>2, GoesOnHeard, TheEnds DEF Timely
  <2>3. CASE Finishes(e, x, out)
    <3>1. e = "client"
      BY <2>3 DEF Finishes
    <3> QED
      BY <1>2, <2>3, <3>1, FinishHeard DEF Timely, Endpoints
  <2>4. ~ Accepts(e, x, out)
    <3> SUFFICES ASSUME NEW s \in Session, s.answer = NewAnswer, e = "server",
                        x = Established(e, s)
                 PROVE  FALSE
      BY DEF Accepts
    <3>1. node'["client"] = node["client"] /\ node["client"].session \in InUse
      BY <1>1, TheEnds, NodeFields
    <3>2. node["client"].session = s
      BY <1>1, <3>1, EstablishedNode DEF Connected
    <3> QED
      BY <3>1, <3>2, NewNumbers
  <2> QED
    BY <2>1, <2>2, <2>3, <2>4 DEF Effect, Idles
<1> QED
  BY <1>2, <1>3, <1>4, <1>5 DEF Timely

LEMMA FaultTimely ==
  ASSUME TypeOK, TypeOK', Timely, Fault,
         \/ node' = node /\ NetFault
         \/ \E e \in Endpoints : NodeFault(e)
  PROVE  Timely'
<1>1. faults' # 0 /\ calm' = 0
  BY DEF Fault, TypeOK, ConstantsAssumption
<1>2. \A e \in Endpoints : node'[e] = node[e] \/ node'[e].phase # "engine"
  BY DEF NodeFault, TypeOK
<1>3. DueSoon'
  BY <1>2 DEF Timely, DueSoon
<1>4. LateIsRecent'
  BY <1>1 DEF LateIsRecent
<1>5. AnswerIsFresh'
  <2> SUFFICES ASSUME NEW d \in net', d.left <= MaxDelay
               PROVE  Within("server", MaxDelay - d.left)'
    BY DEF AnswerIsFresh
  <2>1. d.left \in Nat /\ MaxDelay \in Nat
    BY DEF TypeOK, Datagram, ConstantsAssumption
  <2> QED
    BY <1>1, <2>1 DEF Within
<1>6. Heard'
  <2> SUFFICES ASSUME Connected', NEW e \in Endpoints PROVE Hears(e)'
    BY DEF Heard
  <2>1. Within(e, MaxDelay)'
    BY <1>1 DEF Within, ConstantsAssumption
  <2>2. node'[Peer(e)].phase = "engine"
    BY TheEnds DEF Connected
  <2> QED
    BY <1>3, <2>1, <2>2, HearsSoon
<1> QED
  BY <1>3, <1>4, <1>5, <1>6 DEF Timely

LEMMA TickWithin ==
  ASSUME TypeOK, TypeOK', Tick, NEW e \in Endpoints, NEW n \in Int, Within(e, n)
  PROVE  Within(e, n + 1)'
<1>1. /\ node'[e].wait \in Nat /\ node[e].wait \in Nat
      /\ node'[e].wait >= node[e].wait - 1 /\ LivenessTimeout[e] \in Nat
  BY Ticks, NodeFields, Timers DEF TypeOK, Node
<1>2. calm \in Nat /\ calm' \in Nat /\ calm' <= calm + 1 /\ faults' = faults
  <2>1. calm \in 0 .. Deadline + 1 /\ calm' \in 0 .. Deadline + 1
    BY DEF TypeOK
  <2>2. calm' <= calm + 1 /\ faults' = faults
    BY Ticks
  <2> QED
    BY <2>1, <2>2, DeadlineIsNat
<1>3. CASE Silence(e) <= n
  BY <1>1, <1>3 DEF Silence, Within
<1>4. CASE faults # 0 /\ calm <= n
  BY <1>2, <1>4 DEF Within
<1> QED
  BY <1>3, <1>4 DEF Within

LEMMA TickTimely ==
  ASSUME TypeOK, TypeOK', Timely, Tick
  PROVE  Timely'
<1>1. \A e \in Endpoints :
        /\ node'[e].phase = node[e].phase /\ node'[e].session = node[e].session
        /\ node[e].phase = "engine" => node'[e].due = node[e].due - 1
  BY Ticks
<1>2. MaxDelay \in Nat /\ MaxLate \in Nat
  BY DEF ConstantsAssumption
<1>3. DueSoon'
  BY <1>1, NodeFields, Timers DEF Timely, DueSoon
<1>4. ASSUME NEW d \in net, d.left > MaxDelay
      PROVE  faults' # 0 /\ calm' = 0
  <2>1. faults # 0 /\ ~ Quiet
    BY <1>2, <1>4, DatagramFields DEF Timely, LateIsRecent, Quiet
  <2> QED
    BY <2>1, Ticks
<1>5. LateIsRecent'
  <2> SUFFICES ASSUME NEW c \in net', c.left > MaxDelay
               PROVE  faults' # 0 /\ calm' = 0
    BY DEF LateIsRecent
  <2>1. PICK d \in net : c = [d EXCEPT !.left = @ - 1]
    BY Ticks
  <2>2. c.left = d.left - 1 /\ d.left \in Nat
    BY <2>1, Ages, DatagramFields, <1>2
  <2>3. d.left > MaxDelay
    BY <1>2, <2>2
  <2> QED
    BY <1>4, <2>3
<1>6. AnswerIsFresh'
  <2> SUFFICES ASSUME NEW c \in net', c.type = "ANSWER", c.left <= MaxDelay,
                      node'["server"].phase = "engine",
                      c.session = node'["server"].session
               PROVE  Within("server", MaxDelay - c.left)'
    BY DEF AnswerIsFresh
  <2>1. PICK d \in net : c = [d EXCEPT !.left = @ - 1]
    BY Ticks
  <2>2. /\ c.left = d.left - 1 /\ d.left \in Nat
        /\ c.type = d.type /\ c.session = d.session
    BY <2>1, Ages, DatagramFields, <1>2
  <2>3. CASE d.left <= MaxDelay
    <3>1. Within("server", MaxDelay - d.left)
      BY <1>1, <2>2, <2>3, TheEnds DEF Timely, AnswerIsFresh
    <3>2. Within("server", (MaxDelay - d.left) + 1)'
      BY <1>2, <2>2, <3>1, TickWithin, TheEnds
    <3>3. (MaxDelay - d.left) + 1 = MaxDelay - c.left
      BY <1>2, <2>2
    <3> QED
      BY <3>2, <3>3
  <2>4. CASE d.left > MaxDelay
    <3>1. c.left \in Nat
      BY <1>2, <2>2, <2>4
    <3> QED
      BY <1>2, <1>4, <2>4, <3>1 DEF Within
  <2> QED
    BY <1>2, <2>2, <2>3, <2>4
<1>7. Heard'
  <2> SUFFICES ASSUME Connected', NEW e \in Endpoints PROVE Hears(e)'
    BY DEF Heard
  <2> DEFINE k == KeepaliveInterval[Peer(e)]
  <2>1. Connected
    BY <1>1, TheEnds DEF Connected
  <2>2. Hears(e)
    BY <2>1 DEF Timely, Heard
  <2>3. /\ k \in Nat /\ node[Peer(e)].due \in Nat
        /\ node'[Peer(e)].due = node[Peer(e)].due - 1
    BY <1>1, <2>1, TheEnds, Numbers DEF Connected
  <2>4. CASE Within(e, k + MaxDelay - node[Peer(e)].due)
    <3>1. PICK n \in Int : n = k + MaxDelay - node[Peer(e)].due
      BY <1>2, <2>3
    <3>2. Within(e, n + 1)'
      BY <2>4, <3>1, TickWithin
    <3>3. n + 1 = k + MaxDelay - node'[Peer(e)].due
      BY <1>2, <2>3, <3>1
    <3> QED
      BY <3>2, <3>3 DEF Hears, Within
  <2>5. ASSUME NEW d \in net, PacketFor(e, d), Within(e, k + 2 * MaxDelay - d.left)
        PROVE  Hears(e)'
    <3> DEFINE c == [d EXCEPT !.left = @ - 1]
    <3>1. /\ c \in net' /\ c.left = d.left - 1 /\ d.left \in Nat
          /\ c.to = d.to /\ c.type = d.type /\ c.session = d.session
      <4>1. c \in net'
        BY Ticks
      <4>2. d.left \in Nat
        BY <1>2, DatagramFields
      <4> QED
        BY <4>1, <4>2, Ages
    <3> HIDE DEF c
    <3>2. PacketFor(e, c)'
      BY <1>1, <1>2, <2>5, <3>1 DEF PacketFor
    <3>3. PICK n \in Int : n = k + 2 * MaxDelay - d.left
      BY <1>2, <2>3, <3>1
    <3>4. Within(e, n + 1)'
      BY <2>5, <3>3, TickWithin
    <3>5. n + 1 = k + 2 * MaxDelay - c.left
      BY <1>2, <2>3, <3>1, <3>3
    <3> QED
      BY <3>1, <3>2, <3>4, <3>5 DEF Hears, Within
  <2> QED
    BY <2>2, <2>4, <2>5 DEF Hears
<1> QED
  BY <1>3, <1>5, <1>6, <1>7 DEF Timely

LEMMA StutterTimely ==
  ASSUME Timely, UNCHANGED vars
  PROVE  Timely'
<1> USE DEF vars
<1>1. DueSoon' /\ LateIsRecent'
  BY DEF Timely, DueSoon, LateIsRecent
<1>2. AnswerIsFresh'
  BY DEF Timely, AnswerIsFresh, Within, Silence
<1>3. Heard'
  BY DEF Timely, Heard, Connected, Hears, PacketFor, Within, Silence
<1> QED
  BY <1>1, <1>2, <1>3 DEF Timely

LEMMA InitTimely == Init => Timely
<1> SUFFICES ASSUME Init PROVE Timely
  OBVIOUS
<1>1. \A e \in Endpoints : node[e].phase # "engine"
  BY IdleNodes DEF Init
<1> QED
  BY <1>1, TheEnds
  DEF Init, Timely, DueSoon, LateIsRecent, AnswerIsFresh, Heard, Connected

LEMMA InitInv == Init => IInv
BY InitTypes, InitSessions, InitTimely DEF IInv

LEMMA IInvInvariance == IInv /\ [Next]_vars => IInv'
<1> SUFFICES ASSUME IInv, [Next]_vars PROVE IInv'
  OBVIOUS
<1>1. TypeOK' /\ NetIsFinite' /\ Sessions'
  BY TypesInvariance, SessionsInvariance DEF IInv
<1>2. Timely'
  BY <1>1, NextCases, MovesTimely, FaultTimely, TickTimely, StutterTimely DEF IInv
<1> QED
  BY <1>1, <1>2 DEF IInv

(***************************************************************************)
(* Sessions stay                                                           *)
(***************************************************************************)

\* With wide timers, and no fault within a liveness timeout, no engine of a
\* common session is at its liveness timeout.
LEMMA NotTimedOut ==
  ASSUME IInv, WideTimers, Connected, NEW e \in Endpoints,
         faults = 0 \/ calm >= LivenessTimeout[e]
  PROVE  node[e].wait # 0
<1> DEFINE k == KeepaliveInterval[Peer(e)]
<1>1. /\ k \in Nat /\ k + 2 * MaxDelay < LivenessTimeout[e]
      /\ MaxDelay \in Nat /\ LivenessTimeout[e] \in Nat
      /\ calm \in Nat /\ node[e].wait \in Nat /\ Silence(e) \in Int
      /\ node[Peer(e)].due \in Nat
  BY TheEnds, Numbers, NodeFields, Timers DEF WideTimers, IInv
<1> HIDE DEF k
<1>2. \E n \in Int : n <= k + 2 * MaxDelay /\ Within(e, n)
  <2>1. Hears(e)
    BY DEF IInv, Timely, Heard
  <2>2. k + MaxDelay - node[Peer(e)].due \in Int
    BY <1>1
  <2>3. k + MaxDelay - node[Peer(e)].due <= k + 2 * MaxDelay
    BY <1>1
  <2>4. ASSUME NEW d \in net
        PROVE  /\ k + 2 * MaxDelay - d.left \in Int
               /\ k + 2 * MaxDelay - d.left <= k + 2 * MaxDelay
    BY <1>1, DatagramFields DEF IInv, ConstantsAssumption
  <2> QED
    BY <2>1, <2>2, <2>3, <2>4 DEF Hears, k
<1>3. Silence(e) < LivenessTimeout[e]
  BY <1>1, <1>2 DEF Within
<1> QED
  BY <1>1, <1>3 DEF Silence

LEMMA StepStays ==
  ASSUME IInv, WideTimers, Connected, Undisturbed, NEW e \in Endpoints,
         Step(e) \/ Launch(e)
  PROVE  Connected'
<1>0. TypeOK /\ node[e].phase = "engine" /\ node[e].wait # 0
  BY NotTimedOut DEF IInv, Connected, Undisturbed
<1>1. PICK x, read, out :
        /\ Become(e, x, read, out)
        /\ x.phase = "engine" /\ x.session = node[e].session
  <2>1. CASE Receive(e)
    <3> PICK d \in net : ReceiveInEngine(e, d)
      BY <1>0, <2>1 DEF Receive, ReceiveInHandshake, ReceiveNowhere
    <3>1. /\ Refreshed(e, d).phase = "engine"
          /\ Refreshed(e, d).session = node[e].session
      BY <1>0, NodeFields DEF Refreshed, Node
    <3> QED
      BY <3>1 DEF ReceiveInEngine
  <2>2. CASE Send(e)
    BY <1>0, <2>2 DEF Send
  <2>3. CASE CheckTimers(e)
    <3> DEFINE y == IF node[e].due = 0
                    THEN [node[e] EXCEPT !.due = KeepaliveInterval[e]] ELSE node[e]
    <3>1. y.phase = "engine" /\ y.session = node[e].session
      BY <1>0, NodeFields DEF Node
    <3>2. Become(e, y, {}, Keepalives(e, node[e]))
      BY <1>0, <2>3 DEF CheckTimers
    <3> QED
      BY <3>1, <3>2
  <2> QED
    BY <1>0, <2>1, <2>2, <2>3 DEF Step, Open, Expire, Launch
<1>2. \A f \in Endpoints :
        node'[f].phase = "engine" /\ node'[f].session = node[f].session
  BY <1>0, <1>1, Becomes DEF Connected
<1> QED
  BY <1>2, TheEnds DEF Connected

(***************************************************************************)
(* A session both ends have is given up only because of a recent fault.    *)
(***************************************************************************)
THEOREM ConnectionsStay == Spec => ConnectedStays
<1>1. ASSUME IInv, [Next]_vars
      PROVE  [WideTimers /\ Connected /\ Undisturbed => Connected']_vars
  <2> SUFFICES ASSUME WideTimers, Connected, Undisturbed, Next
               PROVE  Connected'
    BY <1>1
  <2>1. ~ Fault
    BY <1>1 DEF Fault, Undisturbed, IInv, TypeOK, ConstantsAssumption
  <2>2. CASE \E e \in Endpoints : Step(e) \/ Launch(e)
    BY <1>1, <2>2, StepStays
  <2>3. CASE Tick
    <3>1. \A e \in Endpoints :
            node'[e].phase = node[e].phase /\ node'[e].session = node[e].session
      BY <1>1, <2>3, Ticks DEF IInv
    <3> QED
      BY <3>1, TheEnds DEF Connected
  <2> QED
    BY <2>1, <2>2, <2>3 DEF Next, Fail, End, Lose, Late, Duplicate
<1> QED
  BY <1>1, InitInv, IInvInvariance, PTL DEF Spec, ConnectedStays

(***************************************************************************)
(* Recovery.  The invariant (Settling) bounds, for each pair of phases of  *)
(* the ends, the ticks since the last fault together with those until the  *)
(* pair of phases is left: an engine without its peer runs out; then a     *)
(* hello is near, is on its way, finds the server asleep and has the next  *)
(* round near, and is near or on its way while a round lasts that is long  *)
(* enough for it; then the answer is on its way.  A fault makes all of it  *)
(* true, so that only the steps of the ends and the ticks have to keep it. *)
(***************************************************************************)

Client == node["client"]
Server == node["server"]

\* The timers of the client and of the server.
Lc == LivenessTimeout["client"]
Ls == LivenessTimeout["server"]
Hc == HandshakeTimeout["client"]
Hs == HandshakeTimeout["server"]
Rc == ReconnectDelay["client"]
Rs == ReconnectDelay["server"]

ToClient == {d \in net : d.to = "client"}
Hellos == {d \in net : d.to = "server" /\ d.type = "HELLO"}

\* They cost a server in its handshake an attempt.
Strays == {d \in net : d.to = "server" /\ d.type # "HELLO"}

\* Nobody waits for longer than its timer says.
Patient ==
  \A e \in Endpoints :
    /\ node[e].phase = "sleeping" => node[e].wait <= ReconnectDelay[e]
    /\ node[e].phase = "handshake" => node[e].wait <= HandshakeTimeout[e]
    /\ node[e].phase = "engine" => node[e].wait <= LivenessTimeout[e]
    /\ node[e].phase = "ended" => node[e].wait = 0

\* A server that has slept for long has nothing on its way to the client.
ServerSilent ==
  \A d \in ToClient :
    /\ Server.phase = "sleeping"
         => d.left + Rs - Server.wait <= MaxDelay \/ calm + d.left <= MaxDelay
    /\ Server.phase = "handshake" => calm + d.left <= MaxDelay
    /\ Server.phase # "engine" => calm + d.left <= OrphansOver + MaxDelay

\* What the client sent in its engine is ahead of its next hello.
ClientSilent ==
  \A d \in Strays :
    /\ Client.phase = "sleeping"
         => d.left + Rc - Client.wait <= MaxDelay \/ calm + d.left <= MaxDelay
    /\ Client.phase = "handshake" => d.left < MaxDelay \/ calm + d.left <= MaxDelay

\* The client waits for the answer to this hello, long enough to get it.
Current(d) ==
  /\ Client.phase = "handshake" /\ d.session = Client.session
  /\ Client.wait >= Hc - MaxDelay + d.left

\* A hello the client no longer waits for reaches no server in its handshake,
\* except soon after a fault.
HellosCurrent ==
  \A d \in Hellos :
    \/ Current(d)
    \/ Server.phase = "engine"
    \/ calm + d.left <= 2 * MaxDelay
    \/ Server.phase = "sleeping" /\ d.left + Rs - Server.wait <= 2 * MaxDelay

\* Nor does the answer of a session the server has given up reach the client.
AnswersCurrent ==
  \A d \in ToClient :
    d.type = "ANSWER" =>
      \/ Server.phase = "engine" /\ d.session = Server.session
      \/ calm + d.left <= MaxDelay

\* The server's answer is on its way, ahead of all it has sent since.
Answering(a) ==
  /\ a.type = "ANSWER" /\ a.session = Server.session
  /\ a.session.hello = Client.session.hello
  /\ a.left < Client.wait
  /\ Server.wait + MaxDelay - a.left >= Ls
  /\ calm + a.left <= Deadline
  /\ \A d \in ToClient : d = a \/ (d.type = "DATA" /\ a.left <= d.left)

\* The client is about to have the session the server has.
Pending ==
  /\ Server.phase = "engine" /\ Client.phase = "handshake"
  /\ \E a \in ToClient : Answering(a)

\* An engine without its peer ends, whatever is still on its way to it.
Orphan(e) ==
  /\ calm + node[e].wait <= OrphansOver
  /\ \A d \in net :
       d.to = e /\ d.type = "DATA" /\ d.session = node[e].session
         => calm + d.left + LivenessTimeout[e] <= OrphansOver

ClientOrphan ==
  Client.phase = "engine" /\ ~ Connected => Orphan("client")

ServerOrphan ==
  Server.phase = "engine" /\ ~ Connected => Pending \/ Orphan("server")

\* Ticks until the client sends a hello.
NextHello ==
  Client.wait
    + IF Client.phase = "handshake" /\ Client.left = 0 THEN Rc ELSE 0

\* Ticks until the server's round is over.
RoundLeft == Server.wait + Server.left * Hs

\* The four situations of two ends that are both without an engine.
HelloIsNear == calm + NextHello <= OrphansOver + Hc + Rc

HelloOnItsWay ==
  \E d \in Hellos :
    /\ Current(d)
    /\ calm + d.left <= OrphansOver + HelloComes
    /\ \A c \in Strays : c.left < d.left

RoundIsNear ==
  /\ Server.phase = "sleeping"
  /\ Strays = {}
  /\ calm + Server.wait <= OrphansOver + HelloComes + Rs

HelloMeetsRound ==
  /\ Server.phase = "handshake"
  /\ Strays = {}
  /\ \/ \E d \in Hellos :
          /\ Current(d)
          /\ d.left < RoundLeft
          /\ calm + d.left + MaxDelay <= Deadline
     \/ /\ NextHello + MaxDelay < RoundLeft
        /\ calm + NextHello + 2 * MaxDelay <= Deadline

Approaching ==
  Client.phase # "engine" /\ Server.phase # "engine"
    => HelloIsNear \/ HelloOnItsWay \/ RoundIsNear \/ HelloMeetsRound

\* While both processes run and no late copy is on its way.
Recovering ==
  /\ ServerSilent /\ ClientSilent /\ HellosCurrent /\ AnswersCurrent
  /\ ClientOrphan /\ ServerOrphan /\ Approaching

Settling ==
  /\ Patient
  /\ calm > 0 => Quiet
  /\ Quiet => Recovering

LEMMA Wide ==
  ASSUME WideTimers
  PROVE  /\ Lc \in Nat \ {0} /\ Ls \in Nat \ {0} /\ Hc \in Nat \ {0}
         /\ Hs \in Nat \ {0} /\ Rc \in Nat \ {0} /\ Rs \in Nat \ {0}
         /\ MaxDelay \in Nat
         /\ 2 * MaxDelay < Hc /\ 2 * MaxDelay < Rs
         /\ 2 * MaxDelay < Ls /\ 2 * MaxDelay < Lc
         /\ OrphansOver = Ls + MaxDelay + Lc
         /\ HelloComes = Hc + Rc + MaxDelay
         /\ Deadline = Ls + MaxDelay + Lc + 2 * (Hc + Rc + MaxDelay) + Rs + MaxDelay
         /\ Attempts \in Nat \ {0} /\ HelloComes < Attempts * Hs
<1>1. /\ Lc \in Nat \ {0} /\ Ls \in Nat \ {0} /\ Hc \in Nat \ {0}
      /\ Hs \in Nat \ {0} /\ Rc \in Nat \ {0} /\ Rs \in Nat \ {0}
      /\ MaxDelay \in Nat /\ Attempts \in Nat \ {0}
      /\ KeepaliveInterval["client"] \in Nat /\ KeepaliveInterval["server"] \in Nat
  BY TheEnds, Timers DEF Lc, Ls, Hc, Hs, Rc, Rs, ConstantsAssumption
<1>2. 2 * MaxDelay < Hc /\ 2 * MaxDelay < Rs /\ HelloComes < Attempts * Hs
  BY DEF WideTimers, Hc, Rs, Hs, Rc, HelloComes
<1>3. 2 * MaxDelay < Ls /\ 2 * MaxDelay < Lc
  <2>1. /\ KeepaliveInterval["client"] + 2 * MaxDelay < Ls
        /\ KeepaliveInterval["server"] + 2 * MaxDelay < Lc
    BY TheEnds DEF WideTimers, Endpoints, Peer, Lc, Ls
  <2> QED
    BY <1>1, <2>1
<1>4. OrphansOver = Ls + MaxDelay + Lc /\ HelloComes = Hc + Rc + MaxDelay
  BY DEF OrphansOver, HelloComes, Ls, Lc, Hc, Rc
<1>5. Deadline = OrphansOver + HelloComes + Rs + HelloComes + MaxDelay
  BY DEF Deadline, Rs
<1> QED
  BY <1>1, <1>2, <1>3, <1>4, <1>5

LEMMA Sizes ==
  ASSUME TypeOK
  PROVE  /\ Client \in Node /\ Server \in Node
         /\ Client.wait \in Nat /\ Server.wait \in Nat /\ calm \in Nat
         /\ Client.left \in Nat /\ Server.left \in Nat
         /\ \A d \in net : d.left \in Nat
         /\ Quiet => \A d \in net : d.left <= MaxDelay
<1>1. MaxLate \in Nat /\ Attempts - 1 \in Int
  BY DEF ConstantsAssumption
<1>2. calm \in Nat
  BY DeadlineIsNat DEF TypeOK
<1> QED
  BY <1>1, <1>2, TheEnds, NodeFields, DatagramFields DEF Client, Server, Quiet

LEMMA SizesNext ==
  ASSUME TypeOK'
  PROVE  /\ Client' \in Node /\ Server' \in Node
         /\ Client'.wait \in Nat /\ Server'.wait \in Nat /\ calm' \in Nat
         /\ Client'.left \in Nat /\ Server'.left \in Nat
         /\ \A d \in net' : d.left \in Nat
         /\ Quiet' => \A d \in net' : d.left <= MaxDelay
<1>1. MaxLate \in Nat /\ Attempts - 1 \in Int
  BY DEF ConstantsAssumption
<1>2. calm' \in Nat
  BY DeadlineIsNat DEF TypeOK
<1>3. Client' \in Node /\ Server' \in Node
  BY TheEnds DEF Client, Server, TypeOK
<1>4. \A d \in net' : d.left \in Nat
  BY <1>1 DEF TypeOK, Datagram
<1> QED
  BY <1>1, <1>2, <1>3, <1>4 DEF Quiet, Node

(***************************************************************************)
(* The steps of an endpoint, as the two ends see them.                     *)
(***************************************************************************)

\* It reads nothing, or a datagram that nothing on its way is ahead of.
Reads(e, read) ==
  \/ read = {}
  \/ \E d \in net :
       d.to = e /\ read = {d} /\ (d.left > MaxDelay \/ ~ \E c \in net : Before(c, d))

\* Open, or the next attempt.
Begins(e, read, out) ==
  /\ \/ /\ node[e].phase = "sleeping" /\ node[e].wait = 0 /\ read = {}
        /\ node'[e].left = Attempts - 1
     \/ /\ node[e].phase = "handshake" /\ node[e].left > 0
        /\ read = {} => node[e].wait = 0
        /\ node'[e].session = node[e].session
        /\ node'[e].left = node[e].left - 1
  /\ node'[e].phase = "handshake"
  /\ node'[e].wait = HandshakeTimeout[e]
  /\ \A d \in read : ~ Usable(e, d)
  /\ out = Opening(e, node'[e].session)

\* The last attempt was of no use.
GivesUp(e, read, out) ==
  /\ node[e].phase = "handshake" /\ node[e].left = 0
  /\ read = {} => node[e].wait = 0
  /\ node'[e] = Sleeping(e)
  /\ \A d \in read : ~ Usable(e, d)
  /\ out = {}

\* The client has its answer.
Finishing(e, read, out) ==
  /\ e = "client" /\ node[e].phase = "handshake"
  /\ \E a \in net :
       /\ read = {a} /\ Answers(a, node[e].session)
       /\ node'[e] = Established(e, a.session)
  /\ out = {}

\* The server has a hello.
Accepting(e, read, out) ==
  /\ e = "server" /\ node[e].phase = "handshake"
  /\ \E d \in net, s \in Session :
       /\ read = {d} /\ d.type = "HELLO"
       /\ s.hello = d.session.hello /\ s.answer = NewAnswer
       /\ node'[e] = Established(e, s)
       /\ out = {From(e, "ANSWER", s)}

\* Its engine goes on, and hears from its peer or does not.
Continues(e, read, out) ==
  /\ node[e].phase = "engine" /\ node'[e].phase = "engine"
  /\ node'[e].session = node[e].session
  /\ \/ node'[e].wait = node[e].wait
     \/ /\ node'[e].wait = LivenessTimeout[e]
        /\ \E d \in read : d.type = "DATA" /\ d.session = node[e].session
  /\ \A d \in out : d = From(e, "DATA", node[e].session)

TimesOut(e, read, out) ==
  /\ node[e].phase = "engine" /\ node[e].wait = 0
  /\ node'[e] = Sleeping(e)
  /\ read = {}
  /\ \A d \in out : d = From(e, "DATA", node[e].session)

\* A datagram comes to an end without a socket.
Misses(e, read, out) ==
  /\ node[e].phase \in {"sleeping", "ended"} /\ node'[e] = node[e]
  /\ out = {}

Kinds(e, read, out) ==
  \/ Begins(e, read, out)
  \/ GivesUp(e, read, out)
  \/ Finishing(e, read, out)
  \/ Accepting(e, read, out)
  \/ Continues(e, read, out)
  \/ TimesOut(e, read, out)
  \/ Misses(e, read, out)

\* What they have in common.
Exchanges(e, read, out) ==
  /\ node'[Peer(e)] = node[Peer(e)]
  /\ net' = (net \ read) \cup out
  /\ calm' = calm
  /\ Reads(e, read)
  /\ \A d \in out : d.to = Peer(e) /\ d.left = MaxDelay

LEMMA StepKinds ==
  ASSUME TypeOK, NetIsFinite, NEW e \in Endpoints, Step(e)
  PROVE  \E read, out : Exchanges(e, read, out) /\ Kinds(e, read, out)
<1>0. /\ node[e] \in Node /\ node[e].session \in Session /\ node[e].left \in Nat
      /\ Attempts \in Nat \ {0}
  BY NodeFields DEF ConstantsAssumption
<1>1. ASSUME NEW x, NEW read, NEW out, Become(e, x, read, out), Reads(e, read),
             \A d \in out : d.to = Peer(e) /\ d.left = MaxDelay
      PROVE  Exchanges(e, read, out) /\ node'[e] = x
  BY <1>1, Becomes, TheEnds DEF Exchanges
<1>2. ASSUME NEW s \in Session
      PROVE  \A d \in Opening(e, s) : d.to = Peer(e) /\ d.left = MaxDelay
  BY NewDatagram DEF Opening
<1>3. ASSUME NEW read, NextAttempt(e, read), node[e].phase = "handshake",
             Reads(e, read), read = {} => node[e].wait = 0,
             \A d \in read : ~ Usable(e, d)
      PROVE  \E out : Exchanges(e, read, out) /\ Kinds(e, read, out)
  <2>1. CASE LastAttempt(node[e])
    <3>1. Exchanges(e, read, {}) /\ node'[e] = Sleeping(e)
      BY <1>1, <1>3, <2>1 DEF NextAttempt
    <3>2. GivesUp(e, read, {})
      BY <1>3, <2>1, <3>1 DEF GivesUp, LastAttempt
    <3> QED
      BY <3>1, <3>2 DEF Kinds
  <2>2. CASE ~ LastAttempt(node[e])
    <3> DEFINE s == node[e].session
               n == node[e].left - 1
               y == Handshaking(e, s, n)
    <3>1. Exchanges(e, read, Opening(e, s)) /\ node'[e] = y
      BY <1>0, <1>1, <1>2, <1>3, <2>2 DEF NextAttempt
    <3>2. /\ y.phase = "handshake" /\ y.session = s /\ y.left = n
          /\ y.wait = HandshakeTimeout[e]
      BY DEF Handshaking
    <3>3. Begins(e, read, Opening(e, s))
      BY <1>0, <1>3, <2>2, <3>1, <3>2 DEF Begins, LastAttempt
    <3> QED
      BY <3>1, <3>3 DEF Kinds
  <2> QED
    BY <2>1, <2>2
<1>4. CASE Open(e)
  <2> DEFINE s == IF e = "client" THEN [NoSession EXCEPT !.hello = NewHello]
                  ELSE NoSession
             y == Handshaking(e, s, Attempts - 1)
  <2>1. /\ node[e].phase = "sleeping" /\ node[e].wait = 0
        /\ Become(e, y, {}, Opening(e, s))
    BY <1>4 DEF Open
  <2>2. s \in Session
    BY NewNumbers DEF NoSession, Session
  <2>3. /\ y.phase = "handshake" /\ y.session = s /\ y.left = Attempts - 1
        /\ y.wait = HandshakeTimeout[e]
    BY DEF Handshaking
  <2> HIDE DEF s, y
  <2>4. Exchanges(e, {}, Opening(e, s)) /\ node'[e] = y
    BY <1>1, <1>2, <2>1, <2>2 DEF Reads
  <2>5. Begins(e, {}, Opening(e, s))
    BY <2>1, <2>3, <2>4 DEF Begins
  <2> QED
    BY <2>4, <2>5 DEF Kinds
<1>5. CASE Expire(e)
  BY <1>3, <1>5 DEF Expire, Reads
<1>6. CASE Receive(e)
  <2> PICK d \in net :
        /\ d.to = e
        /\ d.left > MaxDelay \/ ~ \E c \in net : Before(c, d)
        /\ ReceiveInHandshake(e, d) \/ ReceiveInEngine(e, d) \/ ReceiveNowhere(e, d)
    BY <1>6 DEF Receive
  <2>0. Reads(e, {d}) /\ d.session \in Session
    BY DatagramFields DEF Reads
  <2>1. CASE ReceiveInHandshake(e, d) /\ ~ Usable(e, d)
    <3>1. NextAttempt(e, {d}) /\ node[e].phase = "handshake"
      BY <2>1 DEF ReceiveInHandshake
    <3> QED
      BY <1>3, <2>0, <2>1, <3>1
  <2>2. CASE ReceiveInHandshake(e, d) /\ Usable(e, d) /\ e = "client"
    <3> DEFINE s == [node["client"].session EXCEPT !.answer = d.session.answer]
    <3>1. /\ Become("client", Established("client", s), {d}, {})
          /\ node[e].phase = "handshake"
      BY <2>2 DEF ReceiveInHandshake, Finish
    <3>2. Answers(d, node[e].session)
      BY <2>2 DEF Usable
    <3>3. s = d.session
      BY <1>0, <2>0, <2>2, <3>2 DEF Session, Answers
    <3> HIDE DEF s
    <3>4. Exchanges(e, {d}, {}) /\ node'[e] = Established(e, d.session)
      BY <1>1, <2>0, <2>2, <3>1, <3>3
    <3>5. Finishing(e, {d}, {})
      BY <2>2, <3>1, <3>2, <3>4 DEF Finishing
    <3> QED
      BY <3>4, <3>5 DEF Kinds
  <2>3. CASE ReceiveInHandshake(e, d) /\ Usable(e, d) /\ e # "client"
    <3> DEFINE s == [hello |-> d.session.hello, answer |-> NewAnswer]
               out == {From(e, "ANSWER", s)}
    <3>1. /\ e = "server" /\ node[e].phase = "handshake" /\ d.type = "HELLO"
          /\ Become(e, Established(e, s), {d}, out)
      BY <2>3 DEF ReceiveInHandshake, Accept, Endpoints, Usable
    <3>2. s \in Session /\ s.hello = d.session.hello /\ s.answer = NewAnswer
      BY <2>0, NewNumbers DEF Session
    <3> HIDE DEF s
    <3>3. \A c \in out : c.to = Peer(e) /\ c.left = MaxDelay
      BY <3>2, NewDatagram
    <3>4. Exchanges(e, {d}, out) /\ node'[e] = Established(e, s)
      BY <1>1, <2>0, <3>1, <3>3
    <3>5. Accepting(e, {d}, out)
      BY <3>1, <3>2, <3>4 DEF Accepting
    <3> QED
      BY <3>4, <3>5 DEF Kinds
  <2>4. CASE ReceiveInEngine(e, d)
    <3> DEFINE y == Refreshed(e, d)
    <3>1. Become(e, y, {d}, {}) /\ node[e].phase = "engine"
      BY <2>4 DEF ReceiveInEngine
    <3>2. /\ y.phase = "engine" /\ y.session = node[e].session
          /\ \/ y.wait = node[e].wait
             \/ /\ y.wait = LivenessTimeout[e]
                /\ d.type = "DATA" /\ d.session = node[e].session
      BY <1>0, <3>1 DEF Refreshed, Node
    <3> HIDE DEF y
    <3>3. Exchanges(e, {d}, {}) /\ node'[e] = y
      BY <1>1, <2>0, <3>1
    <3>4. Continues(e, {d}, {})
      BY <3>1, <3>2, <3>3 DEF Continues
    <3> QED
      BY <3>3, <3>4 DEF Kinds
  <2>5. CASE ReceiveNowhere(e, d)
    <3>1. Become(e, node[e], {d}, {}) /\ node[e].phase \in {"sleeping", "ended"}
      BY <2>5 DEF ReceiveNowhere
    <3>2. Exchanges(e, {d}, {}) /\ node'[e] = node[e]
      BY <1>1, <2>0, <3>1
    <3>3. Misses(e, {d}, {})
      BY <3>1, <3>2 DEF Misses
    <3> QED
      BY <3>2, <3>3 DEF Kinds
  <2> QED
    BY <2>1, <2>2, <2>3, <2>4, <2>5
<1>7. ASSUME NEW out, \A d \in out : d = From(e, "DATA", node[e].session)
      PROVE  \A d \in out : d.to = Peer(e) /\ d.left = MaxDelay
  <2>1. /\ From(e, "DATA", node[e].session).to = Peer(e)
        /\ From(e, "DATA", node[e].session).left = MaxDelay
    BY <1>0, NewDatagram
  <2> QED
    BY <1>7, <2>1
<1>8. CASE Send(e)
  <2> DEFINE out == {From(e, "DATA", node[e].session)}
  <2>1. node[e].phase = "engine" /\ Become(e, node[e], {}, out)
    BY <1>8 DEF Send
  <2>2. \A d \in out : d = From(e, "DATA", node[e].session)
    OBVIOUS
  <2> HIDE DEF out
  <2>3. Exchanges(e, {}, out) /\ node'[e] = node[e]
    BY <1>1, <1>7, <2>1, <2>2 DEF Reads
  <2>4. Continues(e, {}, out)
    BY <2>1, <2>2, <2>3 DEF Continues
  <2> QED
    BY <2>3, <2>4 DEF Kinds
<1>9. CASE CheckTimers(e)
  <2> DEFINE out == Keepalives(e, node[e])
             y == IF node[e].due = 0
                  THEN [node[e] EXCEPT !.due = KeepaliveInterval[e]] ELSE node[e]
             x == IF node[e].wait = 0 THEN Sleeping(e) ELSE y
  <2>1. node[e].phase = "engine" /\ Become(e, x, {}, out)
    BY <1>9 DEF CheckTimers
  <2>2. \A d \in out : d = From(e, "DATA", node[e].session)
    BY DEF Keepalives
  <2>3. y.phase = "engine" /\ y.session = node[e].session /\ y.wait = node[e].wait
    BY <1>0, <2>1 DEF Node
  <2>4. node[e].wait = 0 => x = Sleeping(e)
    OBVIOUS
  <2>5. node[e].wait # 0 => x = y
    OBVIOUS
  <2> HIDE DEF out, x, y
  <2>6. Exchanges(e, {}, out) /\ node'[e] = x
    BY <1>1, <1>7, <2>1, <2>2 DEF Reads
  <2>7. CASE node[e].wait = 0
    <3>1. TimesOut(e, {}, out)
      BY <2>1, <2>2, <2>4, <2>6, <2>7 DEF TimesOut
    <3> QED
      BY <2>6, <3>1 DEF Kinds
  <2>8. CASE node[e].wait # 0
    <3>1. Continues(e, {}, out)
      BY <2>1, <2>2, <2>3, <2>5, <2>6, <2>8 DEF Continues
    <3> QED
      BY <2>6, <3>1 DEF Kinds
  <2> QED
    BY <2>7, <2>8
<1> QED
  BY <1>4, <1>5, <1>6, <1>8, <1>9 DEF Step

\* Both processes run, and the timers are wide.
Runs == WideTimers /\ IInv /\ Patient /\ Quiet

LEMMA InTurn ==
  ASSUME TypeOK, Quiet, NEW e \in Endpoints, NEW read, Reads(e, read)
  PROVE  /\ \A d \in read : d \in net /\ d.to = e
         /\ \A d \in read, c \in net : ~ Before(c, d)
<1>1. \A d \in read : d \in net /\ d.to = e
  BY DEF Reads
<1>2. ASSUME NEW d \in net PROVE ~ (d.left > MaxDelay)
  BY <1>2, DatagramFields DEF Quiet, ConstantsAssumption
<1> QED
  BY <1>1, <1>2 DEF Reads

LEMMA ServerExchange ==
  ASSUME TypeOK, Quiet, NEW read, NEW out, Exchanges("server", read, out)
  PROVE  /\ Client' = Client /\ calm' = calm
         /\ ToClient' = ToClient \cup out
         /\ Hellos' = Hellos \ read /\ Strays' = Strays \ read
         /\ read \subseteq Hellos \cup Strays
         /\ \A d \in read, c \in net : ~ Before(c, d)
<1>1. "server" \in Endpoints /\ Peer("server") = "client"
  BY DEF Endpoints, Peer
<1>2. /\ \A d \in read : d \in net /\ d.to = "server"
      /\ \A d \in read, c \in net : ~ Before(c, d)
  BY <1>1, InTurn DEF Exchanges
<1>3. /\ net' = (net \ read) \cup out /\ Client' = Client /\ calm' = calm
      /\ \A d \in out : d.to = "client"
  BY <1>1 DEF Exchanges, Client
<1>4. ToClient' = ToClient \cup out
  BY <1>2, <1>3 DEF ToClient
<1>5. Hellos' = Hellos \ read /\ Strays' = Strays \ read
  BY <1>2, <1>3 DEF Hellos, Strays
<1>6. read \subseteq Hellos \cup Strays
  BY <1>2 DEF Hellos, Strays
<1> QED
  BY <1>2, <1>3, <1>4, <1>5, <1>6

LEMMA ClientExchange ==
  ASSUME TypeOK, Quiet, NEW read, NEW out, Exchanges("client", read, out)
  PROVE  /\ Server' = Server /\ calm' = calm
         /\ ToClient' = ToClient \ read
         /\ Hellos' = Hellos \cup {d \in out : d.type = "HELLO"}
         /\ Strays' = Strays \cup {d \in out : d.type # "HELLO"}
         /\ read \subseteq ToClient
         /\ \A d \in read, c \in net : ~ Before(c, d)
<1>1. "client" \in Endpoints /\ Peer("client") = "server"
  BY DEF Endpoints, Peer
<1>2. /\ \A d \in read : d \in net /\ d.to = "client"
      /\ \A d \in read, c \in net : ~ Before(c, d)
  BY <1>1, InTurn DEF Exchanges
<1>3. /\ net' = (net \ read) \cup out /\ Server' = Server /\ calm' = calm
      /\ \A d \in out : d.to = "server"
  BY <1>1 DEF Exchanges, Server
<1>4. ToClient' = ToClient \ read /\ read \subseteq ToClient
  BY <1>2, <1>3 DEF ToClient
<1>5. Hellos' = Hellos \cup {d \in out : d.type = "HELLO"}
  BY <1>2, <1>3 DEF Hellos
<1>6. Strays' = Strays \cup {d \in out : d.type # "HELLO"}
  BY <1>2, <1>3 DEF Strays
<1> QED
  BY <1>2, <1>3, <1>4, <1>5, <1>6

LEMMA Shapes ==
  ASSUME NEW e \in Endpoints
  PROVE  /\ Sleeping(e).phase = "sleeping" /\ Sleeping(e).wait = ReconnectDelay[e]
         /\ \A s \in Session :
              /\ Established(e, s).phase = "engine"
              /\ Established(e, s).session = s
              /\ Established(e, s).wait = LivenessTimeout[e]
BY EstablishedNode DEF Sleeping

\* What each kind of step sends.
LEMMA ServerSends ==
  ASSUME TypeOK, NEW read, NEW out, Kinds("server", read, out)
  PROVE  /\ Server.phase # "engine" /\ Server'.phase # "engine" => out = {}
         /\ \A d \in out :
              /\ d.left = MaxDelay
              /\ \/ Server.phase = "handshake" /\ d.type = "ANSWER"
                 \/ Server.phase = "engine" /\ d.type = "DATA"
              /\ \/ Server'.phase = "engine" /\ d.session = Server'.session
                 \/ Server.phase = "engine" /\ d.session = Server.session
<1>1. "server" \in Endpoints /\ "server" # "client"
  BY DEF Endpoints
<1>2. Server.session \in Session
  BY <1>1, NodeFields DEF Server
<1>3. ASSUME NEW s \in Session, NEW type \in {"HELLO", "ANSWER", "DATA"}
      PROVE  /\ From("server", type, s).left = MaxDelay
             /\ From("server", type, s).type = type
             /\ From("server", type, s).session = s
  BY <1>1, NewDatagram
<1>4. CASE Begins("server", read, out) \/ GivesUp("server", read, out)
             \/ Misses("server", read, out) \/ Finishing("server", read, out)
  BY <1>1, <1>4 DEF Begins, GivesUp, Misses, Finishing, Opening
<1>5. CASE Accepting("server", read, out)
  BY <1>1, <1>3, <1>5, Shapes DEF Accepting, Server
<1>6. CASE Continues("server", read, out)
  BY <1>2, <1>3, <1>6 DEF Continues, Server
<1>7. CASE TimesOut("server", read, out)
  BY <1>2, <1>3, <1>7 DEF TimesOut, Server
<1> QED
  BY <1>4, <1>5, <1>6, <1>7 DEF Kinds

LEMMA ClientSends ==
  ASSUME TypeOK, TypeOK', NEW read, NEW out, Kinds("client", read, out)
  PROVE  /\ \A d \in out :
              /\ d.to = "server" /\ d.left = MaxDelay
              /\ \/ /\ Begins("client", read, out)
                    /\ d.type = "HELLO" /\ d.session = Client'.session
                 \/ /\ Client.phase = "engine"
                    /\ d.type = "DATA" /\ d.session = Client.session
         /\ Begins("client", read, out) =>
              \E d \in out : /\ d.to = "server" /\ d.left = MaxDelay
                             /\ d.type = "HELLO" /\ d.session = Client'.session
<1>1. "client" \in Endpoints /\ "server" # "client" /\ Peer("client") = "server"
  BY DEF Endpoints, Peer
<1>2. Client.session \in Session /\ Client'.session \in Session
  BY <1>1, NodeFields DEF Client, TypeOK, Node
<1>3. ASSUME NEW s \in Session, NEW type \in {"HELLO", "ANSWER", "DATA"}
      PROVE  /\ From("client", type, s).left = MaxDelay
             /\ From("client", type, s).to = "server"
             /\ From("client", type, s).type = type
             /\ From("client", type, s).session = s
  BY <1>1, NewDatagram
<1>4. ~ Accepting("client", read, out)
  BY <1>1 DEF Accepting
<1>5. CASE Begins("client", read, out)
  <2>1. out = {From("client", "HELLO", Client'.session)}
    BY <1>5 DEF Begins, Opening, Client
  <2> QED
    BY <1>2, <1>3, <1>5, <2>1
<1>6. CASE Continues("client", read, out) \/ TimesOut("client", read, out)
  BY <1>2, <1>3, <1>6 DEF Continues, TimesOut, Begins, Client
<1>7. CASE GivesUp("client", read, out) \/ Finishing("client", read, out)
             \/ Misses("client", read, out)
  BY <1>2, <1>5, <1>7 DEF GivesUp, Finishing, Misses
<1> QED
  BY <1>4, <1>5, <1>6, <1>7 DEF Kinds

(***************************************************************************)
(* An engine that times out does so soon after the last fault.             *)
(***************************************************************************)

LEMMA RunsTypes ==
  ASSUME Runs
  PROVE  TypeOK /\ NetIsFinite /\ WideTimers /\ IInv /\ Quiet
BY DEF Runs, IInv

LEMMA ServerTimesOut ==
  ASSUME Runs, ServerOrphan, Server.phase = "engine", Server.wait = 0
  PROVE  calm <= OrphansOver /\ (Connected => calm < Ls) /\ ~ Pending
<1>1. /\ calm \in Nat /\ \A d \in net : d.left \in Nat
      /\ \A d \in net : d.left <= MaxDelay
  BY RunsTypes, Sizes
<1>2. ~ Pending
  <2> SUFFICES ASSUME NEW a \in ToClient, Answering(a) PROVE FALSE
    BY DEF Pending
  <2>1. a.left \in Nat /\ Server.wait + MaxDelay - a.left >= Ls
    BY <1>1 DEF ToClient, Answering
  <2> QED
    BY <2>1, RunsTypes, Wide
<1>3. Connected => calm < Ls
  BY <1>1, RunsTypes, NotTimedOut, TheEnds, Timers DEF Server, Ls
<1>4. ~ Connected => calm <= OrphansOver
  BY <1>1, <1>2 DEF ServerOrphan, Orphan, Server
<1> QED
  BY <1>1, <1>2, <1>3, <1>4, RunsTypes, Wide

LEMMA ClientTimesOut ==
  ASSUME Runs, ClientOrphan, Client.phase = "engine", Client.wait = 0
  PROVE  calm <= OrphansOver /\ (Connected => calm < Lc)
<1>1. calm \in Nat
  BY RunsTypes, Sizes
<1>2. Connected => calm < Lc
  BY <1>1, RunsTypes, NotTimedOut, TheEnds, Timers DEF Client, Lc
<1>3. ~ Connected => calm <= OrphansOver
  BY <1>1 DEF ClientOrphan, Orphan, Client
<1> QED
  BY <1>1, <1>2, <1>3, RunsTypes, Wide

(***************************************************************************)
(* What is on its way, after a step of the server                          *)
(***************************************************************************)

LEMMA ServerSilentServer ==
  ASSUME Runs, Runs', ServerSilent, ServerOrphan, NEW read, NEW out,
         Exchanges("server", read, out), Kinds("server", read, out)
  PROVE  ServerSilent'
<1>0. /\ calm \in Nat /\ Server.wait \in Nat /\ calm' = calm
      /\ \A d \in ToClient' : d.left \in Nat /\ d.left <= MaxDelay
      /\ ToClient' = ToClient \cup out
      /\ "server" \in Endpoints
  BY RunsTypes, Sizes, SizesNext, ServerExchange DEF Runs, IInv, ToClient, Endpoints
<1>1. ASSUME NEW d \in ToClient', d \in ToClient, Server.phase # "engine"
      PROVE  /\ Server.phase = "sleeping" =>
                  \/ d.left + Rs - Server.wait <= MaxDelay
                  \/ calm + d.left <= MaxDelay
             /\ Server.phase = "handshake" => calm + d.left <= MaxDelay
             /\ calm + d.left <= OrphansOver + MaxDelay
  BY <1>1 DEF ServerSilent
<1>2. CASE Begins("server", read, out)
  <2>1. /\ Server.phase \in {"sleeping", "handshake"}
        /\ Server.phase = "sleeping" => Server.wait = 0
        /\ Server'.phase = "handshake"
    BY <1>2 DEF Begins, Server
  <2>2. out = {}
    BY <2>1, RunsTypes, ServerSends
  <2>3. ASSUME NEW d \in ToClient'
        PROVE  /\ calm' + d.left <= MaxDelay
               /\ calm' + d.left <= OrphansOver + MaxDelay
    <3>1. d \in ToClient
      BY <1>0, <2>2
    <3>2. Rs \in Nat /\ 2 * MaxDelay < Rs /\ MaxDelay \in Nat
      BY RunsTypes, Wide
    <3> QED
      BY <1>0, <1>1, <2>1, <3>1, <3>2
  <2> QED
    BY <2>1, <2>3 DEF ServerSilent
<1>3. CASE GivesUp("server", read, out)
  <2>1. Server.phase = "handshake" /\ Server'.phase = "sleeping" /\ out = {}
    BY <1>0, <1>3, Shapes DEF GivesUp, Server
  <2> QED
    BY <1>0, <1>1, <2>1 DEF ServerSilent
<1>4. CASE Misses("server", read, out)
  BY <1>0, <1>4 DEF Misses, Server, ServerSilent
<1>5. CASE Accepting("server", read, out) \/ Continues("server", read, out)
  <2>1. Server'.phase = "engine"
    BY <1>0, <1>5, Shapes DEF Accepting, Continues, Server
  <2> QED
    BY <2>1 DEF ServerSilent
<1>6. CASE TimesOut("server", read, out)
  <2>1. /\ Server.phase = "engine" /\ Server.wait = 0
        /\ Server'.phase = "sleeping" /\ Server'.wait = Rs
    BY <1>0, <1>6, Shapes DEF TimesOut, Server, Rs
  <2>2. calm <= OrphansOver
    BY <2>1, ServerTimesOut
  <2>3. OrphansOver \in Nat /\ Rs \in Nat /\ MaxDelay \in Nat
    BY RunsTypes, Wide
  <2>4. ASSUME NEW d \in ToClient'
        PROVE  /\ d.left + Rs - Server'.wait <= MaxDelay
               /\ calm' + d.left <= OrphansOver + MaxDelay
    BY <1>0, <2>1, <2>2, <2>3
  <2> QED
    BY <2>1, <2>4 DEF ServerSilent
<1>7. ~ Finishing("server", read, out)
  BY DEF Finishing
<1> QED
  BY <1>2, <1>3, <1>4, <1>5, <1>6, <1>7 DEF Kinds

LEMMA ClientSilentServer ==
  ASSUME Runs, ClientSilent, NEW read, NEW out, Exchanges("server", read, out)
  PROVE  ClientSilent'
BY RunsTypes, ServerExchange DEF ClientSilent

LEMMA HellosCurrentServer ==
  ASSUME Runs, Runs', HellosCurrent, NEW read, NEW out,
         Exchanges("server", read, out), Kinds("server", read, out)
  PROVE  HellosCurrent'
<1> SUFFICES ASSUME NEW d \in Hellos'
             PROVE  \/ Current(d)'
                    \/ Server'.phase = "engine"
                    \/ calm' + d.left <= 2 * MaxDelay
                    \/ /\ Server'.phase = "sleeping"
                       /\ d.left + Rs - Server'.wait <= 2 * MaxDelay
  BY DEF HellosCurrent
<1>1. /\ Client' = Client /\ calm' = calm /\ d \in Hellos /\ d \in net
      /\ "server" \in Endpoints
  BY RunsTypes, ServerExchange DEF Hellos, Endpoints
<1>2. d.left \in Nat /\ d.left <= MaxDelay /\ calm \in Nat
  BY <1>1, RunsTypes, Sizes
<1>3. \/ Current(d)'
      \/ Server.phase = "engine"
      \/ calm' + d.left <= 2 * MaxDelay
      \/ Server.phase = "sleeping" /\ d.left + Rs - Server.wait <= 2 * MaxDelay
  BY <1>1 DEF HellosCurrent, Current
<1>4. Rs \in Nat /\ 2 * MaxDelay < Rs /\ MaxDelay \in Nat
  BY RunsTypes, Wide
<1>5. CASE Begins("server", read, out) \/ GivesUp("server", read, out)
  <2>1. \/ Server.phase = "sleeping" /\ Server.wait = 0
        \/ Server.phase = "handshake"
    BY <1>5 DEF Begins, GivesUp, Server
  <2> QED
    BY <1>2, <1>3, <1>4, <2>1
<1>6. CASE Misses("server", read, out)
  BY <1>3, <1>6 DEF Misses, Server
<1>7. CASE Accepting("server", read, out) \/ Continues("server", read, out)
  BY <1>1, <1>7, Shapes DEF Accepting, Continues, Server
<1>8. CASE TimesOut("server", read, out)
  <2>1. Server'.phase = "sleeping" /\ Server'.wait = Rs
    BY <1>1, <1>8, Shapes DEF TimesOut, Server, Rs
  <2> QED
    BY <1>2, <1>4, <2>1
<1>9. ~ Finishing("server", read, out)
  BY DEF Finishing
<1> QED
  BY <1>5, <1>6, <1>7, <1>8, <1>9 DEF Kinds

LEMMA AnswersCurrentServer ==
  ASSUME Runs, Runs', AnswersCurrent, NEW read, NEW out,
         Exchanges("server", read, out), Kinds("server", read, out)
  PROVE  AnswersCurrent'
<1> SUFFICES ASSUME NEW d \in ToClient', d.type = "ANSWER"
             PROVE  \/ Server'.phase = "engine" /\ d.session = Server'.session
                    \/ calm' + d.left <= MaxDelay
  BY DEF AnswersCurrent
<1>1. /\ calm' = calm /\ (d \in ToClient \/ d \in out)
      /\ "server" \in Endpoints /\ TypeOK
  BY RunsTypes, ServerExchange DEF Endpoints
<1>2. CASE d \in out
  BY <1>1, <1>2, ServerSends
<1>3. CASE d \in ToClient
  <2>1. \/ Server.phase = "engine" /\ d.session = Server.session
        \/ calm' + d.left <= MaxDelay
    BY <1>1, <1>3 DEF AnswersCurrent
  <2> SUFFICES ASSUME Server.phase = "engine", d.session = Server.session
               PROVE  \/ Server'.phase = "engine" /\ d.session = Server'.session
                      \/ calm' + d.left <= MaxDelay
    BY <2>1
  <2>2. CASE Continues("server", read, out)
    BY <2>2 DEF Continues, Server
  <2>3. CASE TimesOut("server", read, out)
    <3>1. d \in net /\ d.left \in Nat /\ d.left <= MaxDelay /\ calm \in Nat
      BY <1>1, <1>3, RunsTypes, Sizes DEF ToClient
    <3>2. Within("server", MaxDelay - d.left)
      BY <3>1 DEF Runs, IInv, Timely, AnswerIsFresh, Server
    <3>3. Server.wait = 0
      BY <2>3 DEF TimesOut, Server
    <3>4. ~ (Silence("server") <= MaxDelay - d.left)
      BY <3>1, <3>3, RunsTypes, Wide DEF Silence, Server, Ls
    <3>5. calm <= MaxDelay - d.left
      BY <3>2, <3>4 DEF Within
    <3> QED
      BY <1>1, <3>1, <3>5, RunsTypes, Wide
  <2>4. ~ Misses("server", read, out)
    BY DEF Misses, Server
  <2> QED
    BY <2>2, <2>3, <2>4 DEF Kinds, Begins, GivesUp, Accepting, Finishing, Server
<1> QED
  BY <1>1, <1>2, <1>3

(***************************************************************************)
(* Engines without their peers, after a step of the server                 *)
(***************************************************************************)

LEMMA Connection ==
  Connected <=> /\ Client.phase = "engine" /\ Server.phase = "engine"
                /\ Client.session = Server.session
BY DEF Connected, Client, Server, Endpoints

LEMMA ConnectionNext ==
  Connected' <=> /\ Client'.phase = "engine" /\ Server'.phase = "engine"
                 /\ Client'.session = Server'.session
BY DEF Connected, Client, Server, Endpoints

LEMMA Waits ==
  ASSUME Runs
  PROVE  /\ Client.phase = "sleeping" => Client.wait <= Rc
         /\ Client.phase = "handshake" => Client.wait <= Hc
         /\ Client.phase = "engine" => Client.wait <= Lc
         /\ Server.phase = "sleeping" => Server.wait <= Rs
         /\ Server.phase = "handshake" => Server.wait <= Hs
         /\ Server.phase = "engine" => Server.wait <= Ls
         /\ Client.phase \in {"sleeping", "handshake", "engine"}
         /\ Server.phase \in {"sleeping", "handshake", "engine"}
<1>1. Client \in Node /\ Server \in Node
  BY RunsTypes, Sizes
<1>2. Client.phase # "ended" /\ Server.phase # "ended"
  BY TheEnds DEF Runs, Quiet, Client, Server
<1>3. /\ Client.phase \in {"sleeping", "handshake", "engine"}
      /\ Server.phase \in {"sleeping", "handshake", "engine"}
  BY <1>1, <1>2 DEF Node
<1> QED
  BY <1>3, TheEnds DEF Runs, Patient, Client, Server, Rc, Hc, Lc, Rs, Hs, Ls

LEMMA ClientOrphanServer ==
  ASSUME Runs, Runs', ClientOrphan, ServerOrphan, NEW read, NEW out,
         Exchanges("server", read, out), Kinds("server", read, out)
  PROVE  ClientOrphan'
<1> SUFFICES ASSUME Client'.phase = "engine", ~ Connected'
             PROVE  Orphan("client")'
  BY DEF ClientOrphan
<1>1. /\ Client' = Client /\ calm' = calm /\ ToClient' = ToClient \cup out
      /\ "server" \in Endpoints /\ TypeOK
  BY RunsTypes, ServerExchange DEF Endpoints
<1>2. /\ Lc \in Nat /\ Ls \in Nat /\ MaxDelay \in Nat /\ calm \in Nat
      /\ OrphansOver = Ls + MaxDelay + Lc
      /\ Client.wait \in Nat /\ Client.wait <= Lc
      /\ \A d \in ToClient' : d.left \in Nat /\ d.left <= MaxDelay
  BY <1>1, RunsTypes, Wide, Sizes, SizesNext, Waits DEF Runs, IInv, ToClient
<1>3. SUFFICES /\ calm + Client.wait <= OrphansOver
               /\ \A d \in ToClient' :
                    d.type = "DATA" /\ d.session = Client.session
                      => calm + d.left + Lc <= OrphansOver
  BY <1>1 DEF Orphan, ToClient, Client, Lc
<1>4. CASE Connected
  <2>1. Client.phase = "engine" /\ Server.phase = "engine"
        /\ Client.session = Server.session
    BY <1>4, Connection
  <2>2. ~ Continues("server", read, out)
    BY <1>1, <2>1, ConnectionNext DEF Continues, Server
  <2>3. Server.wait = 0
    BY <2>1, <2>2
    DEF Kinds, Begins, GivesUp, Finishing, Accepting, TimesOut, Misses, Server
  <2>4. calm < Ls
    BY <1>4, <2>1, <2>3, ServerTimesOut
  <2> QED
    BY <1>2, <2>4
<1>5. CASE ~ Connected
  <2>1. /\ calm + Client.wait <= OrphansOver
        /\ \A d \in ToClient :
             d.type = "DATA" /\ d.session = Client.session
               => calm + d.left + Lc <= OrphansOver
    BY <1>1, <1>5 DEF ClientOrphan, Orphan, ToClient, Client, Lc
  <2>2. ASSUME NEW d \in out, d.session = Client.session PROVE d.type # "DATA"
    BY <1>1, <1>5, <2>2, ServerSends, Connection, ConnectionNext
  <2> QED
    BY <1>1, <2>1, <2>2
<1> QED
  BY <1>4, <1>5

\* The server accepts a hello the client still waits for.
LEMMA AcceptPending ==
  ASSUME Runs, Runs', Approaching, NEW read, NEW out,
         Exchanges("server", read, out), NEW d \in Hellos, NEW s \in Session,
         ToClient = {}, Current(d), Server.phase = "handshake",
         s.hello = d.session.hello, Server' = Established("server", s),
         out = {From("server", "ANSWER", s)}
  PROVE  Pending'
<1> DEFINE a == From("server", "ANSWER", s)
<1>1. "server" \in Endpoints /\ Peer("server") = "client"
  BY DEF Endpoints, Peer
<1>2. /\ a.type = "ANSWER" /\ a.session = s /\ a.left = MaxDelay
      /\ Server'.phase = "engine" /\ Server'.session = s /\ Server'.wait = Ls
  BY <1>1, NewDatagram, EstablishedNode DEF Ls
<1>3. Client' = Client /\ calm' = calm /\ ToClient' = {a}
  BY RunsTypes, ServerExchange
<1> HIDE DEF a
<1>4. /\ MaxDelay \in Nat /\ 2 * MaxDelay < Hc /\ Hc \in Nat /\ Rc \in Nat
      /\ Rs \in Nat /\ Ls \in Nat /\ Lc \in Nat
      /\ OrphansOver = Ls + MaxDelay + Lc /\ HelloComes = Hc + Rc + MaxDelay
      /\ Deadline = Ls + MaxDelay + Lc + 2 * (Hc + Rc + MaxDelay) + Rs + MaxDelay
      /\ calm \in Nat /\ Client.wait \in Nat /\ Client.left \in Nat
      /\ \A c \in Hellos : c.left \in Nat
  BY RunsTypes, Wide, Sizes DEF Hellos
<1>5. /\ Client.phase = "handshake" /\ d.session = Client.session
      /\ Client.wait >= Hc - MaxDelay + d.left
  BY DEF Current
<1>6. MaxDelay < Client.wait
  BY <1>4, <1>5
<1>7. NextHello \in Nat
  BY <1>4 DEF NextHello
<1>8. calm + MaxDelay <= Deadline
  <2>1. HelloIsNear \/ HelloOnItsWay \/ HelloMeetsRound
    BY <1>5 DEF Approaching, RoundIsNear
  <2>2. CASE HelloIsNear
    BY <1>4, <1>7, <2>2 DEF HelloIsNear
  <2>3. CASE HelloOnItsWay
    BY <1>4, <2>3 DEF HelloOnItsWay
  <2>4. CASE HelloMeetsRound
    BY <1>4, <1>7, <2>4 DEF HelloMeetsRound
  <2> QED
    BY <2>1, <2>2, <2>3, <2>4
<1>9. Answering(a)'
  BY <1>2, <1>3, <1>4, <1>5, <1>6, <1>8 DEF Answering
<1> QED
  BY <1>2, <1>3, <1>5, <1>9 DEF Pending

LEMMA ServerOrphanServer ==
  ASSUME Runs, Runs', ServerSilent, HellosCurrent, ServerOrphan, Approaching,
         NEW read, NEW out,
         Exchanges("server", read, out), Kinds("server", read, out)
  PROVE  ServerOrphan'
<1> SUFFICES ASSUME Server'.phase = "engine", ~ Connected'
             PROVE  Pending' \/ Orphan("server")'
  BY DEF ServerOrphan
<1>1. /\ Client' = Client /\ calm' = calm /\ ToClient' = ToClient \cup out
      /\ "server" \in Endpoints /\ TypeOK /\ NetIsFinite
  BY RunsTypes, ServerExchange DEF Endpoints
<1>2. /\ Lc \in Nat /\ Ls \in Nat /\ MaxDelay \in Nat /\ calm \in Nat
      /\ OrphansOver = Ls + MaxDelay + Lc /\ 2 * MaxDelay < Lc
      /\ Server.wait \in Nat /\ Server'.wait \in Nat
      /\ \A d \in net : d.left \in Nat /\ d.left <= MaxDelay
  BY <1>1, RunsTypes, Wide, Sizes, SizesNext DEF Runs, IInv
<1>3. \A d \in net' : d.to = "server" => d \in net
  <2>1. Peer("server") = "client"
    BY DEF Peer
  <2> QED
    BY <2>1 DEF Exchanges
<1>4. CASE Continues("server", read, out)
  <2>1. /\ Server.phase = "engine" /\ Server'.session = Server.session
        /\ \/ Server'.wait = Server.wait
           \/ /\ Server'.wait = Ls
              /\ \E d \in read : d.type = "DATA" /\ d.session = Server.session
        /\ \A d \in out : d.left = MaxDelay /\ d.type = "DATA"
    <3>1. \A d \in out : d.left = MaxDelay /\ d.type = "DATA"
      BY <1>1, <1>4, ServerSends DEF Continues, Server
    <3> QED
      BY <1>4, <3>1 DEF Continues, Server, Ls
  <2>2. ~ Connected
    BY <1>1, <2>1, Connection, ConnectionNext
  <2>3. CASE Pending
    <3> PICK a \in ToClient : Answering(a)
      BY <2>3 DEF Pending
    <3>1. a.left \in Nat /\ a.left <= MaxDelay /\ a \in ToClient'
      BY <1>1, <1>2 DEF ToClient
    <3>2. Server'.wait + MaxDelay - a.left >= Ls
      BY <1>2, <2>1, <3>1 DEF Answering
    <3>3. \A d \in ToClient' : d = a \/ (d.type = "DATA" /\ a.left <= d.left)
      BY <1>1, <1>2, <2>1, <3>1 DEF Answering
    <3>4. Answering(a)'
      BY <1>1, <2>1, <3>2, <3>3 DEF Answering
    <3> QED
      BY <1>1, <2>3, <3>1, <3>4 DEF Pending
  <2>4. CASE Orphan("server")
    <3>1. /\ calm + Server.wait <= OrphansOver
          /\ \A d \in net :
               d.to = "server" /\ d.type = "DATA" /\ d.session = Server.session
                 => calm + d.left + Ls <= OrphansOver
      BY <2>4 DEF Orphan, Server, Ls
    <3>2. \A d \in read : d \in net /\ d.to = "server"
      BY <1>1, RunsTypes, InTurn DEF Exchanges
    <3>3. calm + Server'.wait <= OrphansOver
      BY <1>2, <2>1, <3>1, <3>2
    <3>4. \A d \in net' :
            d.to = "server" /\ d.type = "DATA" /\ d.session = Server'.session
              => calm' + d.left + Ls <= OrphansOver
      BY <1>1, <1>3, <2>1, <3>1
    <3> QED
      BY <1>1, <3>3, <3>4 DEF Orphan, Server, Ls
  <2> QED
    BY <2>1, <2>2, <2>3, <2>4 DEF ServerOrphan
<1>5. CASE Accepting("server", read, out)
  <2> PICK d \in net, s \in Session :
        /\ read = {d} /\ d.type = "HELLO"
        /\ s.hello = d.session.hello /\ s.answer = NewAnswer
        /\ Server' = Established("server", s)
        /\ out = {From("server", "ANSWER", s)}
    BY <1>5 DEF Accepting, Server
  <2>1. Server.phase = "handshake"
    BY <1>5 DEF Accepting, Server
  <2>2. d \in Hellos
    BY <1>1, RunsTypes, InTurn DEF Exchanges, Hellos
  <2>3. CASE ToClient = {} /\ Current(d)
    BY <2>1, <2>2, <2>3, AcceptPending
  <2>4. CASE ~ (ToClient = {} /\ Current(d))
    <3>1. calm <= 2 * MaxDelay
      <4>1. ASSUME NEW c \in ToClient PROVE calm <= 2 * MaxDelay
        <5>1. calm + c.left <= MaxDelay /\ c.left \in Nat
          BY <1>2, <2>1 DEF ServerSilent, ToClient
        <5> QED
          BY <1>2, <5>1
      <4>2. ASSUME ~ Current(d) PROVE calm <= 2 * MaxDelay
        <5>1. calm + d.left <= 2 * MaxDelay
          BY <2>1, <2>2, <4>2 DEF HellosCurrent
        <5> QED
          BY <1>2, <5>1
      <4> QED
        BY <2>4, <4>1, <4>2
    <3>2. Server'.session = s /\ Server'.wait = Ls
      BY <1>1, EstablishedNode DEF Ls
    <3>3. ASSUME NEW c \in net', c.to = "server" PROVE c.session # s
      <4>1. c \in net
        BY <1>3, <3>3
      <4> QED
        BY <1>1, <4>1, NewNumbers, DatagramFields
    <3>4. calm' + Server'.wait <= OrphansOver
      BY <1>1, <1>2, <3>1, <3>2
    <3> QED
      BY <3>2, <3>3, <3>4 DEF Orphan, Server
  <2> QED
    BY <2>3, <2>4
<1>6. CASE Begins("server", read, out) \/ GivesUp("server", read, out)
             \/ TimesOut("server", read, out) \/ Misses("server", read, out)
  <2>1. Server'.phase # "engine"
    BY <1>1, <1>6, Shapes DEF Begins, GivesUp, TimesOut, Misses, Server
  <2> QED
    BY <2>1
<1> QED
  BY <1>4, <1>5, <1>6 DEF Kinds, Finishing

(***************************************************************************)
(* No engine, after a step of the server                                   *)
(***************************************************************************)

LEMMA Products ==
  /\ \A n, h \in Nat : n * h \in Nat
  /\ \A n, h \in Nat : n > 0 => h + (n - 1) * h = n * h
<1>1. ASSUME NEW n \in Nat, NEW h \in Nat PROVE n * h \in Nat
  OBVIOUS
<1>2. ASSUME NEW n \in Nat, NEW h \in Nat, n > 0 PROVE h + (n - 1) * h = n * h
  OBVIOUS
<1> QED
  BY <1>1, <1>2

\* A situation stays as long as what it speaks of does.
LEMMA HelloIsNearSame ==
  ASSUME HelloIsNear, Client' = Client, calm' = calm
  PROVE  HelloIsNear'
BY DEF HelloIsNear, NextHello

LEMMA HelloOnItsWaySame ==
  ASSUME HelloOnItsWay, Client' = Client, calm' = calm, Strays' \subseteq Strays,
         \A d \in Hellos : Current(d) => d \in Hellos'
  PROVE  HelloOnItsWay'
BY DEF HelloOnItsWay, Current

LEMMA HelloMeetsRoundSame ==
  ASSUME HelloMeetsRound, Client' = Client, calm' = calm, Strays' \subseteq Strays,
         Hellos' = Hellos, Server'.phase = "handshake", RoundLeft' = RoundLeft
  PROVE  HelloMeetsRound'
<1>1. \A d : Current(d) <=> Current(d)'
  BY DEF Current
<1>2. NextHello' = NextHello
  BY DEF NextHello
<1>3. Strays' = {}
  BY DEF HelloMeetsRound
<1>4. CASE NextHello + MaxDelay < RoundLeft /\ calm + NextHello + 2 * MaxDelay <= Deadline
  BY <1>2, <1>3, <1>4 DEF HelloMeetsRound
<1>5. CASE \E d \in Hellos :
             /\ Current(d)
             /\ d.left < RoundLeft
             /\ calm + d.left + MaxDelay <= Deadline
  <2> PICK d \in Hellos :
        /\ Current(d)
        /\ d.left < RoundLeft
        /\ calm + d.left + MaxDelay <= Deadline
    BY <1>5
  <2> QED
    BY <1>1, <1>3 DEF HelloMeetsRound
<1> QED
  BY <1>4, <1>5 DEF HelloMeetsRound

\* The server begins its next round, and the client's next hello comes in it.
LEMMA RoundMeetsHello ==
  ASSUME Runs, RoundIsNear, Client.phase # "engine", Server.wait = 0,
         TypeOK', Client' = Client, calm' = calm, Strays' \subseteq Strays,
         Server'.phase = "handshake", Server'.wait = Hs, Server'.left = Attempts - 1
  PROVE  HelloMeetsRound'
<1>1. /\ MaxDelay \in Nat /\ Hc \in Nat /\ Rc \in Nat /\ Hs \in Nat /\ Rs \in Nat
      /\ Ls \in Nat /\ Lc \in Nat /\ Attempts \in Nat \ {0}
      /\ HelloComes = Hc + Rc + MaxDelay /\ HelloComes < Attempts * Hs
      /\ OrphansOver = Ls + MaxDelay + Lc
      /\ Deadline = Ls + MaxDelay + Lc + 2 * (Hc + Rc + MaxDelay) + Rs + MaxDelay
      /\ calm \in Nat /\ Client.wait \in Nat
  BY RunsTypes, Wide, Sizes
<1>2. NextHello \in Nat /\ NextHello <= Hc + Rc
  BY <1>1, Waits DEF NextHello
<1>3. RoundLeft' = Attempts * Hs
  BY <1>1, Products DEF RoundLeft
<1>4. NextHello' = NextHello /\ Strays' = {}
  BY DEF NextHello, RoundIsNear
<1>5. NextHello + MaxDelay < RoundLeft'
  <2> DEFINE m == Attempts * Hs
  <2>1. m \in Nat
    BY <1>1, Products
  <2>2. HelloComes < m /\ RoundLeft' = m
    BY <1>1, <1>3
  <2> HIDE DEF m
  <2> QED
    BY <1>1, <1>2, <2>1, <2>2
<1>6. calm + NextHello + 2 * MaxDelay <= Deadline
  <2>1. calm <= OrphansOver + HelloComes + Rs
    BY <1>1 DEF RoundIsNear
  <2> QED
    BY <1>1, <1>2, <2>1
<1> QED
  BY <1>4, <1>5, <1>6 DEF HelloMeetsRound

\* A hello finds the server between two rounds: nothing else is on its way to it.
LEMMA HelloMissesRound ==
  ASSUME Runs, HelloOnItsWay, Server.phase = "sleeping", Server' = Server,
         NEW read, NEW out, Exchanges("server", read, out), out = {}
  PROVE  HelloOnItsWay' \/ RoundIsNear'
<1>1. /\ Client' = Client /\ calm' = calm
      /\ Hellos' = Hellos \ read /\ Strays' = Strays \ read
      /\ \A d \in read, c \in net : ~ Before(c, d)
  BY RunsTypes, ServerExchange
<1> PICK d \in Hellos :
      /\ Current(d)
      /\ calm + d.left <= OrphansOver + HelloComes
      /\ \A c \in Strays : c.left < d.left
  BY DEF HelloOnItsWay
<1>2. CASE d \notin read
  BY <1>1, <1>2 DEF HelloOnItsWay, Current
<1>3. CASE d \in read
  <2>1. Strays = {}
    <3> SUFFICES ASSUME NEW c \in Strays PROVE FALSE
      OBVIOUS
    <3>1. c.left < d.left /\ c \in net /\ c.to = "server" /\ d.to = "server"
      BY DEF Strays, Hellos
    <3> QED
      BY <1>1, <1>3, <3>1 DEF Before
  <2>2. calm + Server.wait <= OrphansOver + HelloComes + Rs
    <3>1. /\ calm \in Nat /\ d.left \in Nat /\ Server.wait \in Nat /\ Rs \in Nat
          /\ OrphansOver + HelloComes \in Nat
      BY RunsTypes, Wide, Sizes DEF Hellos
    <3> QED
      BY <3>1, Waits
  <2> QED
    BY <1>1, <2>1, <2>2 DEF RoundIsNear
<1> QED
  BY <1>2, <1>3

LEMMA ApproachingServer ==
  ASSUME Runs, Runs', ServerOrphan, Approaching, NEW read, NEW out,
         Exchanges("server", read, out), Kinds("server", read, out)
  PROVE  Approaching'
<1> SUFFICES ASSUME Client'.phase # "engine", Server'.phase # "engine"
             PROVE  \/ HelloIsNear' \/ HelloOnItsWay'
                    \/ RoundIsNear' \/ HelloMeetsRound'
  BY DEF Approaching
<1>1. /\ Client' = Client /\ calm' = calm
      /\ Hellos' = Hellos \ read /\ Strays' = Strays \ read
      /\ read \subseteq Hellos \cup Strays
      /\ "server" \in Endpoints /\ TypeOK' /\ TypeOK
  BY RunsTypes, ServerExchange DEF Endpoints, Runs, IInv
<1>2. HelloIsNear => HelloIsNear'
  BY <1>1, HelloIsNearSame
<1>3. /\ Hs \in Nat /\ Server.wait \in Nat /\ Server.left \in Nat /\ MaxDelay \in Nat
      /\ calm \in Nat /\ Client.wait \in Nat
  BY RunsTypes, Wide, Sizes
<1>4. CASE Begins("server", read, out) /\ Server.phase = "sleeping"
  <2>1. /\ Server.wait = 0 /\ read = {} /\ Server'.left = Attempts - 1
        /\ Server'.phase = "handshake" /\ Server'.wait = Hs
    BY <1>4 DEF Begins, Server, Hs
  <2>2. Hellos' = Hellos /\ Strays' = Strays
    BY <1>1, <2>1
  <2>3. HelloOnItsWay => HelloOnItsWay'
    BY <1>1, <2>2, HelloOnItsWaySame
  <2>4. RoundIsNear => HelloMeetsRound'
    BY <1>1, <2>1, <2>2, RoundMeetsHello
  <2> QED
    BY <1>1, <1>2, <1>4, <2>3, <2>4 DEF Approaching, HelloMeetsRound
<1>5. CASE Begins("server", read, out) /\ Server.phase # "sleeping"
  <2>1. /\ Server.phase = "handshake" /\ Server.left > 0
        /\ read = {} => Server.wait = 0
        /\ Server'.left = Server.left - 1
        /\ Server'.phase = "handshake" /\ Server'.wait = Hs
        /\ \A d \in read : d.type # "HELLO"
    BY <1>5 DEF Begins, Server, Hs, Usable
  <2>2. \A d \in read : d \in Strays
    BY <1>1, <2>1 DEF Hellos
  <2>3. Hellos' = Hellos /\ Strays' \subseteq Strays
    BY <1>1, <2>1 DEF Hellos
  <2>4. HelloOnItsWay => HelloOnItsWay'
    BY <1>1, <2>3, HelloOnItsWaySame
  <2>5. ASSUME HelloMeetsRound PROVE HelloMeetsRound'
    <3>1. Server.wait = 0
      BY <2>1, <2>2, <2>5 DEF HelloMeetsRound
    <3>2. RoundLeft = Server.left * Hs
      BY <1>3, <3>1, Products DEF RoundLeft
    <3>3. RoundLeft' = Hs + (Server.left - 1) * Hs
      BY <2>1 DEF RoundLeft
    <3>4. RoundLeft' = RoundLeft
      BY <1>3, <2>1, <3>2, <3>3, Products
    <3> QED
      BY <1>1, <2>1, <2>3, <2>5, <3>4, HelloMeetsRoundSame
  <2> QED
    BY <1>1, <1>2, <2>1, <2>4, <2>5 DEF Approaching, RoundIsNear
<1>6. CASE GivesUp("server", read, out)
  <2>1. /\ Server.phase = "handshake" /\ Server.left = 0
        /\ read = {} => Server.wait = 0
        /\ \A d \in read : d.type # "HELLO"
    BY <1>6 DEF GivesUp, Server, Usable
  <2>2. \A d \in read : d \in Strays
    BY <1>1, <2>1 DEF Hellos
  <2>3. Hellos' = Hellos /\ Strays' \subseteq Strays
    BY <1>1, <2>1 DEF Hellos
  <2>4. HelloOnItsWay => HelloOnItsWay'
    BY <1>1, <2>3, HelloOnItsWaySame
  <2>5. ASSUME HelloMeetsRound PROVE FALSE
    <3>1. Server.wait = 0
      BY <2>1, <2>2, <2>5 DEF HelloMeetsRound
    <3>2. RoundLeft = 0
      BY <1>3, <2>1, <3>1 DEF RoundLeft
    <3>3. NextHello \in Nat
      BY RunsTypes, Wide, <1>3 DEF NextHello
    <3>4. \A d \in Hellos : d.left \in Nat
      BY RunsTypes, Sizes DEF Hellos
    <3> QED
      BY <1>3, <2>5, <3>2, <3>3, <3>4 DEF HelloMeetsRound
  <2> QED
    BY <1>1, <1>2, <2>1, <2>4, <2>5 DEF Approaching, RoundIsNear
<1>7. CASE Misses("server", read, out)
  <2>1. Server' = Server /\ out = {} /\ Server.phase = "sleeping"
    BY <1>7, Waits DEF Misses, Server
  <2>2. HelloOnItsWay => HelloOnItsWay' \/ RoundIsNear'
    BY <2>1, HelloMissesRound
  <2>3. RoundIsNear => RoundIsNear'
    BY <1>1, <2>1 DEF RoundIsNear
  <2> QED
    BY <1>1, <1>2, <2>1, <2>2, <2>3 DEF Approaching, HelloMeetsRound
<1>8. CASE TimesOut("server", read, out)
  <2>1. Server.phase = "engine" /\ Server.wait = 0
    BY <1>8 DEF TimesOut, Server
  <2>2. calm <= OrphansOver
    BY <2>1, ServerTimesOut
  <2>3. NextHello \in Nat /\ NextHello <= Hc + Rc /\ Hc \in Nat /\ Rc \in Nat
        /\ OrphansOver \in Nat
    BY <1>1, <1>3, RunsTypes, Wide, Waits DEF NextHello, OrphansOver
  <2>4. HelloIsNear
    BY <1>3, <2>2, <2>3 DEF HelloIsNear
  <2> QED
    BY <1>2, <2>4
<1>9. CASE Accepting("server", read, out) \/ Continues("server", read, out)
  BY <1>1, <1>9, Shapes DEF Accepting, Continues, Server
<1> QED
  BY <1>4, <1>5, <1>6, <1>7, <1>8, <1>9 DEF Kinds, Finishing

(***************************************************************************)
(* The same after a step of the client                                     *)
(***************************************************************************)

LEMMA ServerSilentClient ==
  ASSUME Runs, ServerSilent, NEW read, NEW out, Exchanges("client", read, out)
  PROVE  ServerSilent'
BY RunsTypes, ClientExchange DEF ServerSilent

LEMMA AnswersCurrentClient ==
  ASSUME Runs, AnswersCurrent, NEW read, NEW out, Exchanges("client", read, out)
  PROVE  AnswersCurrent'
BY RunsTypes, ClientExchange DEF AnswersCurrent

LEMMA ClientSilentClient ==
  ASSUME Runs, Runs', ClientSilent, NEW read, NEW out,
         Exchanges("client", read, out), Kinds("client", read, out)
  PROVE  ClientSilent'
<1> SUFFICES ASSUME NEW d \in Strays'
             PROVE  /\ Client'.phase = "sleeping" =>
                         \/ d.left + Rc - Client'.wait <= MaxDelay
                         \/ calm' + d.left <= MaxDelay
                    /\ Client'.phase = "handshake" =>
                         d.left < MaxDelay \/ calm' + d.left <= MaxDelay
  BY DEF ClientSilent
<1>1. /\ calm' = calm /\ (d \in Strays \/ d \in out)
      /\ "client" \in Endpoints /\ TypeOK /\ TypeOK'
  BY RunsTypes, ClientExchange DEF Endpoints, Runs, IInv
<1>2. /\ d.left \in Nat /\ d.left <= MaxDelay /\ calm \in Nat
      /\ MaxDelay \in Nat /\ Rc \in Nat \ {0}
  BY <1>1, RunsTypes, Wide, Sizes, SizesNext DEF Strays, Runs
<1>3. d \in Strays =>
        /\ Client.phase = "sleeping" =>
             \/ d.left + Rc - Client.wait <= MaxDelay
             \/ calm + d.left <= MaxDelay
        /\ Client.phase = "handshake" =>
             d.left < MaxDelay \/ calm + d.left <= MaxDelay
  BY DEF ClientSilent
<1>4. CASE Begins("client", read, out)
  <2>1. /\ Client'.phase = "handshake"
        /\ \/ Client.phase = "handshake"
           \/ Client.phase = "sleeping" /\ Client.wait = 0
    BY <1>4 DEF Begins, Client
  <2>2. Client.phase # "engine"
    BY <2>1
  <2>3. d \in Strays
    <3>1. \A c \in out : c.type = "HELLO"
      BY <1>1, <2>2, ClientSends
    <3>2. d.type # "HELLO"
      BY DEF Strays
    <3> QED
      BY <1>1, <3>1, <3>2
  <2> QED
    BY <1>1, <1>2, <1>3, <2>1, <2>3
<1>5. CASE GivesUp("client", read, out) \/ TimesOut("client", read, out)
  <2>1. Client'.phase = "sleeping" /\ Client'.wait = Rc
    BY <1>1, <1>5, Shapes DEF GivesUp, TimesOut, Client, Rc
  <2> QED
    BY <1>2, <2>1
<1>6. CASE Finishing("client", read, out) \/ Continues("client", read, out)
  <2>1. Client'.phase = "engine"
    BY <1>1, <1>6, DatagramFields, Shapes DEF Finishing, Continues, Client
  <2> QED
    BY <2>1
<1>7. CASE Misses("client", read, out)
  <2>1. Client' = Client /\ out = {}
    BY <1>7 DEF Misses, Client
  <2> QED
    BY <1>1, <1>3, <2>1
<1>8. ~ Accepting("client", read, out)
  BY DEF Accepting
<1> QED
  BY <1>4, <1>5, <1>6, <1>7, <1>8 DEF Kinds

\* A client in its handshake that has not waited for its timeout keeps its hello.
LEMMA StaysCurrent ==
  ASSUME Runs, NEW d \in Hellos, Current(d),
         NEW read, NEW out, Begins("client", read, out)
  PROVE  Current(d)'
<1>1. /\ Client.phase = "handshake" /\ d.session = Client.session
      /\ Client.wait >= Hc - MaxDelay + d.left
  BY DEF Current
<1>2. /\ Hc \in Nat /\ MaxDelay \in Nat /\ 2 * MaxDelay < Hc
      /\ d.left \in Nat /\ d.left <= MaxDelay
  BY RunsTypes, Wide, Sizes DEF Hellos
<1>3. /\ Client'.phase = "handshake" /\ Client'.wait = Hc
      /\ Client'.session = Client.session
  BY <1>1 DEF Begins, Client, Hc
<1> QED
  BY <1>1, <1>2, <1>3 DEF Current

\* It gives up, or has its answer, because of a datagram.
LEMMA CurrentReads ==
  ASSUME Runs, NEW d \in Hellos, Current(d), NEW read, NEW out,
         Exchanges("client", read, out),
         GivesUp("client", read, out) \/ Finishing("client", read, out)
  PROVE  \E c \in ToClient : c.left \in Nat /\ c.left <= MaxDelay
<1>1. read # {}
  <2>1. Client.wait # 0
    <3>1. /\ Hc \in Nat /\ MaxDelay \in Nat /\ 2 * MaxDelay < Hc
          /\ d.left \in Nat /\ Client.wait >= Hc - MaxDelay + d.left
      BY RunsTypes, Wide, Sizes DEF Hellos, Current
    <3> QED
      BY <3>1
  <2> QED
    BY <2>1 DEF GivesUp, Finishing, Client
<1>2. read \subseteq ToClient
  BY RunsTypes, ClientExchange
<1> QED
  BY <1>1, <1>2, RunsTypes, Sizes DEF ToClient

LEMMA HellosCurrentClient ==
  ASSUME Runs, Runs', ServerSilent, HellosCurrent, NEW read, NEW out,
         Exchanges("client", read, out), Kinds("client", read, out)
  PROVE  HellosCurrent'
<1> SUFFICES ASSUME NEW d \in Hellos'
             PROVE  \/ Current(d)'
                    \/ Server'.phase = "engine"
                    \/ calm' + d.left <= 2 * MaxDelay
                    \/ /\ Server'.phase = "sleeping"
                       /\ d.left + Rs - Server'.wait <= 2 * MaxDelay
  BY DEF HellosCurrent
<1>1. /\ Server' = Server /\ calm' = calm
      /\ d \in Hellos \/ (d \in out /\ d.type = "HELLO")
      /\ TypeOK /\ TypeOK'
  BY RunsTypes, ClientExchange DEF Runs, IInv
<1>2. /\ d.left \in Nat /\ d.left <= MaxDelay /\ calm \in Nat /\ Server.wait \in Nat
      /\ MaxDelay \in Nat /\ Rs \in Nat /\ Hc \in Nat
  BY <1>1, RunsTypes, Wide, Sizes, SizesNext DEF Hellos, Runs
<1>3. CASE d \notin Hellos
  <2>1. d \in out /\ d.type = "HELLO"
    BY <1>1, <1>3
  <2>2. Begins("client", read, out) /\ d.session = Client'.session /\ d.left = MaxDelay
    BY <1>1, <2>1, ClientSends
  <2>3. Client'.phase = "handshake" /\ Client'.wait = Hc
    BY <2>2 DEF Begins, Client, Hc
  <2> QED
    BY <1>2, <2>2, <2>3 DEF Current
<1>4. CASE d \in Hellos /\ ~ Current(d)
  BY <1>1, <1>4 DEF HellosCurrent
<1>5. CASE d \in Hellos /\ Current(d)
  <2>1. CASE Begins("client", read, out)
    BY <1>5, <2>1, StaysCurrent
  <2>2. CASE GivesUp("client", read, out) \/ Finishing("client", read, out)
    <3> PICK c \in ToClient : c.left \in Nat /\ c.left <= MaxDelay
      BY <1>5, <2>2, CurrentReads
    <3>1. Server.phase \in {"sleeping", "handshake", "engine"}
      BY Waits
    <3>2. /\ Server.phase = "sleeping" =>
               \/ c.left + Rs - Server.wait <= MaxDelay
               \/ calm + c.left <= MaxDelay
          /\ Server.phase = "handshake" => calm + c.left <= MaxDelay
      BY DEF ServerSilent
    <3> QED
      BY <1>1, <1>2, <3>1, <3>2
  <2>3. Client.phase = "handshake"
    BY <1>5 DEF Current
  <2> QED
    BY <2>1, <2>2, <2>3 DEF Kinds, Accepting, Continues, TimesOut, Misses, Client
<1> QED
  BY <1>3, <1>4, <1>5

LEMMA ClientOrphanClient ==
  ASSUME Runs, Runs', AnswersCurrent, ClientOrphan, NEW read, NEW out,
         Exchanges("client", read, out), Kinds("client", read, out)
  PROVE  ClientOrphan'
<1> SUFFICES ASSUME Client'.phase = "engine", ~ Connected'
             PROVE  Orphan("client")'
  BY DEF ClientOrphan
<1>1. /\ Server' = Server /\ calm' = calm /\ ToClient' = ToClient \ read
      /\ read \subseteq ToClient
      /\ "client" \in Endpoints /\ TypeOK
  BY RunsTypes, ClientExchange DEF Endpoints
<1>2. /\ Lc \in Nat /\ Ls \in Nat /\ MaxDelay \in Nat /\ calm \in Nat
      /\ OrphansOver = Ls + MaxDelay + Lc /\ 2 * MaxDelay < Ls
      /\ Client.wait \in Nat /\ Client'.wait \in Nat
      /\ \A d \in ToClient : d.left \in Nat /\ d.left <= MaxDelay
  BY <1>1, RunsTypes, Wide, Sizes, SizesNext DEF Runs, IInv, ToClient
<1>3. SUFFICES /\ calm + Client'.wait <= OrphansOver
               /\ \A d \in ToClient' :
                    d.type = "DATA" /\ d.session = Client'.session
                      => calm + d.left + Lc <= OrphansOver
  BY <1>1 DEF Orphan, ToClient, Client, Lc
<1>4. CASE Continues("client", read, out)
  <2>1. /\ Client.phase = "engine" /\ Client'.session = Client.session
        /\ \/ Client'.wait = Client.wait
           \/ /\ Client'.wait = Lc
              /\ \E d \in read : d.type = "DATA" /\ d.session = Client.session
    BY <1>4 DEF Continues, Client, Lc
  <2>2. ~ Connected
    BY <1>1, <2>1, Connection, ConnectionNext
  <2>3. /\ calm + Client.wait <= OrphansOver
        /\ \A d \in ToClient :
             d.type = "DATA" /\ d.session = Client.session
               => calm + d.left + Lc <= OrphansOver
    BY <1>1, <2>1, <2>2 DEF ClientOrphan, Orphan, ToClient, Client, Lc
  <2>4. calm + Client'.wait <= OrphansOver
    BY <1>1, <1>2, <2>1, <2>3
  <2> QED
    BY <1>1, <2>1, <2>3, <2>4
<1>5. CASE Finishing("client", read, out)
  <2> PICK a \in net :
        /\ read = {a} /\ Answers(a, Client.session)
        /\ Client' = Established("client", a.session)
    BY <1>5 DEF Finishing, Client
  <2>1. a \in ToClient /\ a.type = "ANSWER"
    BY <1>1 DEF Answers
  <2>2. Client'.session = a.session /\ Client'.wait = Lc
    BY <1>1, DatagramFields, Shapes DEF Lc
  <2>3. ~ (Server.phase = "engine" /\ a.session = Server.session)
    BY <1>1, <2>2, ConnectionNext
  <2>4. calm + a.left <= MaxDelay
    BY <2>1, <2>3 DEF AnswersCurrent
  <2>5. calm <= MaxDelay
    BY <1>2, <2>1, <2>4
  <2> QED
    BY <1>1, <1>2, <2>2, <2>5
<1>6. CASE Begins("client", read, out) \/ GivesUp("client", read, out)
             \/ TimesOut("client", read, out) \/ Misses("client", read, out)
  <2>1. Client'.phase # "engine"
    BY <1>1, <1>6, Shapes DEF Begins, GivesUp, TimesOut, Misses, Client
  <2> QED
    BY <2>1
<1> QED
  BY <1>4, <1>5, <1>6 DEF Kinds, Accepting

\* The next datagram the client reads is the answer it waits for.
LEMMA PendingFinishes ==
  ASSUME Runs, Pending, NEW read, NEW out,
         Exchanges("client", read, out), Kinds("client", read, out)
  PROVE  Connected'
<1> PICK a \in ToClient : Answering(a)
  BY DEF Pending
<1>1. /\ Server' = Server /\ Server.phase = "engine" /\ Client.phase = "handshake"
      /\ read \subseteq ToClient
      /\ \A d \in read, c \in net : ~ Before(c, d)
      /\ "client" \in Endpoints /\ TypeOK
  BY RunsTypes, ClientExchange DEF Endpoints, Pending
<1>2. Client.wait # 0
  BY RunsTypes, Sizes DEF Answering, ToClient
<1>3. Answers(a, Client.session)
  BY DEF Answers, Answering
<1>4. ASSUME NEW d \in read PROVE d = a
  <2>1. d \in ToClient /\ ~ Before(a, d) /\ a.to = "client" /\ d.to = "client"
    BY <1>1 DEF ToClient
  <2>2. d = a \/ (d.type = "DATA" /\ a.left <= d.left)
    BY <2>1 DEF Answering
  <2>3. a.type # "DATA" /\ a.left \in Nat /\ d.left \in Nat
    BY <2>1, RunsTypes, Sizes DEF Answering, ToClient
  <2> QED
    BY <2>1, <2>2, <2>3 DEF Before
<1>5. ~ Begins("client", read, out) /\ ~ GivesUp("client", read, out)
  <2> SUFFICES ASSUME read = {} => Client.wait = 0,
                      \A d \in read : ~ Usable("client", d)
               PROVE  FALSE
    BY <1>1 DEF Begins, GivesUp, Client
  <2>1. PICK d \in read : ~ Usable("client", d)
    BY <1>2
  <2> QED
    BY <1>3, <1>4, <2>1 DEF Usable, Client
<1>6. Finishing("client", read, out)
  BY <1>1, <1>5 DEF Kinds, Accepting, Continues, TimesOut, Misses, Client
<1>7. Client' = Established("client", a.session)
  BY <1>4, <1>6 DEF Finishing, Client
<1>8. Client'.phase = "engine" /\ Client'.session = Server.session
  <2>1. a.session = Server.session /\ a.session \in Session
    BY <1>1, DatagramFields DEF Answering, ToClient
  <2> QED
    BY <1>1, <1>7, <2>1, Shapes
<1> QED
  BY <1>1, <1>8, ConnectionNext

LEMMA ServerOrphanClient ==
  ASSUME Runs, Runs', ClientOrphan, ServerOrphan, NEW read, NEW out,
         Exchanges("client", read, out), Kinds("client", read, out)
  PROVE  ServerOrphan'
<1> SUFFICES ASSUME Server'.phase = "engine", ~ Connected'
             PROVE  Orphan("server")'
  BY DEF ServerOrphan
<1>1. /\ Server' = Server /\ calm' = calm /\ Server.phase = "engine"
      /\ "client" \in Endpoints /\ TypeOK /\ TypeOK'
  BY RunsTypes, ClientExchange DEF Endpoints, Runs, IInv
<1>2. /\ Lc \in Nat /\ Ls \in Nat /\ MaxDelay \in Nat /\ calm \in Nat
      /\ OrphansOver = Ls + MaxDelay + Lc
      /\ Server.wait \in Nat /\ Server.wait <= Ls
      /\ \A d \in net' : d.left \in Nat /\ d.left <= MaxDelay
  BY <1>1, RunsTypes, Wide, Sizes, SizesNext, Waits DEF Runs
<1>3. SUFFICES /\ calm + Server.wait <= OrphansOver
               /\ \A d \in net' :
                    d.to = "server" /\ d.type = "DATA" /\ d.session = Server.session
                      => calm + d.left + Ls <= OrphansOver
  BY <1>1 DEF Orphan, Server, Ls
<1>4. CASE Connected
  <2>1. Client.phase = "engine" /\ Client.session = Server.session
    BY <1>4, Connection
  <2>2. ~ Continues("client", read, out)
    BY <1>1, <2>1, ConnectionNext DEF Continues, Client
  <2>3. Client.wait = 0
    BY <2>1, <2>2
    DEF Kinds, Begins, GivesUp, Finishing, Accepting, TimesOut, Misses, Client
  <2>4. calm < Lc
    BY <1>4, <2>1, <2>3, ClientTimesOut
  <2> QED
    BY <1>2, <2>4
<1>5. CASE ~ Connected
  <2>1. Orphan("server")
    BY <1>1, <1>5, PendingFinishes DEF ServerOrphan
  <2>2. /\ calm + Server.wait <= OrphansOver
        /\ \A d \in net :
             d.to = "server" /\ d.type = "DATA" /\ d.session = Server.session
               => calm + d.left + Ls <= OrphansOver
    BY <2>1 DEF Orphan, Server, Ls
  <2>3. ASSUME NEW d \in out, d.type = "DATA", d.session = Server.session
        PROVE  FALSE
    <3>1. Client.phase = "engine" /\ d.session = Client.session
      BY <1>1, <2>3, ClientSends
    <3> QED
      BY <1>1, <1>5, <2>3, <3>1, Connection
  <2>4. \A d \in net' : d \in net \/ d \in out
    BY DEF Exchanges
  <2> QED
    BY <2>2, <2>3, <2>4
<1> QED
  BY <1>4, <1>5

(***************************************************************************)
(* No engine, after a step of the client                                   *)
(***************************************************************************)

\* The client sends a hello.
LEMMA ApproachingHello ==
  ASSUME Runs, Runs', ClientSilent', Approaching, NEW read, NEW out,
         Exchanges("client", read, out), Begins("client", read, out),
         Kinds("client", read, out), Server.phase # "engine"
  PROVE  Approaching'
<1>1. /\ Server' = Server /\ calm' = calm
      /\ Hellos' = Hellos \cup {d \in out : d.type = "HELLO"}
      /\ Strays' = Strays \cup {d \in out : d.type # "HELLO"}
      /\ TypeOK /\ TypeOK'
  BY RunsTypes, ClientExchange DEF Runs, IInv
<1>2. /\ Client.phase \in {"sleeping", "handshake"}
      /\ Client'.phase = "handshake" /\ Client'.wait = Hc
  BY DEF Begins, Client, Hc
<1>3. Strays' = Strays
  <2>1. \A d \in out : d.type = "HELLO"
    BY <1>1, <1>2, ClientSends
  <2> QED
    BY <1>1, <2>1
<1>4. /\ MaxDelay \in Nat /\ Hc \in Nat /\ Rc \in Nat /\ Rs \in Nat
      /\ Ls \in Nat /\ Lc \in Nat /\ HelloComes = Hc + Rc + MaxDelay
      /\ OrphansOver = Ls + MaxDelay + Lc
      /\ Deadline = Ls + MaxDelay + Lc + 2 * (Hc + Rc + MaxDelay) + Rs + MaxDelay
      /\ calm \in Nat /\ Client.wait \in Nat
      /\ \A d \in Strays : d.left \in Nat
  BY <1>1, RunsTypes, Wide, Sizes DEF Strays
<1> PICK h \in out :
      /\ h.to = "server" /\ h.left = MaxDelay
      /\ h.type = "HELLO" /\ h.session = Client'.session
  BY <1>1, ClientSends
<1>5. h \in Hellos' /\ Current(h)'
  BY <1>1, <1>2, <1>4 DEF Current
<1>6. NextHello \in Nat /\ NextHello' \in Nat /\ NextHello' <= Hc + Rc
  BY <1>2, <1>4 DEF NextHello
<1>7. HelloIsNear => HelloIsNear' \/ HelloOnItsWay'
  <2> SUFFICES ASSUME calm + NextHello <= OrphansOver + Hc + Rc
               PROVE  HelloIsNear' \/ HelloOnItsWay'
    BY DEF HelloIsNear
  <2>1. CASE calm <= OrphansOver
    <3> DEFINE n == NextHello'
    <3>2. n \in Nat /\ n <= Hc + Rc /\ OrphansOver \in Nat
      BY <1>4, <1>6
    <3> HIDE DEF n
    <3>3. calm + n <= OrphansOver + Hc + Rc
      BY <1>4, <2>1, <3>2
    <3>1. calm' + NextHello' <= OrphansOver + Hc + Rc
      BY <1>1, <3>3 DEF n
    <3> QED
      BY <3>1 DEF HelloIsNear
  <2>2. CASE calm > OrphansOver
    <3>1. ASSUME NEW c \in Strays' PROVE c.left < h.left
      <4>1. c.left < MaxDelay \/ calm + c.left <= MaxDelay
        BY <1>1, <1>2 DEF ClientSilent
      <4> QED
        BY <1>3, <1>4, <2>2, <4>1
    <3>2. calm + h.left <= OrphansOver + HelloComes
      BY <1>4, <1>6
    <3> QED
      BY <1>1, <1>5, <3>1, <3>2 DEF HelloOnItsWay
  <2> QED
    BY <1>4, <2>1, <2>2
<1>8. HelloOnItsWay => HelloOnItsWay'
  <2> SUFFICES ASSUME NEW d \in Hellos, Current(d),
                      calm + d.left <= OrphansOver + HelloComes,
                      \A c \in Strays : c.left < d.left
               PROVE  HelloOnItsWay'
    BY DEF HelloOnItsWay
  <2>1. d \in Hellos' /\ Current(d)'
    BY <1>1, StaysCurrent
  <2> QED
    BY <1>1, <1>3, <2>1 DEF HelloOnItsWay
<1>9. RoundIsNear => RoundIsNear'
  BY <1>1, <1>3 DEF RoundIsNear
<1>10. HelloMeetsRound => HelloMeetsRound'
  <2> SUFFICES ASSUME HelloMeetsRound PROVE HelloMeetsRound'
    OBVIOUS
  <2>1. /\ Server'.phase = "handshake" /\ Strays' = {} /\ RoundLeft' = RoundLeft
    BY <1>1, <1>3 DEF HelloMeetsRound, RoundLeft
  <2>2. CASE \E d \in Hellos :
               /\ Current(d)
               /\ d.left < RoundLeft
               /\ calm + d.left + MaxDelay <= Deadline
    <3> PICK d \in Hellos :
          /\ Current(d)
          /\ d.left < RoundLeft
          /\ calm + d.left + MaxDelay <= Deadline
      BY <2>2
    <3>1. d \in Hellos' /\ Current(d)'
      BY <1>1, StaysCurrent
    <3> QED
      BY <1>1, <2>1, <3>1 DEF HelloMeetsRound
  <2>3. CASE /\ NextHello + MaxDelay < RoundLeft
             /\ calm + NextHello + 2 * MaxDelay <= Deadline
    <3>1. RoundLeft \in Nat
      <4>1. Hs \in Nat /\ Server.left \in Nat /\ Server.wait \in Nat
        BY RunsTypes, Wide, Sizes
      <4>2. Server.left * Hs \in Nat
        BY <4>1, Products
      <4> QED
        BY <4>1, <4>2 DEF RoundLeft
    <3>2. Deadline \in Nat
      BY <1>4
    <3>3. h.left < RoundLeft /\ calm + h.left + MaxDelay <= Deadline
      BY <1>4, <1>6, <2>3, <3>1, <3>2
    <3> QED
      BY <1>1, <1>5, <2>1, <3>3 DEF HelloMeetsRound
  <2> QED
    BY <2>2, <2>3 DEF HelloMeetsRound
<1> QED
  BY <1>2, <1>7, <1>8, <1>9, <1>10 DEF Approaching

\* The client gives its hello up, and says so to nobody.
LEMMA ApproachingGivesUp ==
  ASSUME Runs, Runs', ServerSilent, Approaching, NEW read, NEW out,
         Exchanges("client", read, out), GivesUp("client", read, out),
         Server.phase # "engine"
  PROVE  Approaching'
<1>1. /\ Server' = Server /\ calm' = calm /\ out = {}
      /\ Client.phase = "handshake" /\ Client.left = 0
      /\ Client'.phase = "sleeping" /\ Client'.wait = Rc
  BY RunsTypes, ClientExchange, TheEnds, Shapes DEF GivesUp, Client, Rc
<1>2. Strays' = Strays
  <2>1. Strays' = Strays \cup {d \in out : d.type # "HELLO"}
    BY RunsTypes, ClientExchange
  <2> QED
    BY <1>1, <2>1
<1>3. /\ MaxDelay \in Nat /\ Hc \in Nat /\ Rc \in Nat /\ 2 * MaxDelay < Hc
      /\ OrphansOver \in Nat /\ Deadline \in Nat /\ calm \in Nat /\ Client.wait \in Nat
  BY RunsTypes, Wide, Sizes
<1>4. NextHello = Client.wait + Rc /\ NextHello' = Rc
  BY <1>1, <1>3 DEF NextHello
<1>5. ASSUME NEW d \in Hellos, Current(d) PROVE HelloIsNear'
  <2> PICK c \in ToClient : c.left \in Nat /\ c.left <= MaxDelay
    BY <1>5, CurrentReads
  <2>1. calm + c.left <= OrphansOver + MaxDelay
    BY DEF ServerSilent
  <2> QED
    BY <1>1, <1>3, <1>4, <2>1 DEF HelloIsNear
<1>6. HelloIsNear => HelloIsNear'
  BY <1>1, <1>3, <1>4 DEF HelloIsNear
<1>7. HelloOnItsWay => HelloIsNear'
  BY <1>5 DEF HelloOnItsWay
<1>8. RoundIsNear => RoundIsNear'
  BY <1>1, <1>2 DEF RoundIsNear
<1>9. HelloMeetsRound => HelloMeetsRound' \/ HelloIsNear'
  <2> SUFFICES ASSUME HelloMeetsRound,
                      NextHello + MaxDelay < RoundLeft,
                      calm + NextHello + 2 * MaxDelay <= Deadline
               PROVE  HelloMeetsRound'
    BY <1>5 DEF HelloMeetsRound
  <2>1. RoundLeft \in Nat
    <3>1. Hs \in Nat /\ Server.left \in Nat /\ Server.wait \in Nat
      BY RunsTypes, Wide, Sizes
    <3>2. Server.left * Hs \in Nat
      BY <3>1, Products
    <3> QED
      BY <3>1, <3>2 DEF RoundLeft
  <2>2. RoundLeft' = RoundLeft
    BY <1>1 DEF RoundLeft
  <2>3. NextHello' + MaxDelay < RoundLeft /\ calm + NextHello' + 2 * MaxDelay <= Deadline
    BY <1>3, <1>4, <2>1
  <2> QED
    BY <1>1, <1>2, <2>2, <2>3 DEF HelloMeetsRound
<1> QED
  BY <1>1, <1>6, <1>7, <1>8, <1>9 DEF Approaching

LEMMA ApproachingClient ==
  ASSUME Runs, Runs', ServerSilent, ClientSilent', ClientOrphan, Approaching,
         NEW read, NEW out,
         Exchanges("client", read, out), Kinds("client", read, out)
  PROVE  Approaching'
<1> SUFFICES ASSUME Client'.phase # "engine", Server'.phase # "engine"
             PROVE  Approaching'
  BY DEF Approaching
<1>1. /\ Server' = Server /\ calm' = calm
      /\ Hellos' = Hellos \cup {d \in out : d.type = "HELLO"}
      /\ Strays' = Strays \cup {d \in out : d.type # "HELLO"}
      /\ "client" \in Endpoints /\ TypeOK
  BY RunsTypes, ClientExchange DEF Endpoints
<1>2. CASE Begins("client", read, out)
  BY <1>1, <1>2, ApproachingHello
<1>3. CASE GivesUp("client", read, out)
  BY <1>1, <1>3, ApproachingGivesUp
<1>4. CASE TimesOut("client", read, out)
  <2>1. /\ Client.phase = "engine" /\ Client.wait = 0
        /\ Client'.phase = "sleeping" /\ Client'.wait = Rc
    BY <1>1, <1>4, Shapes DEF TimesOut, Client, Rc
  <2>2. calm <= OrphansOver
    BY <2>1, ClientTimesOut
  <2>3. Rc \in Nat /\ Hc \in Nat /\ OrphansOver \in Nat /\ calm \in Nat
    BY RunsTypes, Wide, Sizes
  <2>4. HelloIsNear'
    BY <1>1, <2>1, <2>2, <2>3 DEF HelloIsNear, NextHello
  <2> QED
    BY <2>4 DEF Approaching
<1>5. CASE Misses("client", read, out)
  <2>1. Client' = Client /\ out = {}
    BY <1>5 DEF Misses, Client
  <2>2. Hellos' = Hellos /\ Strays' = Strays
    BY <1>1, <2>1
  <2>3. HelloIsNear => HelloIsNear'
    BY <1>1, <2>1, HelloIsNearSame
  <2>4. HelloOnItsWay => HelloOnItsWay'
    BY <1>1, <2>1, <2>2, HelloOnItsWaySame
  <2>5. RoundIsNear => RoundIsNear'
    BY <1>1, <2>2 DEF RoundIsNear
  <2>6. HelloMeetsRound => HelloMeetsRound'
    <3>1. RoundLeft' = RoundLeft
      BY <1>1 DEF RoundLeft
    <3>2. HelloMeetsRound => Server'.phase = "handshake"
      BY <1>1 DEF HelloMeetsRound
    <3> QED
      BY <1>1, <2>1, <2>2, <3>1, <3>2, HelloMeetsRoundSame
  <2> QED
    BY <1>1, <2>1, <2>3, <2>4, <2>5, <2>6 DEF Approaching
<1>6. CASE Finishing("client", read, out) \/ Continues("client", read, out)
  BY <1>1, <1>6, DatagramFields, Shapes DEF Finishing, Continues, Client
<1> QED
  BY <1>2, <1>3, <1>4, <1>5, <1>6 DEF Kinds, Accepting

(***************************************************************************)
(* The same after a tick                                                   *)
(***************************************************************************)

Aged(d) == [d EXCEPT !.left = @ - 1]

LEMMA TickNodes ==
  ASSUME Runs, Tick
  PROVE  /\ Client'.phase = Client.phase /\ Client'.session = Client.session
         /\ Client'.left = Client.left /\ Client'.wait = Client.wait - 1
         /\ Server'.phase = Server.phase /\ Server'.session = Server.session
         /\ Server'.left = Server.left /\ Server'.wait = Server.wait - 1
         /\ Client.wait > 0 /\ Server.wait > 0
         /\ calm' \in Nat /\ calm' <= calm + 1
<1>1. ASSUME NEW e \in Endpoints
      PROVE  /\ node'[e].phase = node[e].phase /\ node'[e].session = node[e].session
             /\ node'[e].left = node[e].left /\ node'[e].wait = node[e].wait - 1
             /\ node[e].wait > 0
  <2>1. node[e] \in Node /\ node[e].wait \in Nat
    BY RunsTypes, NodeFields
  <2>2. node[e].phase \in {"sleeping", "handshake", "engine"}
    BY <2>1 DEF Runs, Quiet, Node
  <2>3. node[e].wait > 0
    BY <2>2 DEF Tick, Prompt
  <2>4. node'[e] = [node[e] EXCEPT !.wait = Less(@), !.due = Less(@)]
    BY DEF Tick
  <2>5. Less(node[e].wait) = node[e].wait - 1
    BY <2>3 DEF Less
  <2> QED
    BY <2>1, <2>3, <2>4, <2>5 DEF Node
<1>2. calm' \in Nat /\ calm' <= calm + 1
  <2>1. calm' \in 0 .. Deadline + 1 /\ calm' <= calm + 1
    BY RunsTypes, Ticks
  <2> QED
    BY <2>1, DeadlineIsNat
<1> QED
  BY <1>1, <1>2, TheEnds DEF Client, Server

LEMMA TickNet ==
  ASSUME Runs, Tick
  PROVE  /\ ToClient' = {Aged(d) : d \in ToClient}
         /\ Hellos' = {Aged(d) : d \in Hellos}
         /\ Strays' = {Aged(d) : d \in Strays}
         /\ net' = {Aged(d) : d \in net}
         /\ \A d \in net :
              /\ Aged(d).left = d.left - 1 /\ d.left \in Nat /\ d.left > 0
              /\ d.left <= MaxDelay
              /\ Aged(d).to = d.to /\ Aged(d).type = d.type
              /\ Aged(d).session = d.session
<1>1. net' = {Aged(d) : d \in net}
  BY DEF Tick, Aged
<1>2. \A d \in net :
        /\ Aged(d).left = d.left - 1 /\ d.left \in Nat /\ d.left > 0
        /\ d.left <= MaxDelay
        /\ Aged(d).to = d.to /\ Aged(d).type = d.type
        /\ Aged(d).session = d.session
  BY RunsTypes, Ages, Sizes DEF Tick, Aged
<1>3. ToClient' = {Aged(d) : d \in ToClient}
  BY <1>1, <1>2 DEF ToClient
<1>4. Hellos' = {Aged(d) : d \in Hellos}
  BY <1>1, <1>2 DEF Hellos
<1>5. Strays' = {Aged(d) : d \in Strays}
  BY <1>1, <1>2 DEF Strays
<1> QED
  BY <1>1, <1>2, <1>3, <1>4, <1>5

LEMMA RunsNumbers ==
  ASSUME Runs
  PROVE  /\ Lc \in Nat /\ Ls \in Nat /\ Hc \in Nat /\ Hs \in Nat /\ Rc \in Nat
         /\ Rs \in Nat /\ MaxDelay \in Nat /\ OrphansOver \in Nat
         /\ HelloComes \in Nat /\ Deadline \in Nat
         /\ calm \in Nat /\ Client.wait \in Nat /\ Server.wait \in Nat
         /\ Client.left \in Nat /\ Server.left \in Nat
         /\ RoundLeft \in Nat /\ NextHello \in Nat
<1>1. /\ Lc \in Nat /\ Ls \in Nat /\ Hc \in Nat /\ Hs \in Nat /\ Rc \in Nat
      /\ Rs \in Nat /\ MaxDelay \in Nat /\ OrphansOver \in Nat
      /\ HelloComes \in Nat /\ Deadline \in Nat
  BY RunsTypes, Wide
<1>2. /\ calm \in Nat /\ Client.wait \in Nat /\ Server.wait \in Nat
      /\ Client.left \in Nat /\ Server.left \in Nat
  BY RunsTypes, Sizes
<1>3. RoundLeft \in Nat
  <2>1. Server.left * Hs \in Nat
    BY <1>1, <1>2, Products
  <2> QED
    BY <1>2, <2>1 DEF RoundLeft
<1>4. NextHello \in Nat
  BY <1>1, <1>2 DEF NextHello
<1> QED
  BY <1>1, <1>2, <1>3, <1>4

LEMMA ServerSilentTick ==
  ASSUME Runs, Tick, ServerSilent
  PROVE  ServerSilent'
<1> SUFFICES ASSUME NEW d \in ToClient
             PROVE  /\ Server'.phase = "sleeping" =>
                         \/ Aged(d).left + Rs - Server'.wait <= MaxDelay
                         \/ calm' + Aged(d).left <= MaxDelay
                    /\ Server'.phase = "handshake" =>
                         calm' + Aged(d).left <= MaxDelay
                    /\ Server'.phase # "engine" =>
                         calm' + Aged(d).left <= OrphansOver + MaxDelay
  BY TickNet DEF ServerSilent
<1>1. Aged(d).left = d.left - 1 /\ d.left \in Nat
  BY TickNet DEF ToClient
<1>2. /\ Server.phase = "sleeping" =>
           \/ d.left + Rs - Server.wait <= MaxDelay
           \/ calm + d.left <= MaxDelay
      /\ Server.phase = "handshake" => calm + d.left <= MaxDelay
      /\ Server.phase # "engine" => calm + d.left <= OrphansOver + MaxDelay
  BY DEF ServerSilent
<1> QED
  BY <1>1, <1>2, TickNodes, RunsNumbers

LEMMA ClientSilentTick ==
  ASSUME Runs, Tick, ClientSilent
  PROVE  ClientSilent'
<1> SUFFICES ASSUME NEW d \in Strays
             PROVE  /\ Client'.phase = "sleeping" =>
                         \/ Aged(d).left + Rc - Client'.wait <= MaxDelay
                         \/ calm' + Aged(d).left <= MaxDelay
                    /\ Client'.phase = "handshake" =>
                         \/ Aged(d).left < MaxDelay
                         \/ calm' + Aged(d).left <= MaxDelay
  BY TickNet DEF ClientSilent
<1>1. Aged(d).left = d.left - 1 /\ d.left \in Nat
  BY TickNet DEF Strays
<1>2. /\ Client.phase = "sleeping" =>
           \/ d.left + Rc - Client.wait <= MaxDelay
           \/ calm + d.left <= MaxDelay
      /\ Client.phase = "handshake" => d.left < MaxDelay \/ calm + d.left <= MaxDelay
  BY DEF ClientSilent
<1> QED
  BY <1>1, <1>2, TickNodes, RunsNumbers

LEMMA CurrentTick ==
  ASSUME Runs, Tick, NEW d \in net, Current(d)
  PROVE  \E c : c = Aged(d) /\ Current(c)'
<1>1. Aged(d).left = d.left - 1 /\ d.left \in Nat /\ Aged(d).session = d.session
  BY TickNet
<1>2. PICK c : c = Aged(d)
  OBVIOUS
<1>3. Current(c)'
  BY <1>1, <1>2, TickNodes, RunsNumbers DEF Current
<1> QED
  BY <1>2, <1>3

LEMMA HellosCurrentTick ==
  ASSUME Runs, Tick, HellosCurrent
  PROVE  HellosCurrent'
<1> SUFFICES ASSUME NEW c \in Hellos'
             PROVE  \/ Current(c)'
                    \/ Server'.phase = "engine"
                    \/ calm' + c.left <= 2 * MaxDelay
                    \/ /\ Server'.phase = "sleeping"
                       /\ c.left + Rs - Server'.wait <= 2 * MaxDelay
  BY DEF HellosCurrent
<1> PICK d \in Hellos : c = Aged(d)
  BY TickNet
<1>1. d \in net /\ c.left = d.left - 1 /\ d.left \in Nat
  BY TickNet DEF Hellos
<1>2. \/ Current(d)
      \/ Server.phase = "engine"
      \/ calm + d.left <= 2 * MaxDelay
      \/ Server.phase = "sleeping" /\ d.left + Rs - Server.wait <= 2 * MaxDelay
  BY DEF HellosCurrent
<1>3. CASE Current(d)
  BY <1>1, <1>3, CurrentTick
<1>4. CASE ~ Current(d)
  BY <1>1, <1>2, <1>4, TickNodes, RunsNumbers
<1> QED
  BY <1>3, <1>4

LEMMA AnswersCurrentTick ==
  ASSUME Runs, Tick, AnswersCurrent
  PROVE  AnswersCurrent'
<1> SUFFICES ASSUME NEW c \in ToClient', c.type = "ANSWER"
             PROVE  \/ Server'.phase = "engine" /\ c.session = Server'.session
                    \/ calm' + c.left <= MaxDelay
  BY DEF AnswersCurrent
<1> PICK d \in ToClient : c = Aged(d)
  BY TickNet
<1>1. /\ c.left = d.left - 1 /\ d.left \in Nat
      /\ c.type = d.type /\ c.session = d.session
  BY TickNet DEF ToClient
<1>2. \/ Server.phase = "engine" /\ d.session = Server.session
      \/ calm + d.left <= MaxDelay
  BY <1>1 DEF AnswersCurrent
<1> QED
  BY <1>1, <1>2, TickNodes, RunsNumbers

LEMMA OrphanTick ==
  ASSUME Runs, Tick, NEW e \in Endpoints, node[e].phase = "engine", Orphan(e)
  PROVE  Orphan(e)'
<1>1. /\ node'[e].wait = node[e].wait - 1 /\ node'[e].session = node[e].session
      /\ node[e].wait \in Nat /\ LivenessTimeout[e] \in Nat
  BY RunsTypes, NodeFields, Timers, TickNodes, TheEnds
  DEF Client, Server, Endpoints
<1>2. calm' + node'[e].wait <= OrphansOver
  <2>1. calm + node[e].wait <= OrphansOver
    BY DEF Orphan
  <2> QED
    BY <1>1, <2>1, TickNodes, RunsNumbers
<1>3. ASSUME NEW c \in net', c.to = e, c.type = "DATA", c.session = node'[e].session
      PROVE  calm' + c.left + LivenessTimeout[e] <= OrphansOver
  <2> PICK d \in net : c = Aged(d)
    BY TickNet
  <2>1. /\ c.left = d.left - 1 /\ d.left \in Nat
        /\ c.to = d.to /\ c.type = d.type /\ c.session = d.session
    BY TickNet
  <2>2. calm + d.left + LivenessTimeout[e] <= OrphansOver
    BY <1>1, <1>3, <2>1 DEF Orphan
  <2> QED
    BY <1>1, <2>1, <2>2, TickNodes, RunsNumbers
<1> QED
  BY <1>2, <1>3 DEF Orphan

LEMMA PendingTick ==
  ASSUME Runs, Tick, Pending
  PROVE  Pending'
<1> PICK a \in ToClient : Answering(a)
  BY DEF Pending
<1>1. PICK b : b = Aged(a)
  OBVIOUS
<1>2. /\ b \in ToClient' /\ b.left = a.left - 1 /\ a.left \in Nat
      /\ b.type = a.type /\ b.session = a.session
  BY <1>1, TickNet DEF ToClient
<1>3. /\ b.left < Client'.wait
      /\ Server'.wait + MaxDelay - b.left >= Ls
      /\ calm' + b.left <= Deadline
  <2>1. /\ a.left < Client.wait
        /\ Server.wait + MaxDelay - a.left >= Ls
        /\ calm + a.left <= Deadline
    BY DEF Answering
  <2> QED
    BY <1>2, <2>1, TickNodes, RunsNumbers
<1>4. ASSUME NEW c \in ToClient'
      PROVE  c = b \/ (c.type = "DATA" /\ b.left <= c.left)
  <2> PICK d \in ToClient : c = Aged(d)
    BY TickNet
  <2>1. c.left = d.left - 1 /\ d.left \in Nat /\ c.type = d.type
    BY TickNet DEF ToClient
  <2>2. d = a \/ (d.type = "DATA" /\ a.left <= d.left)
    BY DEF Answering
  <2> QED
    BY <1>1, <1>2, <2>1, <2>2
<1>5. b.type = "ANSWER" /\ b.session = Server'.session
      /\ b.session.hello = Client'.session.hello
  BY <1>2, TickNodes DEF Answering
<1>6. Answering(b)'
  BY <1>3, <1>4, <1>5 DEF Answering
<1> QED
  BY <1>2, <1>6, TickNodes DEF Pending

LEMMA OrphansTick ==
  ASSUME Runs, Tick, ClientOrphan, ServerOrphan
  PROVE  ClientOrphan' /\ ServerOrphan'
<1>1. Connected' <=> Connected
  BY TickNodes, Connection, ConnectionNext
<1>2. ClientOrphan'
  <2> SUFFICES ASSUME Client'.phase = "engine", ~ Connected'
               PROVE  Orphan("client")'
    BY DEF ClientOrphan
  <2>1. node["client"].phase = "engine" /\ Orphan("client")
    BY <1>1, TickNodes DEF ClientOrphan, Client
  <2> QED
    BY <2>1, OrphanTick, TheEnds
<1>3. ServerOrphan'
  <2> SUFFICES ASSUME Server'.phase = "engine", ~ Connected'
               PROVE  Pending' \/ Orphan("server")'
    BY DEF ServerOrphan
  <2>1. node["server"].phase = "engine" /\ (Pending \/ Orphan("server"))
    BY <1>1, TickNodes DEF ServerOrphan, Server
  <2> QED
    BY <2>1, OrphanTick, PendingTick, TheEnds
<1> QED
  BY <1>2, <1>3

LEMMA ApproachingTick ==
  ASSUME Runs, Tick, Approaching
  PROVE  Approaching'
<1> SUFFICES ASSUME Client'.phase # "engine", Server'.phase # "engine"
             PROVE  \/ HelloIsNear' \/ HelloOnItsWay'
                    \/ RoundIsNear' \/ HelloMeetsRound'
  BY DEF Approaching
<1>1. HelloIsNear \/ HelloOnItsWay \/ RoundIsNear \/ HelloMeetsRound
  BY TickNodes DEF Approaching
<1>2. NextHello' = NextHello - 1 /\ RoundLeft' = RoundLeft - 1
  <2>1. NextHello' = NextHello - 1
    BY TickNodes, RunsNumbers DEF NextHello
  <2>2. RoundLeft' = RoundLeft - 1
    <3> DEFINE m == Server.left * Hs
    <3>1. m \in Nat /\ RoundLeft = Server.wait + m /\ RoundLeft' = Server'.wait + m
      BY TickNodes, RunsNumbers, Products DEF RoundLeft
    <3> HIDE DEF m
    <3> QED
      BY <3>1, TickNodes, RunsNumbers
  <2> QED
    BY <2>1, <2>2
<1>3. ASSUME NEW d \in Hellos, Current(d)
      PROVE  \E c \in Hellos' : Current(c)' /\ c.left = d.left - 1 /\ d.left \in Nat
  <2>1. d \in net /\ Aged(d).left = d.left - 1 /\ d.left \in Nat
    BY TickNet DEF Hellos
  <2>2. PICK c : c = Aged(d) /\ Current(c)'
    BY <1>3, <2>1, CurrentTick
  <2> QED
    BY <2>1, <2>2, TickNet
<1>4. CASE HelloIsNear
  <2>1. calm + NextHello <= OrphansOver + Hc + Rc
    BY <1>4 DEF HelloIsNear
  <2>2. calm' + (NextHello - 1) <= OrphansOver + Hc + Rc
    BY <2>1, TickNodes, RunsNumbers
  <2> QED
    BY <1>2, <2>2 DEF HelloIsNear
<1>5. CASE HelloOnItsWay
  <2> PICK d \in Hellos :
        /\ Current(d)
        /\ calm + d.left <= OrphansOver + HelloComes
        /\ \A c \in Strays : c.left < d.left
    BY <1>5 DEF HelloOnItsWay
  <2> PICK c \in Hellos' : Current(c)' /\ c.left = d.left - 1 /\ d.left \in Nat
    BY <1>3
  <2>1. calm' + c.left <= OrphansOver + HelloComes
    BY TickNodes, RunsNumbers
  <2>2. ASSUME NEW b \in Strays' PROVE b.left < c.left
    <3> PICK x \in Strays : b = Aged(x)
      BY TickNet
    <3>1. b.left = x.left - 1 /\ x.left \in Nat /\ x.left < d.left
      BY TickNet DEF Strays
    <3> QED
      BY <3>1
  <2> QED
    BY <2>1, <2>2 DEF HelloOnItsWay
<1>6. CASE RoundIsNear
  <2>1. Strays' = {} /\ Server'.phase = "sleeping"
    BY <1>6, TickNet, TickNodes DEF RoundIsNear
  <2>2. calm' + Server'.wait <= OrphansOver + HelloComes + Rs
    BY <1>6, TickNodes, RunsNumbers DEF RoundIsNear
  <2> QED
    BY <2>1, <2>2 DEF RoundIsNear
<1>7. CASE HelloMeetsRound
  <2>1. Strays' = {} /\ Server'.phase = "handshake"
    BY <1>7, TickNet, TickNodes DEF HelloMeetsRound
  <2>2. CASE /\ NextHello + MaxDelay < RoundLeft
             /\ calm + NextHello + 2 * MaxDelay <= Deadline
    <3>1. /\ (NextHello - 1) + MaxDelay < RoundLeft - 1
          /\ calm' + (NextHello - 1) + 2 * MaxDelay <= Deadline
      BY <2>2, TickNodes, RunsNumbers
    <3> QED
      BY <1>2, <2>1, <3>1 DEF HelloMeetsRound
  <2>3. CASE \E d \in Hellos :
               /\ Current(d)
               /\ d.left < RoundLeft
               /\ calm + d.left + MaxDelay <= Deadline
    <3> PICK d \in Hellos :
          /\ Current(d)
          /\ d.left < RoundLeft
          /\ calm + d.left + MaxDelay <= Deadline
      BY <2>3
    <3> PICK c \in Hellos' : Current(c)' /\ c.left = d.left - 1 /\ d.left \in Nat
      BY <1>3
    <3>1. c.left < RoundLeft - 1 /\ calm' + c.left + MaxDelay <= Deadline
      BY TickNodes, RunsNumbers
    <3> QED
      BY <1>2, <2>1, <3>1 DEF HelloMeetsRound
  <2> QED
    BY <1>7, <2>2, <2>3 DEF HelloMeetsRound
<1> QED
  BY <1>1, <1>4, <1>5, <1>6, <1>7

(***************************************************************************)
(* Just after a fault everything is within its bounds.                     *)
(***************************************************************************)

LEMMA RecoversFromNow ==
  ASSUME Runs', calm' = 0
  PROVE  Recovering'
<1>1. /\ Lc \in Nat /\ Ls \in Nat /\ Hc \in Nat /\ Rc \in Nat /\ MaxDelay \in Nat
      /\ OrphansOver = Ls + MaxDelay + Lc
      /\ TypeOK'
  BY Wide DEF Runs, IInv
<1>2. /\ \A d \in net' : d.left \in Nat /\ d.left <= MaxDelay
      /\ Client'.wait \in Nat /\ Server'.wait \in Nat
      /\ Client' \in Node
  BY <1>1, SizesNext DEF Runs
<1>3. /\ Client'.phase = "sleeping" => Client'.wait <= Rc
      /\ Client'.phase = "handshake" => Client'.wait <= Hc
      /\ Client'.phase = "engine" => Client'.wait <= Lc
      /\ Server'.phase = "engine" => Server'.wait <= Ls
      /\ Client'.phase \in {"sleeping", "handshake", "engine"}
  <2>1. Client'.phase # "ended"
    BY TheEnds DEF Runs, Quiet, Client
  <2>2. Client'.phase \in {"sleeping", "handshake", "engine"}
    BY <1>2, <2>1 DEF Node
  <2> QED
    BY <2>2, TheEnds DEF Runs, Patient, Client, Server, Rc, Hc, Lc, Ls
<1>4. \A d \in ToClient' : calm' + d.left <= MaxDelay
  BY <1>2 DEF ToClient
<1>5. ServerSilent' /\ AnswersCurrent'
  <2>1. ServerSilent'
    <3>1. \A d \in ToClient' : calm' + d.left <= OrphansOver + MaxDelay
      BY <1>1, <1>2 DEF ToClient
    <3> QED
      BY <1>4, <3>1 DEF ServerSilent
  <2>2. AnswersCurrent'
    BY <1>4 DEF AnswersCurrent
  <2> QED
    BY <2>1, <2>2
<1>6. ClientSilent'
  <2>1. \A d \in Strays' : calm' + d.left <= MaxDelay
    BY <1>2 DEF Strays
  <2> QED
    BY <2>1 DEF ClientSilent
<1>7. HellosCurrent'
  <2>1. \A d \in Hellos' : calm' + d.left <= 2 * MaxDelay
    BY <1>1, <1>2 DEF Hellos
  <2> QED
    BY <2>1 DEF HellosCurrent
<1>8. ClientOrphan'
  <2> SUFFICES ASSUME Client'.phase = "engine" PROVE Orphan("client")'
    BY DEF ClientOrphan
  <2>1. calm' + Client'.wait <= OrphansOver
    BY <1>1, <1>2, <1>3
  <2>2. \A d \in net' : calm' + d.left + Lc <= OrphansOver
    BY <1>1, <1>2
  <2> QED
    BY <2>1, <2>2 DEF Orphan, Client, Lc
<1>9. ServerOrphan'
  <2> SUFFICES ASSUME Server'.phase = "engine" PROVE Orphan("server")'
    BY DEF ServerOrphan
  <2>1. calm' + Server'.wait <= OrphansOver
    BY <1>1, <1>2, <1>3
  <2>2. \A d \in net' : calm' + d.left + Ls <= OrphansOver
    BY <1>1, <1>2
  <2> QED
    BY <2>1, <2>2 DEF Orphan, Server, Ls
<1>10. Approaching'
  <2> SUFFICES ASSUME Client'.phase # "engine" PROVE HelloIsNear'
    BY DEF Approaching
  <2>1. NextHello' \in Nat /\ NextHello' <= Hc + Rc
    BY <1>1, <1>2, <1>3 DEF NextHello
  <2> DEFINE n == NextHello'
  <2>2. n \in Nat /\ n <= Hc + Rc
    BY <2>1
  <2> HIDE DEF n
  <2>3. 0 + n <= OrphansOver + Hc + Rc
    BY <1>1, <2>2
  <2> QED
    BY <2>3 DEF HelloIsNear, n
<1> QED
  BY <1>5, <1>6, <1>7, <1>8, <1>9, <1>10 DEF Recovering

(***************************************************************************)
(* The invariant of recovery                                               *)
(***************************************************************************)

LEMMA ServerRecovering ==
  ASSUME Runs, Runs', Recovering, NEW read, NEW out,
         Exchanges("server", read, out), Kinds("server", read, out)
  PROVE  Recovering'
<1>1. ServerSilent' /\ ClientSilent'
  BY ServerSilentServer, ClientSilentServer DEF Recovering
<1>2. HellosCurrent' /\ AnswersCurrent'
  BY HellosCurrentServer, AnswersCurrentServer DEF Recovering
<1>3. ClientOrphan' /\ ServerOrphan'
  BY ClientOrphanServer, ServerOrphanServer DEF Recovering
<1>4. Approaching'
  BY ApproachingServer DEF Recovering
<1> QED
  BY <1>1, <1>2, <1>3, <1>4 DEF Recovering

LEMMA ClientRecovering ==
  ASSUME Runs, Runs', Recovering, NEW read, NEW out,
         Exchanges("client", read, out), Kinds("client", read, out)
  PROVE  Recovering'
<1>1. ServerSilent' /\ ClientSilent'
  BY ServerSilentClient, ClientSilentClient DEF Recovering
<1>2. HellosCurrent' /\ AnswersCurrent'
  BY HellosCurrentClient, AnswersCurrentClient DEF Recovering
<1>3. ClientOrphan' /\ ServerOrphan'
  BY ClientOrphanClient, ServerOrphanClient DEF Recovering
<1>4. Approaching'
  BY <1>1, ApproachingClient DEF Recovering
<1> QED
  BY <1>1, <1>2, <1>3, <1>4 DEF Recovering

LEMMA TickRecovering ==
  ASSUME Runs, Tick, Recovering
  PROVE  Recovering'
<1>1. ServerSilent' /\ ClientSilent'
  BY ServerSilentTick, ClientSilentTick DEF Recovering
<1>2. HellosCurrent' /\ AnswersCurrent'
  BY HellosCurrentTick, AnswersCurrentTick DEF Recovering
<1>3. ClientOrphan' /\ ServerOrphan'
  BY OrphansTick DEF Recovering
<1>4. Approaching'
  BY ApproachingTick DEF Recovering
<1> QED
  BY <1>1, <1>2, <1>3, <1>4 DEF Recovering

\* Patient, of one node.
PatientNode(e, x) ==
  /\ x.phase = "sleeping" => x.wait <= ReconnectDelay[e]
  /\ x.phase = "handshake" => x.wait <= HandshakeTimeout[e]
  /\ x.phase = "engine" => x.wait <= LivenessTimeout[e]
  /\ x.phase = "ended" => x.wait = 0

LEMMA PatientNext ==
  ASSUME \A e \in Endpoints : PatientNode(e, node'[e])
  PROVE  Patient'
BY DEF Patient, PatientNode

LEMMA PatientNodes ==
  ASSUME TypeOK, NEW e \in Endpoints
  PROVE  /\ Patient => PatientNode(e, node[e])
         /\ PatientNode(e, Sleeping(e))
         /\ PatientNode(e, [Sleeping(e) EXCEPT !.wait = 0])
         /\ PatientNode(e, Gone)
         /\ \A s \in Session : PatientNode(e, Established(e, s))
<1>1. Patient => PatientNode(e, node[e])
  BY DEF Patient, PatientNode
<1>2. PatientNode(e, Sleeping(e)) /\ PatientNode(e, [Sleeping(e) EXCEPT !.wait = 0])
  BY Timers DEF PatientNode, Sleeping
<1>3. PatientNode(e, Gone)
  BY DEF PatientNode, Gone
<1>4. ASSUME NEW s \in Session PROVE PatientNode(e, Established(e, s))
  BY Shapes, Timers DEF PatientNode
<1> QED
  BY <1>1, <1>2, <1>3, <1>4

LEMMA StepPatient ==
  ASSUME TypeOK, TypeOK', Patient, NEW e \in Endpoints, NEW read, NEW out,
         Exchanges(e, read, out), Kinds(e, read, out)
  PROVE  Patient' /\ (Quiet => Quiet')
<1>1. PatientNode(e, node'[e]) /\ (Quiet => node'[e].phase # "ended")
  <2>1. CASE Begins(e, read, out)
    BY <2>1, Timers DEF Begins, PatientNode
  <2>2. CASE GivesUp(e, read, out) \/ TimesOut(e, read, out)
    <3>1. node'[e] = Sleeping(e)
      BY <2>2 DEF GivesUp, TimesOut
    <3> QED
      BY <3>1, PatientNodes, Shapes
  <2>3. CASE Finishing(e, read, out) \/ Accepting(e, read, out)
    <3>1. PICK s \in Session : node'[e] = Established(e, s)
      BY <2>3, DatagramFields DEF Finishing, Accepting
    <3> QED
      BY <3>1, PatientNodes, Shapes
  <2>4. CASE Continues(e, read, out)
    <3>1. node[e].wait <= LivenessTimeout[e] /\ LivenessTimeout[e] \in Nat
      BY <2>4, Timers DEF Continues, Patient
    <3> QED
      BY <2>4, <3>1 DEF Continues, PatientNode
  <2>5. CASE Misses(e, read, out)
    BY <2>5, PatientNodes DEF Misses, Quiet
  <2> QED
    BY <2>1, <2>2, <2>3, <2>4, <2>5 DEF Kinds
<1>2. node'[Peer(e)] = node[Peer(e)]
  BY DEF Exchanges
<1>3. ASSUME NEW f \in Endpoints PROVE PatientNode(f, node'[f])
  <2>1. CASE f = e
    BY <1>1, <2>1
  <2>2. CASE f # e
    <3>1. f = Peer(e)
      BY <2>2, TheEnds
    <3>2. node'[f] = node[f]
      BY <1>2, <3>1
    <3>3. PatientNode(f, node[f])
      BY PatientNodes
    <3> QED
      BY <3>2, <3>3
  <2> QED
    BY <2>1, <2>2
<1>4. ASSUME Quiet PROVE Quiet'
  <2>1. \A f \in Endpoints : node'[f].phase # "ended"
    BY <1>1, <1>2, <1>4, TheEnds DEF Quiet
  <2>2. \A d \in net' : d.left <= MaxDelay
    BY <1>4 DEF Exchanges, Quiet, ConstantsAssumption
  <2> QED
    BY <2>1, <2>2 DEF Quiet
<1> QED
  BY <1>3, <1>4, PatientNext

LEMMA FaultPatient ==
  ASSUME TypeOK, Patient,
         \/ node' = node
         \/ \E e \in Endpoints : Fail(e) \/ End(e) \/ Launch(e)
  PROVE  Patient'
<1>1. ASSUME NEW f \in Endpoints PROVE PatientNode(f, node'[f])
  <2>1. CASE node' = node
    BY <2>1, PatientNodes
  <2>2. ASSUME NEW e \in Endpoints, Fail(e) \/ End(e) \/ Launch(e)
        PROVE  PatientNode(f, node'[f])
    <3>1. CASE f = e
      <4>1. node'[e] \in {Sleeping(e), Gone, [Sleeping(e) EXCEPT !.wait = 0]}
        BY <2>2 DEF Fail, End, Launch, TypeOK
      <4> QED
        BY <3>1, <4>1, PatientNodes
    <3>2. CASE f # e
      <4>1. node'[f] = node[f]
        BY <2>2, <3>2 DEF Fail, End, Launch, TypeOK
      <4> QED
        BY <4>1, PatientNodes
    <3> QED
      BY <3>1, <3>2
  <2> QED
    BY <2>1, <2>2
<1> QED
  BY <1>1, PatientNext

LEMMA TickPatient ==
  ASSUME TypeOK, Patient, Tick
  PROVE  Patient' /\ (Quiet => Quiet')
<1>1. ASSUME NEW e \in Endpoints
      PROVE  PatientNode(e, node'[e]) /\ node'[e].phase = node[e].phase
  <2>1. /\ node'[e].phase = node[e].phase
        /\ node'[e].wait = Less(node[e].wait) /\ node[e].wait \in Nat
    <3>1. node'[e] = [node[e] EXCEPT !.wait = Less(@), !.due = Less(@)]
      BY DEF Tick
    <3> QED
      BY <3>1, NodeFields DEF Node
  <2> DEFINE w == node[e].wait
  <2>2. w \in Nat => Less(w) \in Nat /\ Less(w) <= w
    BY DEF Less
  <2>3. /\ node'[e].wait \in Nat /\ node'[e].wait <= node[e].wait
        /\ node[e].wait \in Nat
    BY <2>1, <2>2
  <2>4. PatientNode(e, node[e])
    BY PatientNodes
  <2> QED
    BY <2>1, <2>3, <2>4, Timers DEF PatientNode
<1>2. ASSUME Quiet PROVE Quiet'
  <2>1. ASSUME NEW c \in net' PROVE c.left <= MaxDelay
    <3>1. PICK d \in net : c = [d EXCEPT !.left = @ - 1]
      BY Ticks
    <3>2. c.left = d.left - 1 /\ d.left <= MaxDelay /\ d.left \in Nat
      BY <1>2, <3>1, Ages, Sizes
    <3> QED
      BY <3>2 DEF ConstantsAssumption
  <2>2. \A e \in Endpoints : node'[e].phase # "ended"
    BY <1>1, <1>2 DEF Quiet
  <2> QED
    BY <2>1, <2>2 DEF Quiet
<1> QED
  BY <1>1, <1>2, PatientNext

LEMMA StutterSettling ==
  ASSUME Settling, UNCHANGED vars
  PROVE  Settling'
<1>1. node' = node /\ net' = net /\ calm' = calm
  BY DEF vars
<1>2. Client' = Client /\ Server' = Server
  BY <1>1 DEF Client, Server
<1>3. ToClient' = ToClient /\ Hellos' = Hellos /\ Strays' = Strays
  BY <1>1 DEF ToClient, Hellos, Strays
<1>4. Patient' /\ (Quiet' <=> Quiet)
  BY <1>1 DEF Settling, Patient, Quiet
<1>5. ASSUME Recovering PROVE Recovering'
  <2>1. ServerSilent' /\ ClientSilent'
    BY <1>1, <1>2, <1>3, <1>5 DEF Recovering, ServerSilent, ClientSilent
  <2>2. HellosCurrent' /\ AnswersCurrent'
    BY <1>1, <1>2, <1>3, <1>5
    DEF Recovering, HellosCurrent, AnswersCurrent, Current
  <2>3. (Connected' <=> Connected) /\ \A e : Orphan(e)' <=> Orphan(e)
    BY <1>1 DEF Connected, Orphan
  <2>4. Pending => Pending'
    BY <1>1, <1>2, <1>3 DEF Pending, Answering
  <2>5. ClientOrphan' /\ ServerOrphan'
    BY <1>2, <1>5, <2>3, <2>4 DEF Recovering, ClientOrphan, ServerOrphan
  <2>6. NextHello' = NextHello /\ RoundLeft' = RoundLeft
    BY <1>2 DEF NextHello, RoundLeft
  <2>7. /\ HelloIsNear => HelloIsNear'
        /\ HelloOnItsWay => HelloOnItsWay'
        /\ RoundIsNear => RoundIsNear'
    BY <1>1, <1>2, <1>3, <2>6
    DEF HelloIsNear, HelloOnItsWay, RoundIsNear, Current
  <2>8. HelloMeetsRound => HelloMeetsRound'
    BY <1>1, <1>2, <1>3, <2>6, HelloMeetsRoundSame DEF HelloMeetsRound
  <2>9. Approaching'
    BY <1>2, <1>5, <2>7, <2>8 DEF Recovering, Approaching
  <2> QED
    BY <2>1, <2>2, <2>5, <2>9 DEF Recovering
<1> QED
  BY <1>1, <1>4, <1>5 DEF Settling

LEMMA SettlingInvariance ==
  ASSUME WideTimers, IInv, IInv', Settling, [Next]_vars
  PROVE  Settling'
<1>1. TypeOK /\ TypeOK' /\ NetIsFinite /\ Patient /\ calm \in Nat
  BY Sizes DEF IInv, Settling
<1>2. ASSUME Patient', calm' = 0 PROVE Settling'
  <2>1. Quiet' => Runs'
    BY <1>2 DEF Runs, WideTimers
  <2> QED
    BY <1>2, <2>1, RecoversFromNow DEF Settling
<1>3. ASSUME Patient', Quiet, Quiet', Recovering' PROVE Settling'
  BY <1>3 DEF Settling
<1>4. ~ Quiet => calm = 0
  BY <1>1 DEF Settling
<1>5. Quiet => Runs /\ Recovering
  BY DEF Runs, Settling
<1>6. ASSUME NEW e \in Endpoints, Step(e) PROVE Settling'
  <2> PICK read, out : Exchanges(e, read, out) /\ Kinds(e, read, out)
    BY <1>1, <1>6, StepKinds
  <2>1. Patient' /\ (Quiet => Quiet')
    BY <1>1, StepPatient
  <2>2. CASE Quiet
    <3>1. Runs /\ Runs' /\ Recovering
      BY <1>5, <2>1, <2>2 DEF Runs, WideTimers
    <3>2. e = "client" \/ e = "server"
      BY DEF Endpoints
    <3>3. Recovering'
      BY <3>1, <3>2, ServerRecovering, ClientRecovering
    <3> QED
      BY <1>3, <2>1, <2>2, <3>3
  <2>3. CASE ~ Quiet
    BY <1>2, <1>4, <2>1, <2>3 DEF Exchanges
  <2> QED
    BY <2>2, <2>3
<1>7. ASSUME NEW e \in Endpoints, Fail(e) \/ End(e) \/ Launch(e) PROVE Settling'
  <2>1. Patient'
    BY <1>1, <1>7, FaultPatient
  <2>2. calm' = 0
    BY <1>4, <1>7 DEF Fail, End, Launch, Fault, Quiet
  <2> QED
    BY <1>2, <2>1, <2>2
<1>8. CASE Lose \/ Late \/ Duplicate
  <2>1. Fault /\ node' = node
    BY <1>1, <1>8, NetFaults
  <2>2. Patient' /\ calm' = 0
    BY <1>1, <2>1, FaultPatient DEF Fault
  <2> QED
    BY <1>2, <2>2
<1>9. CASE Tick
  <2>1. Patient' /\ (Quiet => Quiet')
    BY <1>1, <1>9, TickPatient
  <2>2. CASE Quiet
    BY <1>3, <1>5, <1>9, <2>1, <2>2, TickRecovering
  <2>3. CASE ~ Quiet
    BY <1>1, <1>2, <1>9, <2>1, <2>3, Ticks
  <2> QED
    BY <2>2, <2>3
<1> QED
  BY <1>6, <1>7, <1>8, <1>9, StutterSettling DEF Next

LEMMA InitSettling == Init => Settling
<1> SUFFICES ASSUME Init PROVE Settling
  OBVIOUS
<1>1. \A e \in Endpoints : node[e].phase = "ended" /\ node[e].wait = 0
  BY DEF Init, Gone
<1>2. ~ Quiet
  BY <1>1, TheEnds DEF Quiet
<1>3. ~ (calm > 0)
  BY DEF Init
<1> QED
  BY <1>1, <1>2, <1>3 DEF Settling, Patient

LEMMA SettlingRecovers ==
  ASSUME IInv, WideTimers, Settling, calm > Deadline
  PROVE  Connected
<1>1. Deadline \in Nat /\ calm \in Nat
  BY DeadlineIsNat, Sizes DEF IInv
<1>2. Runs /\ Recovering
  BY <1>1 DEF Settling, Runs
<1>3. /\ OrphansOver <= Deadline
      /\ OrphansOver + Hc + Rc <= Deadline
      /\ OrphansOver + HelloComes + Rs <= Deadline
      /\ OrphansOver + HelloComes <= Deadline
  BY Wide
<1>4. /\ calm \in Nat /\ Client.wait \in Nat /\ Server.wait \in Nat
      /\ NextHello \in Nat /\ MaxDelay \in Nat
      /\ OrphansOver \in Nat /\ HelloComes \in Nat /\ Hc \in Nat /\ Rc \in Nat
      /\ Rs \in Nat
      /\ \A d \in net : d.left \in Nat
  BY <1>2, RunsNumbers, RunsTypes, Sizes
<1>5. SUFFICES ASSUME ~ Connected PROVE FALSE
  OBVIOUS
<1>6. ~ Orphan("client") /\ ~ Orphan("server")
  BY <1>1, <1>3, <1>4 DEF Orphan, Client, Server
<1>7. ~ Pending
  BY <1>1, <1>4 DEF Pending, Answering, ToClient
<1>8. Client.phase # "engine" /\ Server.phase # "engine"
  BY <1>2, <1>5, <1>6, <1>7 DEF Recovering, ClientOrphan, ServerOrphan
<1>9. ~ HelloIsNear
  BY <1>1, <1>3, <1>4 DEF HelloIsNear
<1>10. ~ HelloOnItsWay
  BY <1>1, <1>3, <1>4 DEF HelloOnItsWay, Hellos
<1>11. ~ RoundIsNear
  BY <1>1, <1>3, <1>4 DEF RoundIsNear
<1>12. ~ HelloMeetsRound
  BY <1>1, <1>4 DEF HelloMeetsRound, Hellos
<1> QED
  BY <1>2, <1>8, <1>9, <1>10, <1>11, <1>12 DEF Recovering, Approaching

(***************************************************************************)
(* Whatever has gone wrong, the ends have a common session again before    *)
(* the deadline: the sessions that one end alone has run out, and with     *)
(* timers as wide as WideTimers says the client's next hello, or the one   *)
(* after it, finds the server in its handshake with its attempts left.     *)
(***************************************************************************)
THEOREM RecoveryInTime == Spec => []RecoveredInTime
<1> DEFINE Inv == IInv /\ (WideTimers => Settling)
<1>1. Init => Inv
  BY InitInv, InitSettling
<1>2. Inv /\ [Next]_vars => Inv'
  <2> SUFFICES ASSUME Inv, [Next]_vars PROVE Inv'
    OBVIOUS
  <2>1. IInv'
    BY IInvInvariance
  <2>2. WideTimers' <=> WideTimers
    BY DEF WideTimers
  <2> QED
    BY <2>1, <2>2, SettlingInvariance
<1>3. Inv => RecoveredInTime
  BY SettlingRecovers DEF RecoveredInTime
<1> QED
  BY <1>1, <1>2, <1>3, PTL DEF Spec
=============================================================================
