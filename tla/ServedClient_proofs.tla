-------------------------- MODULE ServedClient_proofs --------------------------
(***************************************************************************)
(* Proofs about a client of the multi-client server, for all intervals,    *)
(* delays and sizes.  An iteration of the server is a Step as              *)
(* TunnelEngine_proofs defines it, although it reads other packets than a  *)
(* TunnelEngine does; so what that module proves of Steps holds here too.  *)
(***************************************************************************)
EXTENDS ServedClient, TunnelEngine_proofs

USE ConstantsAssumption

Client == "client"
Server == "server"

LEMMA TheEnds ==
  /\ Client \in Endpoints /\ Server \in Endpoints /\ Client # Server
  /\ Peer(Client) = Server /\ Peer(Server) = Client
  /\ \A e \in Endpoints : e = Client \/ e = Server
BY DEF Client, Server, Endpoints, Peer

(***************************************************************************)
(* The server's iteration                                                  *)
(***************************************************************************)

\* Its clocks stand still: nobody reads them.
ServerStill == engine[Server].quiet = 0

\* What handle_udp_packet does to the session.
LEMMA HandleUdpEffect ==
  ASSUME NEW t \in Turn, Running(t), t.wrote = {}, t.engine.quiet = 0,
         NEW d, d.seq \in 0 .. MaxSequence, NEW fault,
         NEW u, u = HandleUdp(t, d, fault)
  PROVE  /\ u \in Turn /\ u.out = t.out
         /\ u.engine.seq = t.engine.seq /\ u.engine.due = t.engine.due
         /\ u.engine.status \in Errors \cup {"running"}
         /\ Takes(t.engine, u, d) \/ Leaves(t.engine, u)
<1>0. t.engine.status = "running"
  BY DEF Running
<1>1. CASE d.kind # "peer" \/ d.type # "DATA" \/ IsReplay(t.engine.window, d.seq)
  BY <1>0, <1>1 DEF HandleUdp, Leaves
<1>2. CASE ~ (d.kind # "peer" \/ d.type # "DATA" \/ IsReplay(t.engine.window, d.seq))
  <2> DEFINE v == [t EXCEPT !.engine.window = MarkAuthenticated(@, d.seq)]
  <2>1. u = WriteTun(v, d.seq, fault)
    BY <1>2 DEF HandleUdp
  <2>2. MarkAuthenticated(t.engine.window, d.seq) \in Window
    BY <1>2, MarkType DEF Turn, Engine
  <2>3. /\ v \in Turn /\ v.out = t.out /\ v.wrote = {}
        /\ v.engine.window = MarkAuthenticated(t.engine.window, d.seq)
        /\ v.engine.quiet = 0 /\ v.engine.seq = t.engine.seq
        /\ v.engine.due = t.engine.due /\ v.engine.status = "running"
    BY <1>0, <2>2 DEF Turn, Engine
  <2> HIDE DEF v
  <2>4. /\ u \in Turn /\ u.out = v.out
        /\ u.engine = [v.engine EXCEPT !.status = u.engine.status]
        /\ u.engine.status \in {v.engine.status, "os_error"}
        /\ \/ u.wrote = v.wrote \cup {d.seq}
           \/ u.wrote = v.wrote /\ u.engine.status = "os_error"
    BY <2>1, <2>3, WriteEffect
  <2>5. /\ u.engine.window = v.engine.window /\ u.engine.quiet = v.engine.quiet
        /\ u.engine.seq = v.engine.seq /\ u.engine.due = v.engine.due
    BY <2>3, <2>4 DEF Turn, Engine
  <2>6. Takes(t.engine, u, d)
    BY <1>2, <2>3, <2>4, <2>5, ServedAssumption DEF Takes
  <2> QED BY <2>3, <2>4, <2>5, <2>6 DEF Errors
<1> QED BY <1>1, <1>2

\* What an iteration of the server changes: it is like one of a TunnelEngine
\* without timers, and a packet from TUN leaves unless the server ends.
LEMMA ServerIterationEffect ==
  ASSUME engine[Server] \in Engine, engine[Server].status = "running", ServerStill,
         NEW size, NEW fault, NEW d, d.seq \in 0 .. MaxSequence,
         NEW t, t = ServerIteration(size, d, fault)
  PROVE  /\ t \in Turn
         /\ Sends(engine[Server], t)
         /\ Takes(engine[Server], t, d) \/ Leaves(engine[Server], t)
         /\ Timed(engine[Server], t, Server)
         /\ size # 0 /\ Running(t) => t.out # {}
<1> DEFINE g == engine[Server]
           t0 == [engine |-> g, out |-> {}, wrote |-> {}]
           t1 == IF size = 0 THEN t0 ELSE HandleTun(t0, size, fault)
<1>0. t = IF Running(t1) THEN HandleUdp(t1, d, fault) ELSE t1
  BY DEF ServerIteration, Server
<1>1. /\ t1 \in Turn /\ t1.wrote = {} /\ Sends(g, t1)
      /\ t1.engine.window = g.window /\ t1.engine.quiet = 0 /\ t1.engine.due = g.due
      /\ t1.engine.status \in Errors \cup {"running"}
      /\ size # 0 /\ Running(t1) => t1.out # {}
  <2>1. t0 \in Turn /\ Running(t0) /\ t0.engine = g /\ t0.out = {} /\ t0.wrote = {}
    BY DEF Turn, Running
  <2>2. CASE size = 0
    <3>1. t1 = t0
      BY <2>2
    <3> HIDE DEF t0, t1
    <3>2. Sends(g, t1)
      BY <2>1, <3>1 DEF Sends, Engine
    <3> QED BY <2>1, <2>2, <3>1, <3>2 DEF ServerStill
  <2>3. CASE size # 0
    <3>1. t1 = SendPacket(t0, "DATA", size, fault)
      BY <2>3 DEF HandleTun
    <3> HIDE DEF t0, t1
    <3>2. /\ t1 \in Turn /\ t1.wrote = t0.wrote
          /\ t1.engine.window = t0.engine.window
          /\ t1.engine.quiet = t0.engine.quiet /\ t1.engine.due = t0.engine.due
          /\ \/ /\ t1.engine.status \in {"overflow", "value_error", "os_error"}
                /\ t1.engine.seq = t0.engine.seq /\ t1.out = t0.out
             \/ /\ t1.engine.status = t0.engine.status
                /\ t0.engine.seq <= MaxSequence
                /\ t1.engine.seq = t0.engine.seq + 1
                /\ t1.out = t0.out \cup {[seq |-> t0.engine.seq, type |-> "DATA"]}
      BY <2>1, <3>1, SendEffect
    <3>3. Sends(g, t1)
      BY <2>1, <3>2 DEF Sends, Engine
    <3>4. t1.engine.status \in Errors \cup {"running"} /\ (Running(t1) => t1.out # {})
      BY <2>1, <3>2 DEF Errors, Running
    <3> QED BY <2>1, <3>2, <3>3, <3>4 DEF ServerStill
  <2> QED BY <2>2, <2>3
<1> HIDE DEF t1
<1>2. CASE ~ Running(t1)
  BY <1>0, <1>1, <1>2 DEF Leaves, Timed, ServerStill, Running, Errors
<1>3. CASE Running(t1)
  <2>1. t = HandleUdp(t1, d, fault)
    BY <1>0, <1>3
  <2>2. /\ t \in Turn /\ t.out = t1.out
        /\ t.engine.seq = t1.engine.seq /\ t.engine.due = t1.engine.due
        /\ t.engine.status \in Errors \cup {"running"}
        /\ Takes(t1.engine, t, d) \/ Leaves(t1.engine, t)
    BY <1>1, <1>3, <2>1, HandleUdpEffect
  <2>3. Sends(g, t)
    BY <1>1, <2>2 DEF Sends
  <2>4. Takes(g, t, d) \/ Leaves(g, t)
    BY <1>1, <2>2 DEF Takes, Leaves, ServerStill
  <2>5. Timed(g, t, Server)
    BY <1>1, <2>2 DEF Timed
  <2> QED BY <1>1, <1>3, <2>2, <2>3, <2>4, <2>5
<1> QED BY <1>2, <1>3

LEMMA ServeOnceStep ==
  ASSUME TypeOK, ServerStill, NEW size, NEW d \in Datagrams(Server), NEW fault,
         ServeOnce(size, d, fault)
  PROVE  \E t : /\ Step(Server, d, t)
                /\ size # 0 /\ Running(t) => t.out # {}
<1> DEFINE t == ServerIteration(size, d, fault)
           read == IF d.kind = "peer" THEN {o \in owed[Server] : o.seq = d.seq} ELSE {}
<1>1. /\ engine[Server].status = "running"
      /\ engine' = [engine EXCEPT ![Server] = t.engine]
      /\ sent' = [sent EXCEPT ![Server] = @ \cup t.out]
      /\ owed' = [owed EXCEPT ![Server] = @ \ read, ![Client] = @ \cup Promised(t.out)]
      /\ delivered' = [delivered EXCEPT ![Server] =
           [n \in 0 .. MaxSequence |-> IF n \in t.wrote THEN Once(@[n]) ELSE @[n]]]
      /\ UNCHANGED startLeft
  BY DEF ServeOnce, Server, Client
<1>2. engine[Server] \in Engine /\ d.seq \in 0 .. MaxSequence
  BY TheEnds, DatagramFacts DEF TypeOK
<1>3. /\ t \in Turn /\ Sends(engine[Server], t)
      /\ Takes(engine[Server], t, d) \/ Leaves(engine[Server], t)
      /\ Timed(engine[Server], t, Server)
      /\ size # 0 /\ Running(t) => t.out # {}
  BY <1>1, <1>2, ServerIterationEffect
<1>4. read \in SUBSET owed[Server] /\ \A o \in read : d.kind = "peer" /\ o.seq = d.seq
  OBVIOUS
<1> HIDE DEF t, read
<1>5. Step(Server, d, t)
  BY <1>1, <1>3, <1>4, TheEnds DEF Step
<1> QED BY <1>3, <1>5

(***************************************************************************)
(* The invariant                                                           *)
(***************************************************************************)

\* The client's engine is built after the server's session.
ServerFirst ==
  engine[Client].status \notin {"starting", "stopped"} => engine[Server].status # "starting"

\* While the server lives, the client's silence is the TUN's: or else a packet
\* newer than all the client has accepted is on its way and will be in time.
HearsTraffic ==
  \/ engine[Client].quiet <= silence
  \/ \E o \in owed[Client] : /\ o.seq > engine[Client].window.highest
                             /\ engine[Client].quiet + o.left <= TrafficGap + MaxDelay

WideGap == ~ Lossy /\ TrafficGap + MaxDelay < LivenessTimeout[Client]

TrafficHeard ==
  WideGap /\ Alive(Server) =>
    /\ engine[Client].status # "timed_out"
    /\ engine[Client].status = "running" => HearsTraffic

SInv ==
  /\ IInv
  /\ ServerStill
  /\ ServerFirst
  /\ silence \in 0 .. TrafficGap
  /\ TrafficHeard

LEMMA SInvInit == ServedInit => SInv
<1> SUFFICES ASSUME ServedInit PROVE SInv
  OBVIOUS
<1>1. IInv /\ silence \in 0 .. TrafficGap
  BY IInvInit, ServedAssumption DEF ServedInit
<1>2. /\ engine[Client].status = "starting" /\ engine[Server].quiet = 0
  BY TheEnds DEF ServedInit, Init, NewEngine
<1> QED BY <1>1, <1>2 DEF SInv, ServerStill, ServerFirst, TrafficHeard

\* The parts of TunnelEngine's invariant, under the server's Steps as well.
LEMMA StepIInv ==
  ASSUME IInv, NEW e \in Endpoints, NEW d \in Datagrams(e), NEW t, Step(e, d, t)
  PROVE  IInv'
<1>1. TypeOK /\ FromPeer(e, d)
  BY DatagramFacts DEF IInv, FromPeer
<1>2. TypeOK' /\ NoncesAreFresh' /\ OnlyPeerData' /\ Unstarted'
  BY <1>1, TypeStep, StepNonces, StepPeerData, StepUnstarted
<1>3. WrittenIsMarked' /\ WindowBehindSender'
  BY <1>1, StepWritten, StepWindow
<1> QED BY <1>2, <1>3 DEF IInv

\* The server's iteration: a packet from its TUN is one the client will hear.
LEMMA ServeOnceKeeps ==
  ASSUME SInv, NEW size \in TunSizes \cup {0}, NEW d \in Datagrams(Server),
         NEW fault \in FaultKinds, ServeOnce(size, d, fault)
  PROVE  SInv'
<1>1. IInv /\ TypeOK /\ ServerStill
  BY DEF SInv, IInv
<1>2. PICK t : /\ Step(Server, d, t)
               /\ size # 0 /\ Running(t) => t.out # {}
  BY <1>1, ServeOnceStep
<1>3. IInv'
  BY <1>1, <1>2, StepIInv, TheEnds
<1>4. /\ engine'[Server] = t.engine /\ engine'[Client] = engine[Client]
      /\ owed'[Client] = owed[Client] \cup Promised(t.out)
  BY <1>1, <1>2, StepEntries, TheEnds
<1>5. engine[Server].status = "running" /\ t.engine.status \in Errors \cup {"running", "timed_out"}
  BY <1>2 DEF Step, Timed
<1>6. ServerStill'
  BY <1>1, <1>2, <1>4 DEF Step, Takes, Leaves, ServerStill
<1>7. ServerFirst'
  BY <1>4, <1>5 DEF ServerFirst, Errors
<1>8. silence' = (IF size = 0 THEN silence ELSE 0) /\ silence' \in 0 .. TrafficGap
  BY ServedAssumption DEF ServeOnce, SInv
<1>9. TrafficHeard'
  <2> SUFFICES ASSUME WideGap, Alive(Server)'
               PROVE  /\ engine'[Client].status # "timed_out"
                      /\ engine'[Client].status = "running" => HearsTraffic'
    BY DEF TrafficHeard, WideGap
  <2>1. Running(t)
    BY <1>4, <1>5 DEF Alive, Errors, Running
  <2>2. /\ engine[Client].status # "timed_out"
        /\ engine[Client].status = "running" => HearsTraffic
    BY <1>5 DEF SInv, TrafficHeard, Alive
  <2>3. SUFFICES ASSUME HearsTraffic PROVE HearsTraffic'
    BY <1>4, <2>2
  <2>4. /\ engine[Client].quiet \in Nat /\ engine[Client].window.highest \in Int
        /\ engine[Server].seq \in Nat
    BY <1>1, TimerTypes, TheEnds
  <2>5. CASE \E o \in owed[Client] : /\ o.seq > engine[Client].window.highest
                                     /\ engine[Client].quiet + o.left <= TrafficGap + MaxDelay
    BY <1>4, <2>5 DEF HearsTraffic
  <2>6. CASE engine[Client].quiet <= silence /\ size = 0
    BY <1>4, <1>8, <2>6 DEF HearsTraffic
  <2>7. CASE engine[Client].quiet <= silence /\ size # 0
    <3>1. PICK p \in t.out : TRUE
      BY <1>2, <2>1, <2>7
    <3>2. p.seq \in Nat /\ engine[Server].seq <= p.seq
      BY <1>2 DEF Step, Sends, Turn, Packet
    <3>3. engine[Client].window.highest < engine[Server].seq
      BY <1>1, TheEnds DEF IInv, WindowBehindSender
    <3> DEFINE o == [seq |-> p.seq, left |-> MaxDelay]
    <3>4. o \in owed'[Client]
      BY <1>4, <3>1 DEF Promised, WideGap
    <3>5. engine[Client].quiet <= TrafficGap
      BY <2>4, <2>7, ServedAssumption DEF SInv
    <3>6. /\ o.seq > engine'[Client].window.highest
          /\ engine'[Client].quiet + o.left <= TrafficGap + MaxDelay
      BY <1>4, <2>4, <3>2, <3>3, <3>5, ServedAssumption
    <3> HIDE DEF o
    <3> QED BY <3>4, <3>6 DEF HearsTraffic
  <2> QED BY <2>3, <2>5, <2>6, <2>7 DEF HearsTraffic
<1> QED BY <1>3, <1>6, <1>7, <1>8, <1>9 DEF SInv

\* The client's iteration: what it takes ends its silence, and what it leaves
\* alone is older than the packet that will.
LEMMA ClientKeeps ==
  ASSUME SInv, NEW size \in TunSizes \cup {0}, NEW d \in Datagrams(Client),
         NEW fault \in FaultKinds, RunOnce(Client, size, d, fault), UNCHANGED silence
  PROVE  SInv'
<1>1. IInv /\ TypeOK
  BY DEF SInv, IInv
<1>2. PICK t : Step(Client, d, t) /\ Listens(Client, d, t)
  BY <1>1, RunOnceStep, TheEnds
<1>3. IInv'
  BY <1>1, <1>2, StepIInv, TheEnds
<1>4. /\ engine'[Client] = t.engine /\ engine'[Server] = engine[Server]
      /\ \A o \in owed[Client] : o \in owed'[Client] \/ (d.kind = "peer" /\ o.seq = d.seq)
  BY <1>1, <1>2, StepEntries, TheEnds
<1>5. engine[Client].status = "running"
  BY <1>2 DEF Step
<1>6. ServerStill' /\ ServerFirst'
  BY <1>4, <1>5 DEF SInv, ServerStill, ServerFirst
<1>7. TrafficHeard'
  <2> SUFFICES ASSUME WideGap, Alive(Server)'
               PROVE  /\ t.engine.status # "timed_out"
                      /\ t.engine.status = "running" => HearsTraffic'
    BY <1>4 DEF TrafficHeard, WideGap
  <2>1. HearsTraffic
    BY <1>4, <1>5 DEF SInv, TrafficHeard, Alive
  <2>2. /\ engine[Client].quiet \in Nat /\ engine[Client].window \in Window
        /\ \A o \in owed[Client] : o.left \in 0 .. MaxDelay /\ o.seq \in 0 .. MaxSequence
        /\ LivenessTimeout[Client] \in Nat
    BY <1>1, TimerTypes, TheEnds
  <2>3. engine[Client].quiet <= TrafficGap + MaxDelay
    BY <2>1, <2>2, ServedAssumption DEF HearsTraffic, SInv
  <2>4. t.engine.quiet \in {0, engine[Client].quiet}
    BY <1>2, ServedAssumption DEF Step, Takes, Leaves
  <2>5. t.engine.status # "timed_out"
    BY <1>2, <2>2, <2>3, <2>4, ServedAssumption DEF Step, Timed, Errors, WideGap
  <2>6. CASE Takes(engine[Client], t, d)
    <3>1. engine'[Client].quiet = 0
      BY <1>4, <2>6, ServedAssumption DEF Takes
    <3>2. silence' \in Nat
      BY ServedAssumption DEF SInv
    <3> QED BY <2>5, <3>1, <3>2 DEF HearsTraffic
  <2>7. CASE ~ Takes(engine[Client], t, d) /\ t.engine.status = "running"
    <3>1. /\ engine'[Client].quiet = engine[Client].quiet
          /\ engine'[Client].window = engine[Client].window
          /\ d.kind = "peer" => IsReplay(engine[Client].window, d.seq)
      BY <1>2, <1>4, <2>7 DEF Step, Leaves, Listens, Errors
    <3>2. FromPeer(Client, d)
      BY <1>1, DatagramFacts, TheEnds DEF FromPeer
    <3>3. ASSUME NEW o \in owed[Client], o.seq > engine[Client].window.highest
          PROVE  o \in owed'[Client]
      <4>1. d.kind = "peer" => d.seq <= engine[Client].window.highest
        BY <2>2, <3>1, <3>2, HighestFacts DEF FromPeer
      <4>2. d.kind = "peer" => o.seq # d.seq
        BY <2>2, <3>2, <3>3, <4>1 DEF Window, FromPeer
      <4> QED BY <1>4, <4>2
    <3> QED BY <2>1, <2>5, <3>1, <3>3 DEF HearsTraffic
  <2> QED BY <2>5, <2>6, <2>7
<1> QED BY <1>3, <1>6, <1>7 DEF SInv

\* One tick: the client's silence and that of the TUN grow together.
LEMMA PassKeeps ==
  ASSUME SInv, Pass
  PROVE  SInv'
<1>1. IInv /\ TypeOK /\ Tick
  BY DEF SInv, IInv, Pass
<1>2. IInv'
  BY <1>1, IInvNext DEF Next
<1>3. /\ engine'[Client] = Clock(Client) /\ engine'[Server] = Clock(Server)
      /\ Prompt(Client)
      /\ owed'[Client] = {[o EXCEPT !.left = Less(@)] : o \in owed[Client]}
  BY <1>1, TheEnds DEF Tick
<1>4. TimersOn(Client) /\ ~ TimersOn(Server)
  BY ServedAssumption DEF TimersOn, Client, Server
<1>5. /\ engine'[Server] = engine[Server]
      /\ engine'[Client].status = engine[Client].status
      /\ engine'[Client].window = engine[Client].window
      /\ engine[Client].status = "running" => engine'[Client].quiet = engine[Client].quiet + 1
  BY <1>1, <1>3, <1>4, TheEnds DEF Clock, TypeOK, Engine
<1>6. ServerStill' /\ ServerFirst'
  BY <1>5 DEF SInv, ServerStill, ServerFirst
<1>7. /\ silence' \in 0 .. TrafficGap
      /\ engine[Server].status = "running" => silence' = silence + 1
  BY ServedAssumption DEF SInv, Pass, Server
<1>8. TrafficHeard'
  <2> SUFFICES ASSUME WideGap, Alive(Server)
               PROVE  /\ engine'[Client].status # "timed_out"
                      /\ engine'[Client].status = "running" => HearsTraffic'
    BY <1>5 DEF TrafficHeard, WideGap, Alive
  <2>1. engine'[Client].status # "timed_out"
    BY <1>5 DEF SInv, TrafficHeard
  <2>2. ASSUME engine[Client].status = "running" PROVE HearsTraffic'
    <3>1. HearsTraffic /\ engine[Server].status = "running"
      BY <2>2 DEF SInv, TrafficHeard, ServerFirst, Alive
    <3>2. /\ engine[Client].quiet \in Nat
          /\ \A o \in owed[Client] : o.left \in 0 .. MaxDelay
          /\ silence \in Nat
      BY <1>1, TimerTypes, TheEnds, ServedAssumption DEF SInv
    <3>3. CASE engine[Client].quiet <= silence
      BY <1>5, <1>7, <2>2, <3>1, <3>2, <3>3 DEF HearsTraffic
    <3>4. CASE \E o \in owed[Client] : /\ o.seq > engine[Client].window.highest
                                       /\ engine[Client].quiet + o.left <= TrafficGap + MaxDelay
      <4>1. PICK o \in owed[Client] : /\ o.seq > engine[Client].window.highest
                                      /\ engine[Client].quiet + o.left <= TrafficGap + MaxDelay
        BY <3>4
      <4>2. o.left > 0
        BY <1>3, <2>2 DEF Prompt
      <4> DEFINE q == [o EXCEPT !.left = Less(@)]
      <4>3. q \in owed'[Client]
        BY <1>3
      <4>4. o \in [seq : 0 .. MaxSequence, left : 0 .. MaxDelay]
        BY <1>1, TheEnds DEF TypeOK
      <4>5. q.seq = o.seq /\ q.left = o.left - 1
        BY <4>2, <4>4 DEF Less
      <4> HIDE DEF q
      <4>6. /\ q.seq > engine'[Client].window.highest
            /\ engine'[Client].quiet + q.left <= TrafficGap + MaxDelay
        BY <1>5, <2>2, <3>2, <4>1, <4>5, ServedAssumption
      <4> QED BY <4>3, <4>6 DEF HearsTraffic
    <3> QED BY <3>1, <3>3, <3>4 DEF HearsTraffic
  <2> QED BY <1>5, <2>1, <2>2
<1> QED BY <1>2, <1>6, <1>7, <1>8 DEF SInv

LEMMA StartKeeps ==
  ASSUME SInv, NEW e \in Endpoints, Start(e), UNCHANGED silence,
         e = Client => engine[Server].status # "starting"
  PROVE  SInv'
<1>1. IInv /\ TypeOK
  BY DEF SInv, IInv
<1>2. IInv'
  BY <1>1, IInvNext DEF Next
<1>3. engine' = [engine EXCEPT ![e] = NewEngine(e, "running")] /\ engine[e].status = "starting"
  BY DEF Start
<1>4. CASE e = Client
  <2>1. /\ engine'[Client].status = "running" /\ engine'[Client].quiet = 0
        /\ engine'[Server] = engine[Server]
    BY <1>1, <1>3, <1>4, TheEnds DEF NewEngine, TypeOK
  <2>2. silence' \in Nat /\ silence' \in 0 .. TrafficGap
    BY ServedAssumption DEF SInv
  <2>3. ServerStill' /\ ServerFirst' /\ TrafficHeard'
    BY <1>4, <2>1, <2>2 DEF SInv, ServerStill, ServerFirst, TrafficHeard, HearsTraffic
  <2> QED BY <1>2, <2>2, <2>3 DEF SInv
<1>5. CASE e = Server
  <2>1. /\ engine'[Server].status = "running" /\ engine'[Server].quiet = 0
        /\ engine'[Client] = engine[Client]
    BY <1>1, <1>3, <1>5, TheEnds DEF NewEngine, TypeOK
  <2>2. engine[Client].status \in {"starting", "stopped"}
    BY <1>3, <1>5 DEF SInv, ServerFirst
  <2>3. ServerStill' /\ ServerFirst' /\ TrafficHeard'
    BY <2>1, <2>2 DEF ServerStill, ServerFirst, TrafficHeard
  <2> QED BY <1>2, <2>3 DEF SInv
<1> QED BY <1>4, <1>5, TheEnds

LEMMA StopKeeps ==
  ASSUME SInv, NEW e \in Endpoints, Stop(e), UNCHANGED silence
  PROVE  SInv'
<1>1. IInv /\ TypeOK
  BY DEF SInv, IInv
<1>2. IInv'
  BY <1>1, IInvNext DEF Next
<1>3. engine' = [engine EXCEPT ![e] = [engine[e] EXCEPT !.status = "stopped"]]
  BY DEF Stop
<1>4. CASE e = Client
  <2>1. engine'[Client].status = "stopped" /\ engine'[Server] = engine[Server]
    BY <1>1, <1>3, <1>4, TheEnds DEF TypeOK, Engine
  <2>2. ServerStill' /\ ServerFirst' /\ TrafficHeard'
    BY <2>1 DEF SInv, ServerStill, ServerFirst, TrafficHeard
  <2> QED BY <1>2, <2>2 DEF SInv
<1>5. CASE e = Server
  <2>1. /\ engine'[Server].status = "stopped" /\ engine'[Server].quiet = engine[Server].quiet
        /\ engine'[Client] = engine[Client]
    BY <1>1, <1>3, <1>5, TheEnds DEF TypeOK, Engine
  <2>2. ServerStill' /\ ServerFirst' /\ TrafficHeard'
    BY <2>1 DEF SInv, ServerStill, ServerFirst, TrafficHeard, Alive
  <2> QED BY <1>2, <2>2 DEF SInv
<1> QED BY <1>4, <1>5, TheEnds

LEMMA SInvNext == SInv /\ [ServedNext]_servedVars => SInv'
<1> SUFFICES ASSUME SInv, [ServedNext]_servedVars PROVE SInv'
  OBVIOUS
<1>1. CASE UNCHANGED servedVars
  <2>1. IInv'
    BY <1>1, IInvNext DEF servedVars, SInv
  <2> QED
    BY <1>1, <2>1
       DEF servedVars, vars, SInv, ServerStill, ServerFirst, TrafficHeard, HearsTraffic, Alive
<1>2. CASE Start(Server) /\ UNCHANGED silence
  BY <1>2, StartKeeps, TheEnds
<1>3. CASE engine[Server].status # "starting" /\ Start(Client) /\ UNCHANGED silence
  BY <1>3, StartKeeps, TheEnds
<1>4. ASSUME NEW e \in Endpoints, Stop(e), UNCHANGED silence PROVE SInv'
  BY <1>4, StopKeeps
<1>5. ASSUME NEW size \in TunSizes \cup {0}, NEW d \in Datagrams(Client), NEW fault \in FaultKinds,
             RunOnce(Client, size, d, fault), UNCHANGED silence
      PROVE  SInv'
  BY <1>5, ClientKeeps
<1>6. ASSUME NEW size \in TunSizes \cup {0}, NEW d \in Datagrams(Server), NEW fault \in FaultKinds,
             ServeOnce(size, d, fault)
      PROVE  SInv'
  BY <1>6, ServeOnceKeeps
<1> QED BY <1>1, <1>2, <1>3, <1>4, <1>5, <1>6, PassKeeps DEF ServedNext, Client, Server

LEMMA ServedInvariance == ServedSpec => []SInv
BY SInvInit, SInvNext, PTL DEF ServedSpec

(***************************************************************************)
(* The theorems                                                            *)
(***************************************************************************)

\* Type correctness of the client's engine and of the server's session for it.
THEOREM ServedTypeCorrect == ServedSpec => []TypeOK
<1>1. SInv => TypeOK
  BY DEF SInv, IInv
<1> QED BY <1>1, ServedInvariance, PTL

\* The server seals no two packets for a client under one number, nor does
\* the client, whatever fails.
THEOREM ServedNonces == ServedSpec => []NoncesAreFresh
<1>1. SInv => NoncesAreFresh
  BY DEF SInv, IInv
<1> QED BY <1>1, ServedInvariance, PTL

\* Although the server drops keepalives before its window sees them, neither
\* side writes a packet to TUN twice.
THEOREM ServedAtMostOnce == ServedSpec => []AtMostOnce
<1>1. SInv => AtMostOnce
  BY DEF SInv, IInv, WrittenIsMarked, AtMostOnce
<1> QED BY <1>1, ServedInvariance, PTL

\* What either side writes to TUN the other side read from its TUN.
THEOREM ServedNothingInvented == ServedSpec => []OnlyPeerData
<1>1. SInv => OnlyPeerData
  BY DEF SInv, IInv
<1> QED BY <1>1, ServedInvariance, PTL

\* For all timers, delays and pauses: a client of a server that sends no
\* keepalives stays connected as long as the server's TUN has a packet for it
\* often enough, whatever replays and strays are mixed in.
THEOREM TrafficKeepsClientAlive == ServedSpec => []TrafficKeepsAlive
<1>1. ASSUME SInv PROVE TrafficKeepsAlive
  <2>1. /\ StartSkew \in Nat /\ TrafficGap \in Nat /\ MaxDelay \in Nat
        /\ LivenessTimeout[Client] \in Nat
    BY TheEnds, TimersAssumption, ServedAssumption
  <2>2. StartSkew + TrafficGap + MaxDelay < LivenessTimeout[Client]
          => TrafficGap + MaxDelay < LivenessTimeout[Client]
    BY <2>1
  <2> QED BY <1>1, <2>2 DEF SInv, TrafficHeard, TrafficKeepsAlive, WideGap, Client, Server
<1> QED BY <1>1, ServedInvariance, PTL
=============================================================================
