------------------------- MODULE TunnelEngine_proofs -------------------------
(***************************************************************************)
(* Proofs about TunnelEngine for every value of its constants.             *)
(*                                                                         *)
(* The first lemmas follow one iteration of run_once through its parts and *)
(* end in IterationEffect, which says all that the invariants need to know *)
(* of it.  The rest of the proofs never looks inside Iteration again.      *)
(***************************************************************************)
EXTENDS TunnelEngine, SlidingWindow_proofs

USE SizeAssumption, ConstantsAssumption

LEMMA PeerFacts ==
  ASSUME NEW e \in Endpoints
  PROVE  Peer(e) \in Endpoints /\ Peer(e) # e /\ Peer(Peer(e)) = e
BY DEF Peer, Endpoints

(***************************************************************************)
(* One iteration                                                           *)
(***************************************************************************)

\* Ending an iteration changes the status and nothing else.
LEMMA EndedEffect ==
  ASSUME NEW t \in Turn, NEW s \in Status
  PROVE  /\ Ended(t, s) \in Turn
         /\ Ended(t, s).engine = [t.engine EXCEPT !.status = s]
         /\ Ended(t, s).out = t.out /\ Ended(t, s).wrote = t.wrote
BY DEF Ended, Turn, Engine

\* _send_packet either ends the engine or sends one packet under the number
\* the engine was at.
LEMMA SendEffect ==
  ASSUME NEW t \in Turn, NEW type \in {"DATA", "KEEPALIVE"}, NEW size, NEW fault,
         NEW s, s = SendPacket(t, type, size, fault)
  PROVE  /\ s \in Turn /\ s.wrote = t.wrote
         /\ s.engine.window = t.engine.window
         /\ s.engine.quiet = t.engine.quiet /\ s.engine.due = t.engine.due
         /\ \/ /\ s.engine.status \in {"overflow", "value_error", "os_error"}
               /\ s.engine.seq = t.engine.seq /\ s.out = t.out
            \/ /\ s.engine.status = t.engine.status
               /\ t.engine.seq <= MaxSequence
               /\ s.engine.seq = t.engine.seq + 1
               /\ s.out = t.out \cup {[seq |-> t.engine.seq, type |-> type]}
<1>1. ASSUME NEW w \in {"overflow", "value_error", "os_error"}, s = Ended(t, w)
      PROVE  /\ s \in Turn /\ s.wrote = t.wrote
             /\ s.engine.window = t.engine.window
             /\ s.engine.quiet = t.engine.quiet /\ s.engine.due = t.engine.due
             /\ s.engine.status \in {"overflow", "value_error", "os_error"}
             /\ s.engine.seq = t.engine.seq /\ s.out = t.out
  <2>1. w \in Status
    BY DEF Status
  <2>2. s.engine = [t.engine EXCEPT !.status = w]
    BY <1>1, <2>1, EndedEffect
  <2>3. Ended(t, w) \in Turn /\ Ended(t, w).out = t.out /\ Ended(t, w).wrote = t.wrote
    BY <2>1, EndedEffect
  <2> QED BY <1>1, <2>2, <2>3 DEF Turn, Engine
<1>2. CASE t.engine.seq > MaxSequence
  BY <1>1, <1>2 DEF SendPacket, Exhausted
<1>3. CASE t.engine.seq <= MaxSequence /\ (size > MaxTunPacket \/ fault = "send")
  BY <1>1, <1>3 DEF SendPacket, Exhausted, Turn, Engine
<1>4. CASE t.engine.seq <= MaxSequence /\ ~ (size > MaxTunPacket) /\ fault # "send"
  <2>1. s = [t EXCEPT !.engine.seq = @ + 1,
                      !.out = @ \cup {[seq |-> t.engine.seq, type |-> type]}]
    BY <1>4 DEF SendPacket, Exhausted, Transmit, Turn, Engine
  <2>2. [seq |-> t.engine.seq, type |-> type] \in Packet
    BY <1>4 DEF Packet, Turn, Engine
  <2>3. t.engine.seq + 1 \in 0 .. MaxSequence + 1
    BY <1>4 DEF Turn, Engine
  <2>4. s.engine = [t.engine EXCEPT !.seq = @ + 1]
    BY <2>1 DEF Turn
  <2>5. s.engine \in Engine
    BY <2>3, <2>4 DEF Turn, Engine
  <2>6. /\ s.out = t.out \cup {[seq |-> t.engine.seq, type |-> type]}
        /\ s.wrote = t.wrote
    BY <2>1 DEF Turn
  <2>7. s \in Turn
    BY <2>1, <2>2, <2>5, <2>6 DEF Turn
  <2>8. /\ s.engine.status = t.engine.status /\ s.engine.seq = t.engine.seq + 1
        /\ s.engine.window = t.engine.window
        /\ s.engine.quiet = t.engine.quiet /\ s.engine.due = t.engine.due
    BY <2>4 DEF Turn, Engine
  <2> QED BY <1>4, <2>6, <2>7, <2>8
<1>5. t.engine.seq \in Nat
  BY DEF Turn, Engine
<1> QED BY <1>2, <1>3, <1>4, <1>5

\* What of an engine's fields and histories the socket's part of an iteration
\* changes: nothing, or one packet of the peer is accepted.
Ignored(t, u, d) ==
  /\ u = t
  /\ d.kind = "peer" => Encrypted /\ IsReplay(t.engine.window, d.seq)

Accepted(t, u, d) ==
  /\ d.kind = "peer"
  /\ Encrypted => /\ ~ IsReplay(t.engine.window, d.seq)
                  /\ u.engine.window = MarkAuthenticated(t.engine.window, d.seq)
                  /\ u.engine.quiet = 0
  /\ ~ Encrypted => u.engine.window = t.engine.window /\ u.engine.quiet = t.engine.quiet
  /\ u.engine.seq = t.engine.seq /\ u.engine.due = t.engine.due /\ u.out = t.out
  /\ u.engine.status \in {t.engine.status, "os_error"}
  /\ \/ u.wrote = t.wrote /\ (d.type = "DATA" => u.engine.status = "os_error")
     \/ u.wrote = t.wrote \cup {d.seq} /\ d.type = "DATA"

LEMMA WriteEffect ==
  ASSUME NEW t \in Turn, NEW n \in 0 .. MaxSequence, NEW fault,
         NEW u, u = WriteTun(t, n, fault)
  PROVE  /\ u \in Turn /\ u.out = t.out
         /\ u.engine = [t.engine EXCEPT !.status = u.engine.status]
         /\ u.engine.status \in {t.engine.status, "os_error"}
         /\ \/ u.wrote = t.wrote \cup {n}
            \/ u.wrote = t.wrote /\ u.engine.status = "os_error"
<1>1. CASE fault = "write"
  <2>1. "os_error" \in Status /\ u = Ended(t, "os_error")
    BY <1>1 DEF WriteTun, Status
  <2>2. /\ u \in Turn /\ u.out = t.out /\ u.wrote = t.wrote
        /\ u.engine = [t.engine EXCEPT !.status = "os_error"]
    BY <2>1, EndedEffect
  <2> QED BY <2>2 DEF Turn, Engine
<1>2. CASE fault # "write"
  <2>1. u = [t EXCEPT !.wrote = @ \cup {n}]
    BY <1>2 DEF WriteTun
  <2>2. u \in Turn /\ u.out = t.out /\ u.engine = t.engine /\ u.wrote = t.wrote \cup {n}
    BY <2>1 DEF Turn
  <2>3. t.engine = [t.engine EXCEPT !.status = t.engine.status]
    BY DEF Turn, Engine
  <2> QED BY <2>2, <2>3
<1> QED BY <1>1, <1>2

LEMMA ReceiveEffect ==
  ASSUME NEW t \in Turn, NEW d, d.seq \in 0 .. MaxSequence, NEW fault,
         NEW u, u = ReceiveUdp(t, d, fault)
  PROVE  u \in Turn /\ (Ignored(t, u, d) \/ Accepted(t, u, d))
<1>1. CASE d.kind # "peer" \/ (Encrypted /\ IsReplay(t.engine.window, d.seq))
  BY <1>1 DEF ReceiveUdp, Refuse, Ignored
<1>2. CASE d.kind = "peer" /\ ~ (Encrypted /\ IsReplay(t.engine.window, d.seq))
  <2> DEFINE v == IF Encrypted
                  THEN [t EXCEPT !.engine.window = MarkAuthenticated(@, d.seq),
                                 !.engine.quiet = 0]
                  ELSE t
  <2>1. u = IF d.type = "DATA" THEN WriteTun(v, d.seq, fault) ELSE v
    BY <1>2 DEF ReceiveUdp, Authenticate, HasPayload
  <2>2. Encrypted => MarkAuthenticated(t.engine.window, d.seq) \in Window
    BY <1>2, MarkType DEF Turn, Engine
  <2>3. v \in Turn
    BY <2>2 DEF Turn, Engine
  <2>4. /\ d.type # "DATA" => Accepted(t, v, d)
        /\ d.kind = "peer"
        /\ Encrypted => /\ ~ IsReplay(t.engine.window, d.seq)
                        /\ v.engine.window = MarkAuthenticated(t.engine.window, d.seq)
                        /\ v.engine.quiet = 0
        /\ ~ Encrypted => v.engine.window = t.engine.window /\ v.engine.quiet = t.engine.quiet
        /\ v.engine.seq = t.engine.seq /\ v.engine.due = t.engine.due /\ v.out = t.out
    BY <1>2, <2>2 DEF Accepted, Turn, Engine
  <2>5. CASE d.type = "DATA"
    <3>1. u = WriteTun(v, d.seq, fault)
      BY <2>1, <2>5
    <3> HIDE DEF v
    <3>2. /\ u \in Turn /\ u.out = v.out
          /\ u.engine = [v.engine EXCEPT !.status = u.engine.status]
          /\ u.engine.status \in {v.engine.status, "os_error"}
          /\ \/ u.wrote = v.wrote \cup {d.seq}
             \/ u.wrote = v.wrote /\ u.engine.status = "os_error"
      BY <2>3, <3>1, WriteEffect
    <3>3. /\ u.engine.window = v.engine.window /\ u.engine.quiet = v.engine.quiet
          /\ u.engine.seq = v.engine.seq /\ u.engine.due = v.engine.due
      BY <2>3, <3>2 DEF Turn, Engine
    <3>4. v.engine.status = t.engine.status /\ v.wrote = t.wrote
      BY <2>2 DEF Turn, Engine, v
    <3> QED BY <2>4, <2>5, <3>2, <3>3, <3>4 DEF Accepted
  <2>6. CASE d.type # "DATA"
    BY <2>1, <2>3, <2>4, <2>6
  <2> QED BY <2>5, <2>6
<1> QED BY <1>1, <1>2

Errors == {"overflow", "value_error", "os_error"}

\* The timers' part of an iteration: at most a keepalive is sent, and the
\* liveness timeout needs LivenessTimeout ticks of silence.
LEMMA TimersEffect ==
  ASSUME NEW t \in Turn, Running(t), NEW e \in Endpoints, NEW fault,
         NEW v, v = CheckTimers(t, e, fault)
  PROVE  /\ v \in Turn /\ v.wrote = t.wrote
         /\ v.engine.window = t.engine.window /\ v.engine.quiet = t.engine.quiet
         /\ \/ v.engine.seq = t.engine.seq /\ v.out = t.out
            \/ /\ v.engine.seq = t.engine.seq + 1
               /\ v.out = t.out \cup {[seq |-> t.engine.seq, type |-> "KEEPALIVE"]}
         /\ \/ v.engine.due = t.engine.due
            \/ /\ t.engine.due = 0 /\ v.engine.due = KeepaliveInterval[e]
               /\ v.out # {}
         /\ \/ v.engine.status \in Errors \cup {"running"}
            \/ /\ v.engine.status = "timed_out" /\ TimersOn(e)
               /\ v.engine.quiet >= LivenessTimeout[e]
<1> DEFINE s == SendPacket(t, "KEEPALIVE", 0, fault)
           u == IF t.engine.due = 0
                THEN IF Running(s)
                     THEN [s EXCEPT !.engine.due = KeepaliveInterval[e]] ELSE s
                ELSE t
<1>0. KeepaliveInterval[e] \in Nat /\ LivenessTimeout[e] \in Nat
  BY TimersAssumption
<1>1. CASE ~ TimersOn(e)
  BY <1>1 DEF CheckTimers, Running
<1>2. CASE TimersOn(e)
  <2>1. v = IF Running(u) /\ u.engine.quiet >= LivenessTimeout[e]
            THEN Ended(u, "timed_out") ELSE u
    BY <1>2 DEF CheckTimers
  <2>2. /\ u \in Turn /\ u.wrote = t.wrote
        /\ u.engine.window = t.engine.window /\ u.engine.quiet = t.engine.quiet
        /\ \/ u.engine.seq = t.engine.seq /\ u.out = t.out
           \/ /\ u.engine.seq = t.engine.seq + 1
              /\ u.out = t.out \cup {[seq |-> t.engine.seq, type |-> "KEEPALIVE"]}
        /\ \/ u.engine.due = t.engine.due
           \/ /\ t.engine.due = 0 /\ u.engine.due = KeepaliveInterval[e]
              /\ u.out # {}
        /\ u.engine.status \in Errors \cup {"running"}
    <3>1. CASE t.engine.due # 0
      BY <3>1 DEF Running
    <3>2. CASE t.engine.due = 0
      <4>1. /\ s \in Turn /\ s.wrote = t.wrote
            /\ s.engine.window = t.engine.window
            /\ s.engine.quiet = t.engine.quiet /\ s.engine.due = t.engine.due
            /\ \/ /\ s.engine.status \in Errors
                  /\ s.engine.seq = t.engine.seq /\ s.out = t.out
               \/ /\ s.engine.status = "running"
                  /\ s.engine.seq = t.engine.seq + 1
                  /\ s.out = t.out \cup {[seq |-> t.engine.seq, type |-> "KEEPALIVE"]}
        BY SendEffect DEF Running, Errors
      <4> HIDE DEF s
      <4>2. CASE Running(s)
        <5>1. u = [s EXCEPT !.engine.due = KeepaliveInterval[e]]
          BY <3>2, <4>2
        <5>2. /\ u.engine = [s.engine EXCEPT !.due = KeepaliveInterval[e]]
              /\ u.out = s.out /\ u.wrote = s.wrote
          BY <4>1, <5>1 DEF Turn
        <5>3. u.engine \in Engine /\ u \in Turn
          BY <1>0, <4>1, <5>1, <5>2 DEF Turn, Engine
        <5>4. /\ u.engine.status = "running" /\ u.engine.seq = s.engine.seq
              /\ u.engine.window = s.engine.window /\ u.engine.quiet = s.engine.quiet
              /\ u.engine.due = KeepaliveInterval[e]
          BY <4>1, <4>2, <5>2 DEF Turn, Engine, Running
        <5>5. s.engine.status = "running"
          BY <4>2 DEF Running
        <5> HIDE DEF u
        <5> QED BY <3>2, <4>1, <5>2, <5>3, <5>4, <5>5 DEF Errors
      <4>3. CASE ~ Running(s)
        <5>1. u = s
          BY <3>2, <4>3
        <5> QED BY <4>1, <4>3, <5>1, <3>2 DEF Running
      <4> QED BY <4>2, <4>3
    <3> QED BY <3>1, <3>2
  <2> HIDE DEF u
  <2>3. CASE Running(u) /\ u.engine.quiet >= LivenessTimeout[e]
    <3>1. v = Ended(u, "timed_out") /\ "timed_out" \in Status
      BY <2>1, <2>3 DEF Status
    <3>2. Ended(u, "timed_out") \in Turn
          /\ Ended(u, "timed_out").engine = [u.engine EXCEPT !.status = "timed_out"]
          /\ Ended(u, "timed_out").out = u.out /\ Ended(u, "timed_out").wrote = u.wrote
      BY <2>2, <3>1, EndedEffect
    <3>3. /\ v.engine.status = "timed_out" /\ v.engine.seq = u.engine.seq
          /\ v.engine.window = u.engine.window /\ v.engine.quiet = u.engine.quiet
          /\ v.engine.due = u.engine.due
      BY <2>2, <3>1, <3>2 DEF Turn, Engine
    <3> QED BY <1>2, <2>2, <2>3, <3>1, <3>2, <3>3
  <2>4. CASE ~ (Running(u) /\ u.engine.quiet >= LivenessTimeout[e])
    BY <2>1, <2>2, <2>4
  <2> QED BY <2>3, <2>4
<1> QED BY <1>1, <1>2

(***************************************************************************)
(* The effect of a whole iteration that started from engine g.             *)
(***************************************************************************)
Sends(g, t) ==
  /\ g.seq <= t.engine.seq
  /\ \A p \in t.out : g.seq <= p.seq /\ p.seq < t.engine.seq
  /\ \A p, q \in t.out : p.seq = q.seq => p = q

Takes(g, t, d) ==
  /\ d.kind = "peer"
  /\ Encrypted => /\ ~ IsReplay(g.window, d.seq)
                  /\ t.engine.window = MarkAuthenticated(g.window, d.seq)
                  /\ t.engine.quiet = 0
  /\ ~ Encrypted => t.engine.window = g.window /\ t.engine.quiet = g.quiet
  /\ \/ t.wrote = {} /\ (d.type = "DATA" => t.engine.status = "os_error")
     \/ t.wrote = {d.seq} /\ d.type = "DATA"

Leaves(g, t) ==
  t.engine.window = g.window /\ t.engine.quiet = g.quiet /\ t.wrote = {}

\* Did the iteration get to the socket?
Reached(e, size, fault) ==
  size = 0 \/ Running(SendPacket([engine |-> engine[e], out |-> {}, wrote |-> {}], "DATA", size, fault))

\* A packet of the peer is left alone only if it is a replay, or if sending
\* has failed before.
Spurns(e, size, d, fault, t) ==
  d.kind = "peer" =>
    \/ Encrypted /\ IsReplay(engine[e].window, d.seq)
    \/ ~ Reached(e, size, fault) /\ t.engine.status \in Errors

Timed(g, t, e) ==
  /\ \/ t.engine.due = g.due
     \/ g.due = 0 /\ t.engine.due = KeepaliveInterval[e] /\ t.out # {}
  /\ \/ t.engine.status \in Errors \cup {"running"}
     \/ /\ t.engine.status = "timed_out" /\ TimersOn(e)
        /\ t.engine.quiet >= LivenessTimeout[e]

LEMMA IterationEffect ==
  ASSUME NEW e \in Endpoints, engine[e] \in Engine, engine[e].status = "running",
         NEW size, NEW fault, NEW d, d.seq \in 0 .. MaxSequence,
         NEW t, t = Iteration(e, size, d, fault)
  PROVE  /\ t \in Turn
         /\ Sends(engine[e], t)
         /\ \/ Takes(engine[e], t, d)
            \/ Leaves(engine[e], t) /\ Spurns(e, size, d, fault, t)
         /\ Timed(engine[e], t, e)
<1> DEFINE g == engine[e]
           t0 == [engine |-> g, out |-> {}, wrote |-> {}]
           t1 == IF size = 0 THEN t0 ELSE SendPacket(t0, "DATA", size, fault)
           t2 == IF Running(t1) THEN ReceiveUdp(t1, d, fault) ELSE t1
<1>0. t = IF Running(t2) THEN CheckTimers(t2, e, fault) ELSE t2
  BY DEF Iteration
<1>1. /\ t1 \in Turn /\ t1.wrote = {} /\ Sends(g, t1)
      /\ t1.engine.window = g.window /\ t1.engine.quiet = g.quiet
      /\ t1.engine.due = g.due
      /\ t1.engine.status \in Errors \cup {"running"}
  <2>1. t0 \in Turn /\ Running(t0)
    BY DEF Turn, Running
  <2>2. CASE size = 0
    <3>1. t1 = t0 /\ t0.engine = g /\ t0.out = {} /\ t0.wrote = {}
      BY <2>2
    <3> HIDE DEF t0, t1
    <3>2. Sends(g, t1)
      BY <3>1 DEF Sends, Engine
    <3> QED BY <2>1, <3>1, <3>2
  <2>3. CASE size # 0
    <3>1. t1 = SendPacket(t0, "DATA", size, fault)
      BY <2>3
    <3>2. /\ t0.engine = g /\ t0.out = {} /\ t0.wrote = {}
      OBVIOUS
    <3> HIDE DEF t0, t1
    <3>3. /\ t1 \in Turn /\ t1.wrote = t0.wrote
          /\ t1.engine.window = t0.engine.window
          /\ t1.engine.quiet = t0.engine.quiet /\ t1.engine.due = t0.engine.due
          /\ \/ /\ t1.engine.status \in {"overflow", "value_error", "os_error"}
                /\ t1.engine.seq = t0.engine.seq /\ t1.out = t0.out
             \/ /\ t1.engine.status = t0.engine.status
                /\ t0.engine.seq <= MaxSequence
                /\ t1.engine.seq = t0.engine.seq + 1
                /\ t1.out = t0.out \cup {[seq |-> t0.engine.seq, type |-> "DATA"]}
      BY <2>1, <3>1, SendEffect
    <3>4. Sends(g, t1)
      BY <3>2, <3>3 DEF Sends, Engine
    <3>5. t1.engine.status \in Errors \cup {"running"}
      <4>1. t0.engine.status = "running"
        BY <2>1 DEF Running
      <4> QED BY <3>3, <4>1 DEF Errors
    <3>6. t1.wrote = {} /\ t1.engine.window = g.window
      BY <3>2, <3>3
    <3>7. t1.engine.quiet = g.quiet /\ t1.engine.due = g.due
      BY <3>2, <3>3
    <3> QED BY <3>3, <3>4, <3>5, <3>6, <3>7
  <2> QED BY <2>2, <2>3
<1>9. Running(t1) <=> Reached(e, size, fault)
  BY DEF Reached, Running
<1> HIDE DEF t1
<1>2. /\ t2 \in Turn /\ Sends(g, t2)
      /\ Takes(g, t2, d) \/ (Leaves(g, t2) /\ Spurns(e, size, d, fault, t2))
      /\ t2.engine.due = g.due
      /\ t2.engine.status \in Errors \cup {"running"}
  <2>1. CASE ~ Running(t1)
    BY <1>1, <1>9, <2>1 DEF Running, Leaves, Spurns
  <2>2. CASE Running(t1)
    <3>1. t2 \in Turn /\ (Ignored(t1, t2, d) \/ Accepted(t1, t2, d))
      BY <1>1, <2>2, ReceiveEffect
    <3> HIDE DEF t2
    <3>2. CASE Ignored(t1, t2, d)
      BY <1>1, <3>1, <3>2 DEF Ignored, Leaves, Spurns
    <3>3. CASE Accepted(t1, t2, d)
      BY <1>1, <3>1, <3>3 DEF Accepted, Takes, Sends, Errors
    <3> QED BY <3>1, <3>2, <3>3
  <2> QED BY <2>1, <2>2
<1> HIDE DEF t2
<1>3. CASE ~ Running(t2)
  BY <1>0, <1>2, <1>3 DEF Timed
<1>4. CASE Running(t2)
  <2>1. t = CheckTimers(t2, e, fault)
    BY <1>0, <1>4
  <2>2. /\ t \in Turn /\ t.wrote = t2.wrote
        /\ t.engine.window = t2.engine.window /\ t.engine.quiet = t2.engine.quiet
        /\ \/ t.engine.seq = t2.engine.seq /\ t.out = t2.out
           \/ /\ t.engine.seq = t2.engine.seq + 1
              /\ t.out = t2.out \cup {[seq |-> t2.engine.seq, type |-> "KEEPALIVE"]}
        /\ \/ t.engine.due = t2.engine.due
           \/ /\ t2.engine.due = 0 /\ t.engine.due = KeepaliveInterval[e]
              /\ t.out # {}
        /\ \/ t.engine.status \in Errors \cup {"running"}
           \/ /\ t.engine.status = "timed_out" /\ TimersOn(e)
              /\ t.engine.quiet >= LivenessTimeout[e]
    BY <1>2, <1>4, <2>1, TimersEffect
  <2>3. Sends(g, t)
    <3>1. /\ t2.engine.seq \in Int /\ g.seq \in Int
          /\ \A p \in t2.out : p.seq \in Int
      BY <1>2 DEF Turn, Engine, Packet
    <3> QED BY <1>2, <2>2, <3>1 DEF Sends
  <2>4. Takes(g, t, d) \/ (Leaves(g, t) /\ Spurns(e, size, d, fault, t))
    <3>1. CASE Takes(g, t2, d)
      BY <1>4, <2>2, <3>1 DEF Takes, Running
    <3>2. CASE Leaves(g, t2) /\ Spurns(e, size, d, fault, t2)
      BY <1>4, <2>2, <3>2 DEF Leaves, Spurns, Running, Errors
    <3> QED BY <1>2, <3>1, <3>2
  <2>5. Timed(g, t, e)
    BY <1>2, <2>2 DEF Timed
  <2> QED BY <2>2, <2>3, <2>4, <2>5
<1> QED BY <1>3, <1>4

(***************************************************************************)
(* The inductive invariant: the checked properties, strengthened by what   *)
(* ties one endpoint's window to the other's counter and one endpoint's    *)
(* silence to the other's keepalive timer.                                 *)
(***************************************************************************)

\* An engine not yet built is as its constructor will make it.
Unstarted ==
  \A e \in Endpoints :
    engine[e].status = "starting" => engine[e] = NewEngine(e, "starting")

\* What has been written to TUN is marked in the window.
WrittenIsMarked ==
  Encrypted =>
    \A e \in Endpoints, n \in 0 .. MaxSequence :
      /\ delivered[e][n] <= 1
      /\ delivered[e][n] = 1 => IsReplay(engine[e].window, n)

\* A window never runs ahead of the counter of the engine that feeds it.
WindowBehindSender ==
  \A e \in Endpoints : engine[e].window.highest < engine[Peer(e)].seq

Bound(e) == StartSkew + KeepaliveInterval[Peer(e)]

\* While the peer lives, the silence at e is bounded: the peer has still to
\* start, or its next keepalive will come in time, or a packet that is newer
\* than all e has accepted is on its way and will arrive in time.
Hears(e) ==
  LET p == Peer(e) IN
  \/ engine[p].status = "starting" /\ engine[e].quiet + startLeft[p] <= StartSkew
  \/ engine[p].status = "running" /\ engine[e].quiet + engine[p].due <= Bound(e)
  \/ \E o \in owed[e] : /\ o.seq > engine[e].window.highest
                        /\ engine[e].quiet + o.left <= Bound(e) + MaxDelay

SilenceBounded ==
  \A e \in Endpoints :
    /\ engine[e].due <= KeepaliveInterval[e]
    /\ WideTimers(e) /\ Alive(Peer(e)) =>
         /\ engine[e].status # "timed_out"
         /\ engine[e].status = "running" => Hears(e)

IInv ==
  /\ TypeOK
  /\ NoncesAreFresh
  /\ OnlyPeerData
  /\ Unstarted
  /\ WrittenIsMarked
  /\ WindowBehindSender

(***************************************************************************)
(* RunOnce, seen through IterationEffect.                                  *)
(***************************************************************************)
Step(e, d, t) ==
  /\ engine[e].status = "running"
  /\ t \in Turn /\ Sends(engine[e], t)
  /\ Takes(engine[e], t, d) \/ Leaves(engine[e], t)
  /\ Timed(engine[e], t, e)
  /\ engine' = [engine EXCEPT ![e] = t.engine]
  /\ sent' = [sent EXCEPT ![e] = @ \cup t.out]
  /\ \E read \in SUBSET owed[e] :
       /\ \A o \in read : d.kind = "peer" /\ o.seq = d.seq
       /\ owed' = [owed EXCEPT ![e] = @ \ read, ![Peer(e)] = @ \cup Promised(t.out)]
  /\ delivered' = [delivered EXCEPT ![e] =
       [n \in 0 .. MaxSequence |-> IF n \in t.wrote THEN Once(@[n]) ELSE @[n]]]
  /\ UNCHANGED startLeft

\* A TunnelEngine takes every packet of the peer that gets to it, unless its
\* window refuses it.
Listens(e, d, t) ==
  \/ Takes(engine[e], t, d)
  \/ d.kind = "peer" =>
       \/ Encrypted /\ IsReplay(engine[e].window, d.seq)
       \/ t.engine.status \in Errors /\ owed'[e] = owed[e]

LEMMA DatagramFacts ==
  ASSUME TypeOK, NEW e \in Endpoints, NEW d \in Datagrams(e)
  PROVE  /\ d.seq \in 0 .. MaxSequence
         /\ d.kind = "peer" => [seq |-> d.seq, type |-> d.type] \in sent[Peer(e)]
<1>1. CASE d \in {[kind |-> k, seq |-> 0, type |-> "DATA"] : k \in Strays \cup {"none"}}
  BY <1>1 DEF Strays
<1>2. CASE d \in {[kind |-> "peer", seq |-> p.seq, type |-> p.type] : p \in sent[Peer(e)]}
  <2>1. PICK p \in sent[Peer(e)] : d = [kind |-> "peer", seq |-> p.seq, type |-> p.type]
    BY <1>2
  <2>2. p \in Packet
    BY PeerFacts DEF TypeOK
  <2>3. p = [seq |-> d.seq, type |-> d.type] /\ d.seq \in 0 .. MaxSequence
    BY <2>1, <2>2 DEF Packet
  <2> QED BY <2>1, <2>3
<1> QED BY <1>1, <1>2 DEF Datagrams

LEMMA RunOnceStep ==
  ASSUME TypeOK, NEW e \in Endpoints, NEW d \in Datagrams(e), NEW size, NEW fault,
         RunOnce(e, size, d, fault)
  PROVE  \E t : Step(e, d, t) /\ Listens(e, d, t)
<1> DEFINE t == Iteration(e, size, d, fault)
           read == IF Reached(e, size, fault) /\ d.kind = "peer" THEN {o \in owed[e] : o.seq = d.seq} ELSE {}
<1>1. /\ engine[e].status = "running"
      /\ engine' = [engine EXCEPT ![e] = t.engine]
      /\ sent' = [sent EXCEPT ![e] = @ \cup t.out]
      /\ owed' = [owed EXCEPT ![e] = @ \ read, ![Peer(e)] = @ \cup Promised(t.out)]
      /\ delivered' = [delivered EXCEPT ![e] =
           [n \in 0 .. MaxSequence |-> IF n \in t.wrote THEN Once(@[n]) ELSE @[n]]]
      /\ UNCHANGED startLeft
  BY DEF RunOnce, Reached
<1>2. engine[e] \in Engine /\ d.seq \in 0 .. MaxSequence
  BY DatagramFacts DEF TypeOK
<1>3. /\ t \in Turn /\ Sends(engine[e], t)
      /\ \/ Takes(engine[e], t, d)
         \/ Leaves(engine[e], t) /\ Spurns(e, size, d, fault, t)
      /\ Timed(engine[e], t, e)
  BY <1>1, <1>2, IterationEffect
<1>4. read \in SUBSET owed[e] /\ \A o \in read : d.kind = "peer" /\ o.seq = d.seq
  OBVIOUS
<1>5. ~ Reached(e, size, fault) => read = {}
  OBVIOUS
<1> HIDE DEF t, read
<1>6. Step(e, d, t)
  BY <1>1, <1>3, <1>4 DEF Step
<1>7. read = {} => owed'[e] = owed[e]
  BY <1>1, PeerFacts DEF TypeOK
<1>8. Listens(e, d, t)
  BY <1>3, <1>5, <1>7 DEF Listens, Spurns
<1> QED BY <1>6, <1>8

\* What a step does to the two endpoints' own entries.
LEMMA StepEntries ==
  ASSUME TypeOK, NEW e \in Endpoints, NEW d, NEW t, Step(e, d, t)
  PROVE  LET p == Peer(e) IN
         /\ engine'[e] = t.engine /\ engine'[p] = engine[p]
         /\ sent'[e] = sent[e] \cup t.out /\ sent'[p] = sent[p]
         /\ owed'[e] \subseteq owed[e]
         /\ \A o \in owed[e] : o \in owed'[e] \/ (d.kind = "peer" /\ o.seq = d.seq)
         /\ owed'[p] = owed[p] \cup Promised(t.out)
         /\ delivered'[p] = delivered[p]
         /\ \A n \in 0 .. MaxSequence :
              delivered'[e][n] = IF n \in t.wrote THEN Once(delivered[e][n])
                                 ELSE delivered[e][n]
<1> DEFINE p == Peer(e)
<1>1. p \in Endpoints /\ p # e
  BY PeerFacts
<1>2. /\ engine'[e] = t.engine /\ engine'[p] = engine[p]
      /\ sent'[e] = sent[e] \cup t.out /\ sent'[p] = sent[p]
  BY <1>1 DEF Step, TypeOK
<1>3. PICK read \in SUBSET owed[e] :
        /\ \A o \in read : d.kind = "peer" /\ o.seq = d.seq
        /\ owed' = [owed EXCEPT ![e] = @ \ read, ![p] = @ \cup Promised(t.out)]
  BY DEF Step
<1>4. owed'[e] = owed[e] \ read /\ owed'[p] = owed[p] \cup Promised(t.out)
  BY <1>1, <1>3 DEF TypeOK
<1>5. delivered'[p] = delivered[p]
      /\ delivered'[e] = [n \in 0 .. MaxSequence |->
           IF n \in t.wrote THEN Once(delivered[e][n]) ELSE delivered[e][n]]
  BY <1>1 DEF Step, TypeOK
<1> QED BY <1>2, <1>3, <1>4, <1>5

LEMMA TwoEndpoints ==
  ASSUME NEW e \in Endpoints, NEW f \in Endpoints
  PROVE  f = e \/ f = Peer(e)
BY DEF Endpoints, Peer

(***************************************************************************)
(* Type correctness                                                        *)
(***************************************************************************)
LEMMA NewEngineType ==
  ASSUME NEW e \in Endpoints, NEW status \in Status
  PROVE  NewEngine(e, status) \in Engine
BY EmptyRepresents, TimersAssumption DEF NewEngine, Engine

LEMMA TypeInit == Init => TypeOK
<1> SUFFICES ASSUME Init PROVE TypeOK
  OBVIOUS
<1>1. engine \in [Endpoints -> Engine]
  BY NewEngineType DEF Init, Status
<1> QED BY <1>1 DEF Init, TypeOK

LEMMA TypeStep ==
  ASSUME TypeOK, NEW e \in Endpoints, NEW d, NEW t, Step(e, d, t)
  PROVE  TypeOK'
<1>1. t.engine \in Engine /\ t.out \in SUBSET Packet
  BY DEF Step, Turn
<1>2. engine' \in [Endpoints -> Engine] /\ sent' \in [Endpoints -> SUBSET Packet]
  BY <1>1 DEF Step, TypeOK
<1>3. Promised(t.out) \in SUBSET [seq : 0 .. MaxSequence, left : 0 .. MaxDelay]
  BY <1>1 DEF Promised, Packet
<1>4. owed' \in [Endpoints -> SUBSET [seq : 0 .. MaxSequence, left : 0 .. MaxDelay]]
  <2> DEFINE T == SUBSET [seq : 0 .. MaxSequence, left : 0 .. MaxDelay]
  <2>1. PICK read \in SUBSET owed[e] :
          owed' = [owed EXCEPT ![e] = @ \ read, ![Peer(e)] = @ \cup Promised(t.out)]
    BY DEF Step
  <2>2. owed \in [Endpoints -> T] /\ Peer(e) \in Endpoints /\ Peer(e) # e
    BY PeerFacts DEF TypeOK
  <2>3. owed[e] \ read \in T /\ owed[Peer(e)] \cup Promised(t.out) \in T
    BY <1>3, <2>2
  <2> HIDE DEF T
  <2>4. owed' \in [Endpoints -> T]
    BY <2>1, <2>2, <2>3
  <2> QED BY <2>4 DEF T
<1>5. \A n \in 0 .. 2 : Once(n) \in 0 .. 2
  BY DEF Once
<1>6. delivered' \in [Endpoints -> [0 .. MaxSequence -> 0 .. 2]]
  BY <1>5 DEF Step, TypeOK
<1> QED BY <1>2, <1>4, <1>6 DEF Step, TypeOK

LEMMA TypeNext == TypeOK /\ [Next]_vars => TypeOK'
<1> SUFFICES ASSUME TypeOK, [Next]_vars PROVE TypeOK'
  OBVIOUS
<1>1. ASSUME NEW e \in Endpoints, Start(e) PROVE TypeOK'
  <2>1. NewEngine(e, "running") \in Engine
    BY NewEngineType DEF Status
  <2> QED BY <1>1, <2>1 DEF Start, TypeOK
<1>2. ASSUME NEW e \in Endpoints, Stop(e) PROVE TypeOK'
  <2>1. engine[e] \in Engine
    BY DEF TypeOK
  <2>2. [engine[e] EXCEPT !.status = "stopped"] \in Engine
    BY <2>1 DEF Engine, Status
  <2>3. engine' = [engine EXCEPT ![e] = [engine[e] EXCEPT !.status = "stopped"]]
    BY <1>2 DEF Stop
  <2> QED BY <1>2, <2>2, <2>3 DEF Stop, TypeOK
<1>3. ASSUME NEW e \in Endpoints, NEW size \in TunSizes \cup {0}, NEW d \in Datagrams(e),
             NEW fault \in FaultKinds, RunOnce(e, size, d, fault)
      PROVE TypeOK'
  BY <1>3, RunOnceStep, TypeStep
<1>4. CASE Tick
  <2>1. \A n \in Nat : Less(n) \in Nat /\ \A m \in Nat : n \in 0 .. m => Less(n) \in 0 .. m
    BY DEF Less
  <2>2. ASSUME NEW e \in Endpoints PROVE Clock(e) \in Engine
    <3>1. engine[e] \in Engine
      BY DEF TypeOK
    <3>2. CASE engine[e].status = "running" /\ TimersOn(e)
      <4>1. Clock(e) = [engine[e] EXCEPT !.quiet = @ + 1, !.due = Less(@)]
        BY <3>2 DEF Clock
      <4>2. engine[e].quiet + 1 \in Nat /\ Less(engine[e].due) \in Nat
        BY <2>1, <3>1 DEF Engine
      <4> QED BY <3>1, <4>1, <4>2 DEF Engine
    <3>3. CASE ~ (engine[e].status = "running" /\ TimersOn(e))
      BY <3>1, <3>3 DEF Clock
    <3> QED BY <3>2, <3>3
  <2>3. engine' \in [Endpoints -> Engine]
    BY <1>4, <2>2 DEF Tick
  <2>4. ASSUME NEW e \in Endpoints
        PROVE  {[o EXCEPT !.left = Less(@)] : o \in owed[e]}
                 \in SUBSET [seq : 0 .. MaxSequence, left : 0 .. MaxDelay]
    <3>1. ASSUME NEW o \in owed[e]
          PROVE  [o EXCEPT !.left = Less(@)] \in [seq : 0 .. MaxSequence, left : 0 .. MaxDelay]
      <4>1. o \in [seq : 0 .. MaxSequence, left : 0 .. MaxDelay]
        BY DEF TypeOK
      <4>2. Less(o.left) \in 0 .. MaxDelay
        BY <2>1, <4>1
      <4> QED BY <4>1, <4>2
    <3> QED BY <3>1
  <2>5. owed' \in [Endpoints -> SUBSET [seq : 0 .. MaxSequence, left : 0 .. MaxDelay]]
    BY <1>4, <2>4 DEF Tick
  <2>6. startLeft' \in [Endpoints -> 0 .. StartSkew]
    BY <1>4, <2>1 DEF Tick, TypeOK
  <2> QED BY <1>4, <2>3, <2>5, <2>6 DEF Tick, TypeOK
<1>5. CASE UNCHANGED vars
  BY <1>5 DEF vars, TypeOK
<1> QED BY <1>1, <1>2, <1>3, <1>4, <1>5 DEF Next

\* Type correctness for all constants: the counter stays within the header's
\* field plus the one value that raises OverflowError, and no packet carries a
\* number above MaxSequence.
THEOREM TypeCorrect == Spec => []TypeOK
BY TypeInit, TypeNext, PTL DEF Spec

(***************************************************************************)
(* Safety of the packets: one lemma per part of IInv for an iteration, and *)
(* then the other actions, which touch no window, counter or history.      *)
(***************************************************************************)
LEMMA StepNonces ==
  ASSUME IInv, NEW e \in Endpoints, NEW d, NEW t, Step(e, d, t)
  PROVE  NoncesAreFresh'
<1> SUFFICES ASSUME NEW f \in Endpoints
             PROVE  /\ \A p \in sent'[f] : p.seq < engine'[f].seq
                    /\ \A p, q \in sent'[f] : p.seq = q.seq => p = q
  BY DEF NoncesAreFresh
<1>1. TypeOK /\ NoncesAreFresh
  BY DEF IInv
<1>2. CASE f = e
  <2>1. sent'[f] = sent[e] \cup t.out /\ engine'[f] = t.engine
    BY <1>1, <1>2, StepEntries
  <2>2. Sends(engine[e], t)
    BY DEF Step
  <2>3. /\ \A p \in sent[e] : p.seq \in Int
        /\ \A p \in t.out : p.seq \in Int
        /\ engine[e].seq \in Int /\ t.engine.seq \in Int
    BY <1>1 DEF TypeOK, Step, Turn, Packet, Engine
  <2>4. \A p \in sent[e] : p.seq < engine[e].seq
    BY <1>1 DEF NoncesAreFresh
  <2>5. \A p, q \in sent[e] : p.seq = q.seq => p = q
    BY <1>1 DEF NoncesAreFresh
  <2>6. \A p \in sent'[f] : p.seq < engine'[f].seq
    BY <2>1, <2>2, <2>3, <2>4 DEF Sends
  <2>7. \A p, q \in sent'[f] : p.seq = q.seq => p = q
    BY <2>1, <2>2, <2>3, <2>4, <2>5 DEF Sends
  <2> QED BY <2>6, <2>7
<1>3. CASE f = Peer(e)
  <2>1. sent'[f] = sent[f] /\ engine'[f] = engine[f]
    BY <1>1, <1>3, StepEntries
  <2> QED BY <1>1, <2>1 DEF NoncesAreFresh
<1> QED BY <1>2, <1>3, TwoEndpoints

\* The packet an iteration takes from the socket is one the peer sent.
FromPeer(e, d) ==
  /\ d.seq \in 0 .. MaxSequence
  /\ d.kind = "peer" => [seq |-> d.seq, type |-> d.type] \in sent[Peer(e)]

LEMMA StepPeerData ==
  ASSUME IInv, NEW e \in Endpoints, NEW d, FromPeer(e, d), NEW t, Step(e, d, t)
  PROVE  OnlyPeerData'
<1> SUFFICES ASSUME NEW f \in Endpoints, NEW n \in 0 .. MaxSequence, delivered'[f][n] > 0
             PROVE  [seq |-> n, type |-> "DATA"] \in sent'[Peer(f)]
  BY DEF OnlyPeerData
<1>1. TypeOK /\ OnlyPeerData
  BY DEF IInv
<1>2. delivered[f][n] > 0 => [seq |-> n, type |-> "DATA"] \in sent'[Peer(f)]
  <2>1. sent[Peer(f)] \subseteq sent'[Peer(f)]
    BY <1>1, StepEntries, TwoEndpoints, PeerFacts
  <2> QED BY <1>1, <2>1 DEF OnlyPeerData
<1>3. CASE f = e
  <2>1. delivered'[e][n] = IF n \in t.wrote THEN Once(delivered[e][n]) ELSE delivered[e][n]
    BY <1>1, StepEntries
  <2>2. CASE n \in t.wrote
    <3>1. d.kind = "peer" /\ d.type = "DATA" /\ n = d.seq
      BY <2>2 DEF Step, Takes, Leaves
    <3>2. [seq |-> n, type |-> "DATA"] \in sent[Peer(e)]
      BY <3>1 DEF FromPeer
    <3>3. sent'[Peer(e)] = sent[Peer(e)]
      BY <1>1, StepEntries
    <3> QED BY <1>3, <3>2, <3>3
  <2>3. CASE n \notin t.wrote
    BY <1>2, <1>3, <2>1, <2>3
  <2> QED BY <2>2, <2>3
<1>4. CASE f = Peer(e)
  <2>1. delivered'[f] = delivered[f]
    BY <1>1, <1>4, StepEntries
  <2> QED BY <1>2, <2>1
<1> QED BY <1>3, <1>4, TwoEndpoints

LEMMA StepUnstarted ==
  ASSUME IInv, NEW e \in Endpoints, NEW d, NEW t, Step(e, d, t)
  PROVE  Unstarted'
<1>1. t.engine.status # "starting"
  BY DEF Step, Timed, Errors
<1>2. TypeOK /\ Unstarted
  BY DEF IInv
<1>3. engine'[e] = t.engine /\ engine'[Peer(e)] = engine[Peer(e)]
  BY <1>2, StepEntries
<1>4. ASSUME NEW f \in Endpoints, engine'[f].status = "starting"
      PROVE  engine'[f] = NewEngine(f, "starting")
  <2>1. f = Peer(e)
    BY <1>1, <1>3, <1>4, TwoEndpoints
  <2> QED BY <1>2, <1>3, <1>4, <2>1, PeerFacts DEF Unstarted
<1> QED BY <1>4 DEF Unstarted, NewEngine

LEMMA StepWritten ==
  ASSUME IInv, NEW e \in Endpoints, NEW d, FromPeer(e, d), NEW t, Step(e, d, t)
  PROVE  WrittenIsMarked'
<1> SUFFICES ASSUME Encrypted, NEW f \in Endpoints, NEW n \in 0 .. MaxSequence
             PROVE  /\ delivered'[f][n] <= 1
                    /\ delivered'[f][n] = 1 => IsReplay(engine'[f].window, n)
  BY DEF WrittenIsMarked
<1>1. TypeOK /\ WrittenIsMarked
  BY DEF IInv
<1>2. /\ delivered[f][n] <= 1 /\ delivered[f][n] \in 0 .. 2
      /\ delivered[f][n] = 1 => IsReplay(engine[f].window, n)
  BY <1>1 DEF WrittenIsMarked, TypeOK
<1>3. CASE f = Peer(e)
  BY <1>1, <1>2, <1>3, StepEntries
<1>4. CASE f = e
  <2>1. /\ delivered'[e][n] = IF n \in t.wrote THEN Once(delivered[e][n]) ELSE delivered[e][n]
        /\ engine'[e] = t.engine
    BY <1>1, StepEntries
  <2>2. CASE Leaves(engine[e], t)
    BY <1>2, <1>4, <2>1, <2>2 DEF Leaves
  <2>3. CASE Takes(engine[e], t, d)
    <3> DEFINE w == engine[e].window
    <3>1. ~ IsReplay(w, d.seq) /\ t.engine.window = MarkAuthenticated(w, d.seq)
      BY <2>3 DEF Takes
    <3>2. w \in Window /\ d.seq \in Nat /\ n \in Nat
      BY <1>1 DEF TypeOK, Engine, FromPeer
    <3>3. IsReplay(t.engine.window, d.seq)
      BY <3>1, <3>2, MarkedIsReplay
    <3>4. IsReplay(w, n) => IsReplay(t.engine.window, n)
      BY <3>1, <3>2, ReplayStaysReplay
    <3>5. CASE n \in t.wrote
      <4>1. n = d.seq
        BY <2>3, <3>5 DEF Takes
      <4>2. delivered[e][n] = 0
        BY <1>2, <1>4, <3>1, <4>1
      <4> QED BY <1>4, <2>1, <3>3, <3>5, <4>1, <4>2 DEF Once
    <3>6. CASE n \notin t.wrote
      BY <1>2, <1>4, <2>1, <3>4, <3>6
    <3> QED BY <3>5, <3>6
  <2> QED BY <2>2, <2>3 DEF Step
<1> QED BY <1>3, <1>4, TwoEndpoints

LEMMA StepWindow ==
  ASSUME IInv, NEW e \in Endpoints, NEW d, FromPeer(e, d), NEW t, Step(e, d, t)
  PROVE  WindowBehindSender'
<1> SUFFICES ASSUME NEW f \in Endpoints
             PROVE  engine'[f].window.highest < engine'[Peer(f)].seq
  BY DEF WindowBehindSender
<1>1. TypeOK /\ WindowBehindSender /\ NoncesAreFresh
  BY DEF IInv
<1>2. engine'[e] = t.engine /\ engine'[Peer(e)] = engine[Peer(e)]
  BY <1>1, StepEntries
<1>3. /\ engine[e].window \in Window /\ engine[Peer(e)].seq \in Int
      /\ engine[Peer(e)].window \in Window
      /\ engine[e].seq \in Int /\ t.engine.seq \in Int
  BY <1>1, PeerFacts DEF TypeOK, Engine, Step, Turn
<1>4. CASE f = Peer(e)
  <2>1. engine[e].seq <= t.engine.seq
    BY DEF Step, Sends
  <2>2. engine[f].window.highest < engine[e].seq
    BY <1>1, <1>4, PeerFacts DEF WindowBehindSender
  <2> QED BY <1>2, <1>3, <1>4, <2>1, <2>2, PeerFacts DEF Window
<1>5. CASE f = e
  <2>1. engine[e].window.highest < engine[Peer(e)].seq
    BY <1>1 DEF WindowBehindSender
  <2>2. CASE t.engine.window = engine[e].window
    BY <1>2, <1>5, <2>1, <2>2
  <2>3. CASE d.kind = "peer" /\ t.engine.window = MarkAuthenticated(engine[e].window, d.seq)
    <3>1. d.seq < engine[Peer(e)].seq
      BY <1>1, <2>3, PeerFacts DEF FromPeer, NoncesAreFresh
    <3>2. t.engine.window.highest \in {engine[e].window.highest, d.seq}
      BY <1>3, <2>3, HighestFacts DEF FromPeer
    <3> QED BY <1>2, <1>5, <2>1, <3>1, <3>2
  <2> QED BY <2>2, <2>3 DEF Step, Takes, Leaves
<1> QED BY <1>4, <1>5, TwoEndpoints

LEMMA IInvInit == Init => IInv
<1> SUFFICES ASSUME Init PROVE IInv
  OBVIOUS
<1>1. TypeOK
  BY TypeInit
<1>2. NoncesAreFresh /\ OnlyPeerData /\ Unstarted
  BY DEF Init, NoncesAreFresh, OnlyPeerData, Unstarted
<1>3. WrittenIsMarked
  BY DEF Init, WrittenIsMarked
<1>4. WindowBehindSender
  BY PeerFacts DEF Init, WindowBehindSender, NewEngine, EmptyWindow
<1> QED BY <1>1, <1>2, <1>3, <1>4 DEF IInv

\* An action that keeps every window, counter and history keeps IInv.
LEMMA KeepsIInv ==
  ASSUME IInv, TypeOK', Unstarted', sent' = sent, delivered' = delivered,
         \A e \in Endpoints : /\ engine'[e].window = engine[e].window
                              /\ engine'[e].seq = engine[e].seq
  PROVE  IInv'
<1>1. NoncesAreFresh' /\ OnlyPeerData'
  BY DEF IInv, NoncesAreFresh, OnlyPeerData
<1>2. WrittenIsMarked'
  BY DEF IInv, WrittenIsMarked
<1>3. WindowBehindSender'
  BY PeerFacts DEF IInv, WindowBehindSender
<1> QED BY <1>1, <1>2, <1>3 DEF IInv

LEMMA IInvNext == IInv /\ [Next]_vars => IInv'
<1> SUFFICES ASSUME IInv, [Next]_vars PROVE IInv'
  OBVIOUS
<1>1. TypeOK /\ TypeOK' /\ Unstarted
  BY TypeNext DEF IInv
<1>2. ASSUME NEW e \in Endpoints, Start(e) PROVE IInv'
  <2>1. engine[e] = NewEngine(e, "starting")
    BY <1>1, <1>2 DEF Start, Unstarted
  <2>2. engine' = [engine EXCEPT ![e] = NewEngine(e, "running")]
    BY <1>2 DEF Start
  <2>3. \A f \in Endpoints : /\ engine'[f].window = engine[f].window
                             /\ engine'[f].seq = engine[f].seq
    BY <1>1, <2>1, <2>2 DEF NewEngine, TypeOK
  <2>4. Unstarted'
    BY <1>1, <2>2 DEF Unstarted, NewEngine, TypeOK
  <2> QED BY <1>1, <1>2, <2>3, <2>4, KeepsIInv DEF Start
<1>3. ASSUME NEW e \in Endpoints, Stop(e) PROVE IInv'
  <2>1. engine' = [engine EXCEPT ![e] = [engine[e] EXCEPT !.status = "stopped"]]
    BY <1>3 DEF Stop
  <2>2. \A f \in Endpoints : /\ engine'[f].window = engine[f].window
                             /\ engine'[f].seq = engine[f].seq
    BY <1>1, <2>1 DEF TypeOK, Engine
  <2>3. Unstarted'
    BY <1>1, <2>1 DEF Unstarted, NewEngine, TypeOK, Engine
  <2> QED BY <1>1, <1>3, <2>2, <2>3, KeepsIInv DEF Stop
<1>4. ASSUME NEW e \in Endpoints, NEW size \in TunSizes \cup {0}, NEW d \in Datagrams(e),
             NEW fault \in FaultKinds, RunOnce(e, size, d, fault)
      PROVE IInv'
  <2>1. PICK t : Step(e, d, t)
    BY <1>1, <1>4, RunOnceStep
  <2>2. FromPeer(e, d)
    BY <1>1, DatagramFacts DEF FromPeer
  <2>3. NoncesAreFresh' /\ OnlyPeerData' /\ Unstarted'
    BY <2>1, <2>2, StepNonces, StepPeerData, StepUnstarted
  <2>4. WrittenIsMarked' /\ WindowBehindSender'
    BY <2>1, <2>2, StepWritten, StepWindow
  <2> QED BY <1>1, <2>3, <2>4 DEF IInv
<1>5. CASE Tick
  <2>1. ASSUME NEW f \in Endpoints
        PROVE  /\ engine'[f] = Clock(f)
               /\ engine'[f].window = engine[f].window /\ engine'[f].seq = engine[f].seq
               /\ engine[f].status # "running" => engine'[f] = engine[f]
               /\ engine'[f].status = engine[f].status
    <3>1. engine[f] \in Engine /\ engine'[f] = Clock(f)
      BY <1>1, <1>5 DEF Tick, TypeOK
    <3> QED BY <3>1 DEF Clock, Engine
  <2>2. Unstarted'
    BY <1>1, <2>1 DEF Unstarted, NewEngine
  <2> QED BY <1>1, <1>5, <2>1, <2>2, KeepsIInv DEF Tick
<1>6. CASE UNCHANGED vars
  <2>1. Unstarted'
    BY <1>1, <1>6 DEF vars, Unstarted, NewEngine
  <2> QED BY <1>1, <1>6, <2>1, KeepsIInv DEF vars
<1> QED BY <1>2, <1>3, <1>4, <1>5, <1>6 DEF Next

LEMMA Invariance == Spec => []IInv
BY IInvInit, IInvNext, PTL DEF Spec

\* No two packets of a session carry the same number, and so no nonce is used
\* twice under a session key.
THEOREM NonceDiscipline == Spec => []NoncesAreFresh
<1>1. IInv => NoncesAreFresh
  BY DEF IInv
<1> QED BY <1>1, Invariance, PTL

\* However the network duplicates and reorders, an encrypted tunnel writes
\* each packet of the peer to TUN at most once.
THEOREM DeliveredAtMostOnce == Spec => []AtMostOnce
<1>1. IInv => AtMostOnce
  BY DEF IInv, WrittenIsMarked, AtMostOnce
<1> QED BY <1>1, Invariance, PTL

\* What is written to TUN is a packet that the peer read from its TUN.
THEOREM NothingInvented == Spec => []OnlyPeerData
<1>1. IInv => OnlyPeerData
  BY DEF IInv
<1> QED BY <1>1, Invariance, PTL

(***************************************************************************)
(* No false timeout: SilenceBounded is inductive under IInv.               *)
(***************************************************************************)

\* The numbers the arithmetic below is about.
LEMMA TimerTypes ==
  ASSUME TypeOK, NEW e \in Endpoints
  PROVE  /\ engine[e].quiet \in Nat /\ engine[e].due \in Nat /\ engine[e].seq \in Nat
         /\ engine[e].window \in Window /\ engine[e].window.highest \in Int
         /\ startLeft[e] \in 0 .. StartSkew
         /\ \A o \in owed[e] : o.left \in 0 .. MaxDelay /\ o.seq \in 0 .. MaxSequence
         /\ KeepaliveInterval[e] \in Nat /\ LivenessTimeout[e] \in Nat
         /\ Bound(e) \in Nat
<1>1. engine[e] \in Engine /\ startLeft[e] \in 0 .. StartSkew
  BY DEF TypeOK
<1>2. owed[e] \in SUBSET [seq : 0 .. MaxSequence, left : 0 .. MaxDelay]
  BY DEF TypeOK
<1>3. KeepaliveInterval[e] \in Nat /\ LivenessTimeout[e] \in Nat
  BY TimersAssumption
<1>4. Bound(e) \in Nat
  BY PeerFacts, TimersAssumption DEF Bound
<1>5. engine[e].window.highest \in Int
  BY <1>1 DEF Engine, Window
<1>6. /\ engine[e].quiet \in Nat /\ engine[e].due \in Nat /\ engine[e].seq \in Nat
      /\ engine[e].window \in Window
  BY <1>1 DEF Engine
<1>7. \A o \in owed[e] : o.left \in 0 .. MaxDelay /\ o.seq \in 0 .. MaxSequence
  BY <1>2
<1> QED BY <1>1, <1>3, <1>4, <1>5, <1>6, <1>7

LEMMA WideFacts ==
  ASSUME NEW e \in Endpoints, WideTimers(e)
  PROVE  /\ ~ Lossy /\ Encrypted /\ TimersOn(e) /\ TimersOn(Peer(e))
         /\ Bound(e) + MaxDelay < LivenessTimeout[e]
BY PeerFacts, TimersAssumption DEF WideTimers, TimersOn, Bound

LEMMA SilenceInit == Init => SilenceBounded
<1> SUFFICES ASSUME Init, NEW e \in Endpoints
             PROVE  /\ engine[e].due <= KeepaliveInterval[e]
                    /\ engine[e].status = "starting"
  BY DEF SilenceBounded
<1> QED BY TimersAssumption DEF Init, NewEngine

\* An iteration at the endpoint that listens.
LEMMA StepAtListener ==
  ASSUME IInv, TypeOK', SilenceBounded, NEW e \in Endpoints, NEW d, FromPeer(e, d),
         NEW t, Step(e, d, t), Listens(e, d, t), WideTimers(e), Alive(Peer(e))
  PROVE  /\ engine'[e].status # "timed_out"
         /\ engine'[e].status = "running" => Hears(e)'
<1> DEFINE p == Peer(e)
<1>1. TypeOK /\ engine[e].status = "running" /\ p \in Endpoints
  BY PeerFacts DEF IInv, Step
<1>2. /\ engine'[e] = t.engine /\ engine'[p] = engine[p]
      /\ \A o \in owed[e] : o \in owed'[e] \/ (d.kind = "peer" /\ o.seq = d.seq)
      /\ startLeft' = startLeft
  <2>1. /\ engine'[e] = t.engine /\ engine'[p] = engine[p]
        /\ \A o \in owed[e] : o \in owed'[e] \/ (d.kind = "peer" /\ o.seq = d.seq)
    BY <1>1, StepEntries
  <2> QED BY <2>1 DEF Step
<1>3. Hears(e) /\ engine[p].due <= KeepaliveInterval[p]
  BY <1>1 DEF SilenceBounded
<1>4. /\ engine[e].quiet \in Nat /\ engine[e].window \in Window
      /\ engine[p].due \in Nat /\ startLeft[p] \in 0 .. StartSkew
      /\ \A o \in owed[e] : o.left \in 0 .. MaxDelay /\ o.seq \in 0 .. MaxSequence
      /\ Bound(e) \in Nat /\ StartSkew <= Bound(e) /\ LivenessTimeout[e] \in Nat
  BY <1>1, TimerTypes DEF Bound
<1>5. Encrypted /\ Bound(e) + MaxDelay < LivenessTimeout[e]
  BY WideFacts
<1>6. engine[e].quiet <= Bound(e) + MaxDelay
  BY <1>3, <1>4 DEF Hears
<1>7. t.engine.quiet \in {0, engine[e].quiet}
  BY <1>5 DEF Step, Takes, Leaves
<1>8. t.engine.status # "timed_out"
  BY <1>4, <1>5, <1>6, <1>7 DEF Step, Timed, Errors
<1>9. CASE Takes(engine[e], t, d)
  <2>1. engine'[e].quiet = 0
    BY <1>2, <1>5, <1>9 DEF Takes
  <2>2. Alive(p)' /\ engine'[p].due <= KeepaliveInterval[p]
    BY <1>2, <1>3 DEF Alive
  <2>3. startLeft'[p] \in 0 .. StartSkew /\ engine'[p].due \in Nat
        /\ KeepaliveInterval[p] \in Nat
    BY <1>1, <1>2, <1>4, TimerTypes
  <2>4. Hears(e)'
    BY <2>1, <2>2, <2>3 DEF Hears, Alive, Bound
  <2> QED BY <1>2, <1>8, <2>4
<1>10. CASE ~ Takes(engine[e], t, d) /\ Leaves(engine[e], t) /\ t.engine.status = "running"
  <2>1. /\ engine'[e].quiet = engine[e].quiet
        /\ engine'[e].window = engine[e].window
        /\ d.kind = "peer" => IsReplay(engine[e].window, d.seq)
    BY <1>2, <1>10 DEF Leaves, Listens, Errors
  <2>2. ASSUME NEW o \in owed[e], o.seq > engine[e].window.highest
        PROVE  o \in owed'[e]
    <3>1. d.kind = "peer" => d.seq <= engine[e].window.highest
      BY <1>4, <2>1, HighestFacts DEF FromPeer
    <3>2. d.kind = "peer" => o.seq # d.seq
      BY <1>4, <2>2, <3>1 DEF Window, FromPeer
    <3> QED BY <1>2, <3>2
  <2>3. Hears(e)'
    BY <1>2, <1>3, <2>1, <2>2 DEF Hears, Bound
  <2> QED BY <1>2, <1>8, <2>3
<1> QED BY <1>2, <1>8, <1>9, <1>10 DEF Step

\* An iteration at the endpoint that is listened to.
LEMMA StepAtSpeaker ==
  ASSUME IInv, TypeOK', SilenceBounded, NEW e \in Endpoints, NEW d,
         NEW t, Step(e, d, t), WideTimers(Peer(e)), Alive(e)'
  PROVE  /\ engine'[Peer(e)].status # "timed_out"
         /\ engine'[Peer(e)].status = "running" => Hears(Peer(e))'
<1> DEFINE f == Peer(e)
<1>1. /\ TypeOK /\ f \in Endpoints /\ Peer(f) = e
      /\ engine[e].status = "running"
  BY PeerFacts DEF IInv, Step
<1>2. /\ engine'[e] = t.engine /\ engine'[f] = engine[f]
      /\ owed'[f] = owed[f] \cup Promised(t.out)
  BY <1>1, StepEntries
<1>3. /\ engine[f].status # "timed_out"
      /\ engine[f].status = "running" => Hears(f)
  BY <1>1 DEF SilenceBounded, Alive
<1>4. SUFFICES ASSUME Hears(f) PROVE Hears(f)'
  BY <1>2, <1>3
<1>5. /\ engine[f].quiet \in Nat /\ engine[f].window.highest \in Int
      /\ engine[e].due \in Nat /\ engine[e].seq \in Nat
      /\ Bound(f) \in Nat
  BY <1>1, TimerTypes
<1>6. engine'[e].status = "running"
  BY <1>2 DEF Alive, Step, Timed, Errors
<1>7. CASE \E o \in owed[f] : /\ o.seq > engine[f].window.highest
                              /\ engine[f].quiet + o.left <= Bound(f) + MaxDelay
  BY <1>2, <1>7 DEF Hears, Bound
<1>8. CASE engine[f].quiet + engine[e].due <= Bound(f)
  <2>1. CASE t.engine.due = engine[e].due
    BY <1>1, <1>2, <1>6, <1>8, <2>1 DEF Hears, Bound
  <2>2. CASE engine[e].due = 0 /\ t.out # {}
    <3>1. PICK p \in t.out : TRUE
      BY <2>2
    <3>2. p.seq \in Nat /\ engine[e].seq <= p.seq
      BY DEF Step, Sends, Turn, Packet
    <3>3. engine[f].window.highest < engine[e].seq
      BY <1>1 DEF IInv, WindowBehindSender
    <3> DEFINE o == [seq |-> p.seq, left |-> MaxDelay]
    <3>4. o \in owed'[f]
      BY <1>1, <1>2, <3>1, WideFacts DEF Promised
    <3>5. /\ o.seq > engine'[f].window.highest
          /\ engine'[f].quiet + o.left <= Bound(f) + MaxDelay
      BY <1>2, <1>5, <1>8, <2>2, <3>2, <3>3
    <3> HIDE DEF o
    <3> QED BY <3>4, <3>5 DEF Hears, Bound
  <2> QED BY <2>1, <2>2 DEF Step, Timed
<1> QED BY <1>1, <1>4, <1>7, <1>8 DEF Hears

\* One tick: silence grows by one, and what ends it comes one nearer.
LEMMA TickHears ==
  ASSUME IInv, Tick, NEW e \in Endpoints, WideTimers(e), Alive(Peer(e)),
         engine[e].status = "running", Hears(e)
  PROVE  Hears(e)'
<1> DEFINE p == Peer(e)
<1>1. TypeOK /\ p \in Endpoints
  BY PeerFacts DEF IInv
<1>2. /\ engine[e].quiet \in Nat /\ engine[p].due \in Nat
      /\ startLeft[p] \in 0 .. StartSkew /\ Bound(e) \in Nat
      /\ \A o \in owed[e] : o.left \in 0 .. MaxDelay
  BY <1>1, TimerTypes
<1>3. TimersOn(e) /\ TimersOn(p)
  BY WideFacts
<1>4. Prompt(e) /\ Prompt(p) /\ engine'[e] = Clock(e) /\ engine'[p] = Clock(p)
      /\ startLeft'[p] = Less(startLeft[p])
      /\ owed'[e] = {[o EXCEPT !.left = Less(@)] : o \in owed[e]}
  BY <1>1 DEF Tick
<1>5. engine'[e].quiet = engine[e].quiet + 1 /\ engine'[e].window = engine[e].window
  BY <1>1, <1>3, <1>4 DEF Clock, TypeOK, Engine
<1>6. CASE engine[p].status = "starting" /\ engine[e].quiet + startLeft[p] <= StartSkew
  <2>1. startLeft[p] > 0 /\ engine'[p].status = "starting"
    BY <1>4, <1>6 DEF Prompt, Clock
  <2>2. startLeft'[p] = startLeft[p] - 1
    BY <1>4, <2>1 DEF Less
  <2> QED BY <1>2, <1>5, <1>6, <2>1, <2>2 DEF Hears
<1>7. CASE engine[p].status = "running" /\ engine[e].quiet + engine[p].due <= Bound(e)
  <2>1. engine[p].due > 0
    BY <1>3, <1>4, <1>7 DEF Prompt
  <2>2. engine'[p].due = engine[p].due - 1 /\ engine'[p].status = "running"
    BY <1>1, <1>3, <1>4, <1>7, <2>1 DEF Clock, Less, TypeOK, Engine
  <2> QED BY <1>2, <1>5, <1>7, <2>2 DEF Hears, Bound
<1>8. CASE \E o \in owed[e] : /\ o.seq > engine[e].window.highest
                              /\ engine[e].quiet + o.left <= Bound(e) + MaxDelay
  <2>1. PICK o \in owed[e] : /\ o.seq > engine[e].window.highest
                             /\ engine[e].quiet + o.left <= Bound(e) + MaxDelay
    BY <1>8
  <2>2. o.left > 0
    BY <1>4 DEF Prompt
  <2> DEFINE q == [o EXCEPT !.left = Less(@)]
  <2>3. q \in owed'[e]
    BY <1>4
  <2>4. o \in [seq : 0 .. MaxSequence, left : 0 .. MaxDelay]
    BY <1>1 DEF TypeOK
  <2>5. q.seq = o.seq /\ q.left = o.left - 1
    BY <2>2, <2>4 DEF Less
  <2> HIDE DEF q
  <2>6. q.seq > engine'[e].window.highest /\ engine'[e].quiet + q.left <= Bound(e) + MaxDelay
    BY <1>2, <1>5, <2>1, <2>5
  <2> QED BY <2>3, <2>6 DEF Hears, Bound
<1> QED BY <1>6, <1>7, <1>8 DEF Hears

LEMMA SilenceNext == IInv /\ SilenceBounded /\ [Next]_vars => SilenceBounded'
<1> SUFFICES ASSUME IInv, SilenceBounded, [Next]_vars PROVE SilenceBounded'
  OBVIOUS
<1>1. TypeOK /\ TypeOK'
  BY TypeNext DEF IInv
<1>2. ASSUME NEW e \in Endpoints, Start(e) PROVE SilenceBounded'
  <2> DEFINE p == Peer(e)
  <2>1. p \in Endpoints /\ p # e /\ Peer(p) = e
    BY PeerFacts
  <2>2. engine'[e] = NewEngine(e, "running") /\ engine'[p] = engine[p]
    BY <1>1, <1>2, <2>1 DEF Start, TypeOK
  <2>3. KeepaliveInterval[e] \in Nat
    BY TimersAssumption
  <2>4. engine'[e].due = KeepaliveInterval[e] /\ engine'[e].quiet = 0
        /\ engine'[e].status = "running"
    BY <2>2 DEF NewEngine
  <2>5. engine[p].due <= KeepaliveInterval[p]
    BY <2>1 DEF SilenceBounded
  <2>6. Alive(p)' => Hears(e)'
    <3>1. engine[p].due \in Nat /\ startLeft'[p] \in 0 .. StartSkew
          /\ KeepaliveInterval[p] \in Nat
      BY <1>1, <1>2, <2>1, TimerTypes DEF Start
    <3> QED BY <2>2, <2>4, <2>5, <3>1 DEF Hears, Alive, Bound
  <2>7. ASSUME WideTimers(p)
        PROVE  /\ engine'[p].status # "timed_out"
               /\ engine'[p].status = "running" => Hears(p)'
    <3>1. engine[e].status = "starting" /\ owed' = owed
      BY <1>2 DEF Start
    <3>2. /\ engine[p].status # "timed_out"
          /\ engine[p].status = "running" => Hears(p)
      BY <2>1, <2>7, <3>1 DEF SilenceBounded, Alive
    <3>3. ASSUME Hears(p) PROVE Hears(p)'
      <4>1. engine[p].quiet \in Nat /\ startLeft[e] \in Nat
        BY <1>1, <2>1, TimerTypes
      <4> QED BY <2>1, <2>2, <2>3, <2>4, <3>1, <3>3, <4>1 DEF Hears, Bound
    <3> QED BY <2>2, <3>2, <3>3
  <2>8. ASSUME NEW f \in Endpoints
        PROVE  /\ engine'[f].due <= KeepaliveInterval[f]
               /\ WideTimers(f) /\ Alive(Peer(f))' =>
                    /\ engine'[f].status # "timed_out"
                    /\ engine'[f].status = "running" => Hears(f)'
    <3>1. CASE f = e
      BY <2>3, <2>4, <2>6, <3>1
    <3>2. CASE f = p
      BY <2>2, <2>5, <2>7, <3>2
    <3> QED BY <3>1, <3>2, TwoEndpoints
  <2> QED BY <2>8 DEF SilenceBounded, WideTimers, TimersOn
<1>3. ASSUME NEW e \in Endpoints, Stop(e) PROVE SilenceBounded'
  <2> DEFINE p == Peer(e)
  <2>1. p \in Endpoints /\ p # e /\ Peer(p) = e
    BY PeerFacts
  <2>2. engine' = [engine EXCEPT ![e] = [engine[e] EXCEPT !.status = "stopped"]]
    BY <1>3 DEF Stop
  <2>3. /\ engine'[e].status = "stopped" /\ engine'[e].due = engine[e].due
        /\ engine'[p] = engine[p] /\ ~ Alive(e)'
    BY <1>1, <2>1, <2>2 DEF TypeOK, Engine, Alive
  <2>4. ASSUME NEW f \in Endpoints
        PROVE  /\ engine'[f].due <= KeepaliveInterval[f]
               /\ WideTimers(f) /\ Alive(Peer(f))' =>
                    /\ engine'[f].status # "timed_out"
                    /\ engine'[f].status = "running" => Hears(f)'
    <3>1. CASE f = e
      BY <2>3, <3>1 DEF SilenceBounded
    <3>2. CASE f = p
      BY <2>1, <2>3, <3>2 DEF SilenceBounded
    <3> QED BY <3>1, <3>2, TwoEndpoints
  <2> QED BY <2>4 DEF SilenceBounded, WideTimers, TimersOn
<1>4. ASSUME NEW e \in Endpoints, NEW size \in TunSizes \cup {0}, NEW d \in Datagrams(e),
             NEW fault \in FaultKinds, RunOnce(e, size, d, fault)
      PROVE SilenceBounded'
  <2> DEFINE p == Peer(e)
  <2>1. p \in Endpoints /\ p # e /\ Peer(p) = e
    BY PeerFacts
  <2>2. PICK t : Step(e, d, t) /\ Listens(e, d, t)
    BY <1>1, <1>4, RunOnceStep
  <2>3. FromPeer(e, d)
    BY <1>1, DatagramFacts DEF FromPeer
  <2>4. engine'[e] = t.engine /\ engine'[p] = engine[p]
    BY <1>1, <2>2, StepEntries
  <2>5. engine'[e].due <= KeepaliveInterval[e]
    BY <2>2, <2>4, TimersAssumption DEF Step, Timed, SilenceBounded
  <2>6. ASSUME NEW f \in Endpoints
        PROVE  /\ engine'[f].due <= KeepaliveInterval[f]
               /\ WideTimers(f) /\ Alive(Peer(f))' =>
                    /\ engine'[f].status # "timed_out"
                    /\ engine'[f].status = "running" => Hears(f)'
    <3>1. CASE f = e
      <4>1. Alive(p)' => Alive(p)
        BY <2>4 DEF Alive
      <4> QED BY <1>1, <2>2, <2>3, <2>5, <3>1, <4>1, StepAtListener
    <3>2. CASE f = p
      <4>1. engine'[p].due <= KeepaliveInterval[p]
        BY <2>1, <2>4 DEF SilenceBounded
      <4> QED BY <1>1, <2>1, <2>2, <3>2, <4>1, StepAtSpeaker
    <3> QED BY <3>1, <3>2, TwoEndpoints
  <2> QED BY <2>6 DEF SilenceBounded, WideTimers, TimersOn
<1>5. CASE Tick
  <2>1. ASSUME NEW f \in Endpoints
        PROVE  /\ engine'[f].due <= KeepaliveInterval[f]
               /\ engine'[f].status = engine[f].status
    <3>1. engine[f] \in Engine /\ engine'[f] = Clock(f)
          /\ KeepaliveInterval[f] \in Nat /\ engine[f].due <= KeepaliveInterval[f]
      BY <1>1, <1>5, TimersAssumption DEF Tick, TypeOK, SilenceBounded
    <3> QED BY <3>1 DEF Clock, Engine, Less
  <2>2. ASSUME NEW f \in Endpoints
        PROVE  /\ engine'[f].due <= KeepaliveInterval[f]
               /\ WideTimers(f) /\ Alive(Peer(f))' =>
                    /\ engine'[f].status # "timed_out"
                    /\ engine'[f].status = "running" => Hears(f)'
    <3>1. Alive(Peer(f))' => Alive(Peer(f))
      BY <2>1, PeerFacts DEF Alive
    <3> QED BY <1>5, <2>1, <3>1, TickHears DEF SilenceBounded
  <2> QED BY <2>2 DEF SilenceBounded, WideTimers, TimersOn
<1>6. CASE UNCHANGED vars
  BY <1>6 DEF vars, SilenceBounded, WideTimers, TimersOn, Alive, Hears, Bound
<1> QED BY <1>2, <1>3, <1>4, <1>5, <1>6 DEF Next

\* For all intervals, timeouts, delays and skews: on a network that loses
\* nothing, with StartSkew + interval + MaxDelay below the liveness timeout, an
\* engine times out only after its peer's run has ended.
THEOREM NoFalseTimeouts == Spec => []NoFalseTimeout
<1>1. Spec => []SilenceBounded
  BY SilenceInit, SilenceNext, Invariance, PTL DEF Spec
<1>2. SilenceBounded => NoFalseTimeout
  BY DEF SilenceBounded, NoFalseTimeout
<1> QED BY <1>1, <1>2, PTL

(***************************************************************************)
(* What is late is not lost: MarkedIsWritten is inductive under IInv.      *)
(***************************************************************************)

\* Every DATA number that is marked in the window of an engine was written to
\* TUN, unless the write was what ended the engine.
MarkedIsWritten ==
  Encrypted =>
    \A e \in Endpoints, n \in 0 .. MaxSequence :
      /\ IsReplay(engine[e].window, n)
      /\ engine[e].window.highest - n < Size
      /\ [seq |-> n, type |-> "DATA"] \in sent[Peer(e)]
      => delivered[e][n] = 1 \/ engine[e].status = "os_error"

LEMMA MarkedInit == Init => MarkedIsWritten
BY PeerFacts DEF Init, MarkedIsWritten

LEMMA StepMarked ==
  ASSUME IInv, MarkedIsWritten, NEW e \in Endpoints, NEW d, FromPeer(e, d), NEW t, Step(e, d, t)
  PROVE  MarkedIsWritten'
<1> SUFFICES ASSUME Encrypted, NEW f \in Endpoints, NEW n \in 0 .. MaxSequence,
                    IsReplay(engine'[f].window, n),
                    engine'[f].window.highest - n < Size,
                    [seq |-> n, type |-> "DATA"] \in sent'[Peer(f)]
             PROVE  delivered'[f][n] = 1 \/ engine'[f].status = "os_error"
  BY DEF MarkedIsWritten
<1>1. TypeOK /\ WindowBehindSender /\ NoncesAreFresh /\ WrittenIsMarked
  BY DEF IInv
<1>2. /\ engine'[e] = t.engine /\ engine'[Peer(e)] = engine[Peer(e)]
      /\ sent'[e] = sent[e] \cup t.out /\ sent'[Peer(e)] = sent[Peer(e)]
      /\ delivered'[Peer(e)] = delivered[Peer(e)]
      /\ delivered'[e][n] = IF n \in t.wrote THEN Once(delivered[e][n]) ELSE delivered[e][n]
  BY <1>1, StepEntries
<1>3. engine[e].status = "running"
  BY DEF Step
<1>4. CASE f = Peer(e)
  <2>1. Peer(f) = e
    BY <1>4, PeerFacts
  <2>2. engine[f].window \in Window /\ engine[e].seq \in Int /\ n \in Nat
    BY <1>1 DEF TypeOK, Engine
  <2>3. n < engine[e].seq
    <3>1. n <= engine[f].window.highest
      BY <1>2, <1>4, <2>2, HighestFacts
    <3>2. engine[f].window.highest < engine[e].seq
      BY <1>1, <2>1 DEF WindowBehindSender
    <3> QED BY <2>2, <3>1, <3>2 DEF Window
  <2>4. [seq |-> n, type |-> "DATA"] \notin t.out
    BY <2>2, <2>3 DEF Step, Sends, Turn, Packet
  <2>5. [seq |-> n, type |-> "DATA"] \in sent[Peer(f)]
    BY <1>2, <2>1, <2>4
  <2>6. IsReplay(engine[f].window, n) /\ engine[f].window.highest - n < Size
    BY <1>2, <1>4
  <2>7. delivered[f][n] = 1 \/ engine[f].status = "os_error"
    BY <2>5, <2>6 DEF MarkedIsWritten
  <2> QED BY <1>2, <1>4, <2>7
<1>5. CASE f = e
  <2>1. [seq |-> n, type |-> "DATA"] \in sent[Peer(e)]
    BY <1>2, <1>5
  <2>2. engine[e].window \in Window /\ n \in Nat /\ d.seq \in Nat
    BY <1>1 DEF TypeOK, Engine, FromPeer
  <2>3. ASSUME IsReplay(engine[e].window, n), engine[e].window.highest - n < Size, n \notin t.wrote
        PROVE  delivered'[e][n] = 1
    BY <1>2, <1>3, <2>1, <2>3 DEF MarkedIsWritten
  <2>4. CASE Leaves(engine[e], t)
    BY <1>2, <1>5, <2>3, <2>4 DEF Leaves
  <2>5. CASE Takes(engine[e], t, d)
    <3>1. /\ ~ IsReplay(engine[e].window, d.seq)
          /\ t.engine.window = MarkAuthenticated(engine[e].window, d.seq)
          /\ d.kind = "peer"
      BY <2>5 DEF Takes
    <3>2. CASE n = d.seq
      <4>1. [seq |-> d.seq, type |-> d.type] \in sent[Peer(e)]
        BY <3>1 DEF FromPeer
      <4>2. [seq |-> d.seq, type |-> d.type] = [seq |-> n, type |-> "DATA"]
        BY <1>1, <2>1, <3>2, <4>1, PeerFacts DEF NoncesAreFresh
      <4>3. d.type = "DATA"
        BY <4>2
      <4>4. t.wrote = {n} \/ t.engine.status = "os_error"
        BY <2>5, <3>2, <4>3 DEF Takes
      <4>5. delivered[e][n] = 0
        BY <1>1, <3>1, <3>2 DEF WrittenIsMarked, TypeOK
      <4> QED BY <1>2, <1>5, <4>4, <4>5 DEF Once
    <3>3. CASE n # d.seq
      <4>1. IsReplay(engine[e].window, n) /\ engine[e].window.highest - n < Size
        BY <1>2, <1>5, <2>2, <3>1, <3>3, OnlyMarkedIsNew
      <4>2. n \notin t.wrote
        BY <2>5, <3>3 DEF Takes
      <4> QED BY <1>5, <2>3, <4>1, <4>2
    <3> QED BY <3>2, <3>3
  <2> QED BY <2>4, <2>5 DEF Step
<1> QED BY <1>4, <1>5, TwoEndpoints

\* Where windows and histories stay and an engine that failed stays failed.
LEMMA KeepsMarked ==
  ASSUME MarkedIsWritten, sent' = sent, delivered' = delivered,
         \A e \in Endpoints :
           /\ engine'[e].window = engine[e].window
           /\ engine[e].status = "os_error" => engine'[e].status = "os_error"
  PROVE  MarkedIsWritten'
BY DEF MarkedIsWritten

LEMMA MarkedNext == IInv /\ MarkedIsWritten /\ [Next]_vars => MarkedIsWritten'
<1> SUFFICES ASSUME IInv, MarkedIsWritten, [Next]_vars PROVE MarkedIsWritten'
  OBVIOUS
<1>1. TypeOK
  BY DEF IInv
<1>2. ASSUME NEW e \in Endpoints, Start(e) PROVE MarkedIsWritten'
  <2>1. engine[e] = NewEngine(e, "starting")
    BY <1>2 DEF Start, IInv, Unstarted
  <2>2. engine' = [engine EXCEPT ![e] = NewEngine(e, "running")]
    BY <1>2 DEF Start
  <2>3. \A f \in Endpoints :
          /\ engine'[f].window = engine[f].window
          /\ engine[f].status = "os_error" => engine'[f].status = "os_error"
    BY <1>1, <2>1, <2>2 DEF NewEngine, TypeOK
  <2> QED BY <1>2, <2>3, KeepsMarked DEF Start
<1>3. ASSUME NEW e \in Endpoints, Stop(e) PROVE MarkedIsWritten'
  <2>1. engine' = [engine EXCEPT ![e] = [engine[e] EXCEPT !.status = "stopped"]]
    BY <1>3 DEF Stop
  <2>2. engine[e].status # "os_error"
    BY <1>3 DEF Stop, Alive
  <2>3. \A f \in Endpoints :
          /\ engine'[f].window = engine[f].window
          /\ engine[f].status = "os_error" => engine'[f].status = "os_error"
    BY <1>1, <2>1, <2>2 DEF TypeOK, Engine
  <2> QED BY <1>3, <2>3, KeepsMarked DEF Stop
<1>4. ASSUME NEW e \in Endpoints, NEW size \in TunSizes \cup {0}, NEW d \in Datagrams(e),
             NEW fault \in FaultKinds, RunOnce(e, size, d, fault)
      PROVE MarkedIsWritten'
  <2>1. PICK t : Step(e, d, t)
    BY <1>1, <1>4, RunOnceStep
  <2>2. FromPeer(e, d)
    BY <1>1, DatagramFacts DEF FromPeer
  <2> QED BY <2>1, <2>2, StepMarked
<1>5. CASE Tick
  <2>1. ASSUME NEW f \in Endpoints
        PROVE  engine'[f].window = engine[f].window /\ engine'[f].status = engine[f].status
    <3>1. engine[f] \in Engine /\ engine'[f] = Clock(f)
      BY <1>1, <1>5 DEF Tick, TypeOK
    <3> QED BY <3>1 DEF Clock, Engine
  <2> QED BY <1>5, <2>1, KeepsMarked DEF Tick
<1>6. CASE UNCHANGED vars
  BY <1>6, KeepsMarked DEF vars
<1> QED BY <1>2, <1>3, <1>4, <1>5, <1>6 DEF Next

\* An iteration that takes a packet's first copy off the network.
LEMMA LateIsWritten ==
  ASSUME IInv, MarkedIsWritten, [Next]_vars, NEW e \in Endpoints, NEW n \in 0 .. MaxSequence,
         \E o \in owed[e] : o.seq = n,
         ~ \E o \in owed'[e] : o.seq = n,
         [seq |-> n, type |-> "DATA"] \in sent[Peer(e)],
         delivered[e][n] = 0,
         engine[e].window.highest - n < Size
  PROVE  delivered'[e][n] = 1 \/ engine'[e].status = "os_error"
<1>1. TypeOK /\ NoncesAreFresh
  BY DEF IInv
<1>2. PICK o \in owed[e] : o.seq = n /\ o \notin owed'[e]
  OBVIOUS
<1>3. CASE Tick
  <2>1. owed'[e] = {[q EXCEPT !.left = Less(@)] : q \in owed[e]}
    BY <1>1, <1>3 DEF Tick
  <2>2. o \in [seq : 0 .. MaxSequence, left : 0 .. MaxDelay]
    BY <1>1 DEF TypeOK
  <2>3. [o EXCEPT !.left = Less(@)] \in owed'[e] /\ [o EXCEPT !.left = Less(@)].seq = n
    BY <1>2, <2>1, <2>2
  <2> QED BY <2>3
<1>4. ASSUME NEW f \in Endpoints, NEW size \in TunSizes \cup {0}, NEW d \in Datagrams(f),
             NEW fault \in FaultKinds, RunOnce(f, size, d, fault)
      PROVE  delivered'[e][n] = 1 \/ engine'[e].status = "os_error"
  <2>1. PICK t : Step(f, d, t) /\ Listens(f, d, t)
    BY <1>1, <1>4, RunOnceStep
  <2>2. FromPeer(f, d)
    BY <1>1, DatagramFacts DEF FromPeer
  <2>3. f = e
    <3>1. CASE e = Peer(f)
      BY <1>1, <1>2, <2>1, <3>1, StepEntries
    <3> QED BY <3>1, TwoEndpoints
  <2>4. /\ engine'[e] = t.engine
        /\ delivered'[e][n] = IF n \in t.wrote THEN Once(delivered[e][n]) ELSE delivered[e][n]
        /\ d.kind = "peer" /\ d.seq = n
    BY <1>1, <1>2, <2>1, <2>3, StepEntries
  <2>5. [seq |-> n, type |-> d.type] \in sent[Peer(e)]
    BY <2>2, <2>3, <2>4 DEF FromPeer
  <2>6. [seq |-> n, type |-> d.type] = [seq |-> n, type |-> "DATA"]
    BY <1>1, <2>5, PeerFacts DEF NoncesAreFresh
  <2>7. d.type = "DATA"
    BY <2>6
  <2>8. Takes(engine[e], t, d)
    <3>1. engine[e].status = "running"
      BY <2>1, <2>3 DEF Step
    <3>2. ~ (Encrypted /\ IsReplay(engine[e].window, n))
      BY <3>1 DEF MarkedIsWritten
    <3> QED BY <1>2, <2>1, <2>3, <2>4, <3>2 DEF Listens
  <2>9. t.wrote = {n} \/ t.engine.status = "os_error"
    BY <2>4, <2>7, <2>8 DEF Takes
  <2> QED BY <2>4, <2>9 DEF Once
<1>5. CASE owed' = owed
  BY <1>2, <1>5
<1>6. \/ Tick
      \/ owed' = owed
      \/ \E f \in Endpoints, size \in TunSizes \cup {0}, fault \in FaultKinds :
           \E d \in Datagrams(f) : RunOnce(f, size, d, fault)
  BY DEF Next, vars, Start, Stop
<1> QED BY <1>3, <1>4, <1>5, <1>6

\* For every window size and every order in which the network delivers: the
\* first copy of a DATA packet that is read fewer than Size numbers behind the
\* newest is written to TUN at once.
THEOREM LatePacketsAreWritten == Spec => LateInWindowIsWritten
<1>1. IInv /\ MarkedIsWritten /\ [Next]_vars =>
        [\A e \in Endpoints : \A n \in 0 .. MaxSequence :
           /\ \E o \in owed[e] : o.seq = n
           /\ ~ \E o \in owed'[e] : o.seq = n
           /\ [seq |-> n, type |-> "DATA"] \in sent[Peer(e)]
           /\ delivered[e][n] = 0
           /\ engine[e].window.highest - n < Size
           => delivered'[e][n] = 1 \/ engine'[e].status = "os_error"]_vars
  BY LateIsWritten
<1>2. Spec => []MarkedIsWritten
  BY MarkedInit, MarkedNext, Invariance, PTL DEF Spec
<1> QED BY <1>1, <1>2, Invariance, PTL DEF Spec, LateInWindowIsWritten
=============================================================================
