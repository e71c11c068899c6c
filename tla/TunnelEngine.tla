----------------------------- MODULE TunnelEngine -----------------------------
(***************************************************************************)
(* Two TunnelEngine objects (engine.py) of one session, one at each end of *)
(* a UDP path, with their clocks.                                          *)
(*                                                                         *)
(* One action RunOnce is one whole iteration of run_once: at most one      *)
(* packet from TUN, at most one datagram from the socket, then the         *)
(* keepalive timer, then the liveness timer.  Time is counted in ticks.  An*)
(* engine whose timer is due runs before time goes on (its select timeout  *)
(* is the time left to the nearer of its two timers), and so does one that *)
(* a datagram has reached.                                                 *)
(*                                                                         *)
(* The network reorders and duplicates without limit: any packet the peer  *)
(* ever sent may be read at any time.  Unless it is Lossy it also delivers *)
(* every packet within MaxDelay ticks: "owed" holds what it has yet to     *)
(* deliver for the first time.                                             *)
(***************************************************************************)
EXTENDS SlidingWindow

CONSTANTS
  Encrypted,          \* a session cipher is used
  KeepaliveInterval,  \* per endpoint, in ticks; 0 switches the timers off
  LivenessTimeout,    \* per endpoint, in ticks
  MaxSequence,        \* MAX_SEQUENCE_NUMBER, the last number the header holds
  MaxTunPacket,       \* the largest payload that fits one sealed datagram
  TunSizes,           \* the sizes of the packets the kernel hands over
  MaxDelay,           \* ticks a datagram may take
  StartSkew,          \* ticks between the constructions of the two engines
  Lossy,              \* the network may lose datagrams
  Faults,             \* system calls may fail
  Stoppable           \* the endpoints whose process may be stopped

Endpoints == {"client", "server"}

Peer(e) == IF e = "client" THEN "server" ELSE "client"

ASSUME ConstantsAssumption ==
  /\ Encrypted \in BOOLEAN /\ Lossy \in BOOLEAN /\ Faults \in BOOLEAN
  /\ MaxSequence \in Nat /\ MaxDelay \in Nat /\ StartSkew \in Nat
  /\ MaxTunPacket \in Nat \ {0} /\ TunSizes \subseteq Nat \ {0}
  /\ Stoppable \subseteq Endpoints

\* The constructor: both timers or neither, and the timeout is the longer.
\* cli.py and config.py allow them only with an ephemeral, encrypted session.
ASSUME TimersAssumption ==
  /\ KeepaliveInterval \in [Endpoints -> Nat]
  /\ LivenessTimeout \in [Endpoints -> Nat]
  /\ \A e \in Endpoints :
       /\ KeepaliveInterval[e] = 0 <=> LivenessTimeout[e] = 0
       /\ KeepaliveInterval[e] > 0 => KeepaliveInterval[e] < LivenessTimeout[e]
       /\ KeepaliveInterval[e] > 0 => Encrypted

VARIABLES
  engine,     \* per endpoint, the TunnelEngine object and how its run ended
  sent,       \* per endpoint, every packet it has sent in this session
  owed,       \* per endpoint, the packets the network has yet to deliver to it
  delivered,  \* history: how often the packet of each number was written to TUN
  startLeft   \* per endpoint, ticks it has left to be constructed

vars == <<engine, sent, owed, delivered, startLeft>>

(***************************************************************************)
(* State.  quiet is the time since the last authenticated receive, due the *)
(* time left to the next keepalive.  The last five values of status are    *)
(* how run() ended: TimeoutError, OSError, ValueError, OverflowError, or   *)
(* the process was stopped.                                                *)
(***************************************************************************)
Status == {"starting", "running",
           "timed_out", "os_error", "value_error", "overflow", "stopped"}

Engine == [status : Status, seq : 0 .. MaxSequence + 1, window : Window,
           quiet : Nat, due : Nat]

Packet == [seq : 0 .. MaxSequence, type : {"DATA", "KEEPALIVE"}]

\* __init__: the first keepalive is due one interval after construction.
NewEngine(e, status) ==
  [status |-> status, seq |-> 0, window |-> EmptyWindow,
   quiet |-> 0, due |-> KeepaliveInterval[e]]

Alive(e) == engine[e].status \in {"starting", "running"}

TimersOn(e) == KeepaliveInterval[e] > 0

(***************************************************************************)
(* One iteration, carried in a record: the engine, the packets it has sent *)
(* in this iteration, and the numbers it has written to TUN.               *)
(***************************************************************************)
Turn == [engine : Engine, out : SUBSET Packet, wrote : SUBSET (0 .. MaxSequence)]

Ended(t, status) == [t EXCEPT !.engine.status = status]

Running(t) == t.engine.status = "running"

\* Bug: one number too many is used.
ExhaustedLate(n) == n > MaxSequence + 1

\* No number is left for a next packet.
Exhausted(n) == n > MaxSequence

\* Bug: only DATA advances the number.
TransmitReusing(t, type) ==
  [t EXCEPT !.engine.seq = IF type = "DATA" THEN @ + 1 ELSE @,
            !.out = @ \cup {[seq |-> t.engine.seq, type |-> type]}]

\* The packet is on the wire; only then is its number spent.
Transmit(t, type) ==
  [t EXCEPT !.engine.seq = @ + 1,
            !.out = @ \cup {[seq |-> t.engine.seq, type |-> type]}]

\* _send_packet.  A payload with no room for its tag in a datagram makes encrypt
\* (or, without a cipher, Packet.encode) raise ValueError.
SendPacket(t, type, size, fault) ==
  IF Exhausted(t.engine.seq) THEN Ended(t, "overflow")
  ELSE IF size > MaxTunPacket THEN Ended(t, "value_error")
  ELSE IF fault = "send" THEN Ended(t, "os_error")
  ELSE Transmit(t, type)

\* The write to TUN at the end of _receive_udp_packet.
WriteTun(t, n, fault) ==
  IF fault = "write" THEN Ended(t, "os_error") ELSE [t EXCEPT !.wrote = @ \cup {n}]

\* Bug: a keepalive's empty payload is written to TUN as well.
HasPayloadAlways(d) == TRUE

HasPayload(d) == d.type = "DATA"

\* Bug: only DATA counts as a sign of life.
AuthenticateData(t, d) ==
  [t EXCEPT !.engine.window = MarkAuthenticated(@, d.seq),
            !.engine.quiet = IF d.type = "DATA" THEN 0 ELSE @]

\* The tag has verified: the number is marked, the liveness clock restarts.
Authenticate(t, d) ==
  [t EXCEPT !.engine.window = MarkAuthenticated(@, d.seq), !.engine.quiet = 0]

\* Bug: the liveness clock restarts for a replay as well.
RefuseRefreshing(t, d) ==
  [t EXCEPT !.engine.quiet = IF d.kind = "peer" THEN 0 ELSE @]

\* Every early return comes before any state is touched.
Refuse(t, d) == t

\* _receive_udp_packet.  Strays and numbers the window refuses are dropped; a
\* packet of the peer that carries a payload reaches TUN.
ReceiveUdp(t, d, fault) ==
  IF d.kind # "peer" \/ (Encrypted /\ IsReplay(t.engine.window, d.seq))
  THEN Refuse(t, d)
  ELSE LET u == IF Encrypted THEN Authenticate(t, d) ELSE t
       IN IF HasPayload(d) THEN WriteTun(u, d.seq, fault) ELSE u

\* The end of run_once: first the keepalive, then the liveness test.
CheckTimers(t, e, fault) ==
  IF ~ TimersOn(e) THEN t
  ELSE LET u == IF t.engine.due = 0
                THEN LET s == SendPacket(t, "KEEPALIVE", 0, fault) IN
                     IF Running(s)
                     THEN [s EXCEPT !.engine.due = KeepaliveInterval[e]] ELSE s
                ELSE t
       IN IF Running(u) /\ u.engine.quiet >= LivenessTimeout[e]
          THEN Ended(u, "timed_out") ELSE u

\* An exception leaves run_once at once: a later part runs only if the earlier
\* ones did not end the engine.
Iteration(e, size, d, fault) ==
  LET t0 == [engine |-> engine[e], out |-> {}, wrote |-> {}]
      t1 == IF size = 0 THEN t0 ELSE SendPacket(t0, "DATA", size, fault)
      t2 == IF Running(t1) THEN ReceiveUdp(t1, d, fault) ELSE t1
  IN  IF Running(t2) THEN CheckTimers(t2, e, fault) ELSE t2

(***************************************************************************)
(* Inputs.  The socket offers nothing, a stray datagram (one that does not *)
(* decode, comes from another address, names another session, has another  *)
(* type, or does not authenticate), or a packet the peer has sent.         *)
(***************************************************************************)
Strays ==
  {"malformed", "other_address", "other_session", "other_type"}
    \cup (IF Encrypted THEN {"forged"} ELSE {})

Datagrams(e) ==
  {[kind |-> k, seq |-> 0, type |-> "DATA"] : k \in Strays \cup {"none"}}
    \cup {[kind |-> "peer", seq |-> p.seq, type |-> p.type] : p \in sent[Peer(e)]}

FaultKinds == {"none"} \cup (IF Faults THEN {"send", "write"} ELSE {})

(***************************************************************************)
(* Actions                                                                 *)
(***************************************************************************)
Init ==
  /\ engine = [e \in Endpoints |-> NewEngine(e, "starting")]
  /\ sent = [e \in Endpoints |-> {}]
  /\ owed = [e \in Endpoints |-> {}]
  /\ delivered = [e \in Endpoints |-> [n \in 0 .. MaxSequence |-> 0]]
  /\ startLeft = [e \in Endpoints |-> StartSkew]

\* cli.py: the handshake is done, TUN is configured, the engine is built.
Start(e) ==
  /\ engine[e].status = "starting"
  /\ engine' = [engine EXCEPT ![e] = NewEngine(e, "running")]
  /\ UNCHANGED <<sent, owed, delivered, startLeft>>

\* What the network promises to deliver: each packet, within MaxDelay.
Promised(packets) ==
  IF Lossy THEN {} ELSE {[seq |-> p.seq, left |-> MaxDelay] : p \in packets}

\* A history count; two is as good as more.
Once(n) == IF n = 0 THEN 1 ELSE 2

\* One iteration of run_once.  The datagram is off the socket only if the part
\* that reads it was reached.
RunOnce(e, size, d, fault) ==
  LET t == Iteration(e, size, d, fault)
      reached == size = 0
                   \/ Running(SendPacket([engine |-> engine[e], out |-> {}, wrote |-> {}],
                                         "DATA", size, fault))
      read == IF reached /\ d.kind = "peer" THEN {o \in owed[e] : o.seq = d.seq} ELSE {}
  IN  /\ engine[e].status = "running"
      /\ engine' = [engine EXCEPT ![e] = t.engine]
      /\ sent' = [sent EXCEPT ![e] = @ \cup t.out]
      /\ owed' = [owed EXCEPT ![e] = @ \ read, ![Peer(e)] = @ \cup Promised(t.out)]
      /\ delivered' = [delivered EXCEPT ![e] =
           [n \in 0 .. MaxSequence |-> IF n \in t.wrote THEN Once(@[n]) ELSE @[n]]]
      /\ UNCHANGED startLeft

\* The process is stopped or dies.
Stop(e) ==
  /\ e \in Stoppable
  /\ Alive(e)
  /\ engine' = [engine EXCEPT ![e].status = "stopped"]
  /\ UNCHANGED <<sent, owed, delivered, startLeft>>

\* No running engine has a timer due or a datagram waiting that is out of time.
Prompt(e) ==
  /\ engine[e].status = "starting" => startLeft[e] > 0
  /\ engine[e].status = "running" =>
       /\ TimersOn(e) => engine[e].due > 0 /\ engine[e].quiet < LivenessTimeout[e]
       /\ \A o \in owed[e] : o.left > 0

Less(n) == IF n > 0 THEN n - 1 ELSE 0

\* The clock of an engine without timers is never read; it stands still.
Clock(e) ==
  IF engine[e].status = "running" /\ TimersOn(e)
  THEN [engine[e] EXCEPT !.quiet = @ + 1, !.due = Less(@)]
  ELSE engine[e]

Tick ==
  /\ \A e \in Endpoints : Prompt(e)
  /\ engine' = [e \in Endpoints |-> Clock(e)]
  /\ owed' = [e \in Endpoints |-> {[o EXCEPT !.left = Less(@)] : o \in owed[e]}]
  /\ startLeft' = [e \in Endpoints |-> Less(startLeft[e])]
  /\ UNCHANGED <<sent, delivered>>

Next ==
  \/ \E e \in Endpoints :
       \/ Start(e)
       \/ Stop(e)
       \/ \E size \in TunSizes \cup {0}, d \in Datagrams(e), fault \in FaultKinds :
            RunOnce(e, size, d, fault)
  \/ Tick

\* The process scheduler runs an engine whose select has returned, select
\* returns for a due timer and for a waiting datagram, and time goes on.
Idle(e) == \E d \in Datagrams(e) : RunOnce(e, 0, d, "none")

Reads(e, n) ==
  /\ \E o \in owed[e] : o.seq = n
  /\ \E d \in Datagrams(e) : d.kind = "peer" /\ d.seq = n /\ RunOnce(e, 0, d, "none")

Fairness ==
  /\ WF_vars(Tick)
  /\ \A e \in Endpoints :
       /\ WF_vars(Start(e))
       /\ WF_vars(Idle(e))
       /\ \A n \in 0 .. MaxSequence : WF_vars(Reads(e, n))

Spec == Init /\ [][Next]_vars

FairSpec == Spec /\ Fairness

(***************************************************************************)
(* Properties                                                              *)
(***************************************************************************)

\* Type invariant.  No number past MaxSequence is ever sent.
TypeOK ==
  /\ engine \in [Endpoints -> Engine]
  /\ sent \in [Endpoints -> SUBSET Packet]
  /\ owed \in [Endpoints -> SUBSET [seq : 0 .. MaxSequence, left : 0 .. MaxDelay]]
  /\ delivered \in [Endpoints -> [0 .. MaxSequence -> 0 .. 2]]
  /\ startLeft \in [Endpoints -> 0 .. StartSkew]

\* Nonce discipline: within a session no two packets share a number, and the
\* number the next packet will take is above every number already sent, DATA
\* and KEEPALIVE together (engine.py, _send_packet; the nonce is made of the
\* session and this number).
NoncesAreFresh ==
  \A e \in Endpoints :
    /\ \A p \in sent[e] : p.seq < engine[e].seq
    /\ \A p, q \in sent[e] : p.seq = q.seq => p = q

\* With a cipher, no packet reaches TUN twice, however often and in whatever
\* order the network hands datagrams over.
AtMostOnce ==
  Encrypted => \A e \in Endpoints, n \in 0 .. MaxSequence : delivered[e][n] <= 1

\* What reaches TUN is a DATA packet that the peer took from its own TUN in
\* this session: never a keepalive, a stray or a packet nobody sent.
OnlyPeerData ==
  \A e \in Endpoints, n \in 0 .. MaxSequence :
    delivered[e][n] > 0 => [seq |-> n, type |-> "DATA"] \in sent[Peer(e)]

\* A DATA packet that is read for the first time fewer than Size numbers behind
\* the newest is written to TUN in that iteration, unless the write fails:
\* reordering inside the window costs nothing.
LateInWindowIsWritten ==
  [][\A e \in Endpoints : \A n \in 0 .. MaxSequence :
       /\ \E o \in owed[e] : o.seq = n
       /\ ~ \E o \in owed'[e] : o.seq = n
       /\ [seq |-> n, type |-> "DATA"] \in sent[Peer(e)]
       /\ delivered[e][n] = 0
       /\ engine[e].window.highest - n < Size
       => delivered'[e][n] = 1 \/ engine'[e].status = "os_error"]_vars

\* The timers are wide enough for this network: the peer starts within the
\* skew, sends a keepalive every interval and it takes at most MaxDelay.
WideTimers(e) ==
  /\ ~ Lossy
  /\ TimersOn(Peer(e))
  /\ StartSkew + KeepaliveInterval[Peer(e)] + MaxDelay < LivenessTimeout[e]

\* On such a network an engine never declares a live peer dead, whatever
\* replays and strays are mixed into the traffic.
NoFalseTimeout ==
  \A e \in Endpoints :
    WideTimers(e) /\ engine[e].status = "timed_out" => ~ Alive(Peer(e))

\* Keepalives do not use up the numbers before the timeout has passed.
NumbersLast(e) ==
  /\ TunSizes = {}
  /\ engine[e].seq + (LivenessTimeout[e] + MaxDelay) \div KeepaliveInterval[e] < MaxSequence

\* A peer that has stopped is noticed: the engine with timers ends its run, even
\* while the network goes on replaying what the peer once sent (run_once's
\* liveness test; the clock it reads is restarted by new packets only).
DeadPeerDetected ==
  \A e \in Endpoints :
    (~ Lossy /\ TimersOn(e) /\ NumbersLast(e) /\ ~ Alive(Peer(e)))
      ~> engine[e].status \in {"timed_out", "os_error", "stopped"}

\* What the README says becomes of a packet read from TUN: it is framed,
\* encrypted and transmitted; no packet the kernel hands over ends the engine.
TunPacketsAreCarried ==
  \A e \in Endpoints : engine[e].status # "value_error"
=============================================================================
