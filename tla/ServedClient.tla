----------------------------- MODULE ServedClient -----------------------------
(***************************************************************************)
(* A client's TunnelEngine connected to the multi-client server, with the  *)
(* client's clock.  The client is that of TunnelEngine, timers and all; at *)
(* the other end stands the server's session for it, which has no timers:  *)
(* MultiClientServerEngine (multi_client.py) sends DATA only, and only when*)
(* its TUN hands it a packet for this client.                              *)
(*                                                                         *)
(* The fields quiet and due of engine["server"] are not used.              *)
(***************************************************************************)
EXTENDS TunnelEngine

CONSTANT TrafficGap   \* the most ticks between two packets for this client from
                      \* the server's TUN

ASSUME ServedAssumption ==
  /\ TrafficGap \in Nat \ {0}
  /\ Encrypted
  /\ KeepaliveInterval["server"] = 0
  /\ KeepaliveInterval["client"] > 0

VARIABLE silence    \* ticks since the server's TUN last had one

servedVars == <<vars, silence>>

\* Bug: the number is not advanced.
HandleTunReusing(t, size, fault) ==
  [SendPacket(t, "DATA", size, fault) EXCEPT !.engine.seq = t.engine.seq]

\* handle_tun_packet, for a packet routed to this client: the same checks in the
\* same order as _send_packet.
HandleTun(t, size, fault) == SendPacket(t, "DATA", size, fault)

\* handle_udp_packet.  A KEEPALIVE is dropped before anything is looked at: it
\* does not enter the window.
HandleUdp(t, d, fault) ==
  IF d.kind # "peer" \/ d.type # "DATA" \/ IsReplay(t.engine.window, d.seq) THEN t
  ELSE WriteTun([t EXCEPT !.engine.window = MarkAuthenticated(@, d.seq)], d.seq, fault)

\* One iteration of the server, as far as this session is concerned.
ServerIteration(size, d, fault) ==
  LET t0 == [engine |-> engine["server"], out |-> {}, wrote |-> {}]
      t1 == IF size = 0 THEN t0 ELSE HandleTun(t0, size, fault)
  IN  IF Running(t1) THEN HandleUdp(t1, d, fault) ELSE t1

ServeOnce(size, d, fault) ==
  LET t == ServerIteration(size, d, fault)
      read == IF d.kind = "peer" THEN {o \in owed["server"] : o.seq = d.seq} ELSE {}
  IN  /\ engine["server"].status = "running"
      /\ engine' = [engine EXCEPT !["server"] = t.engine]
      /\ sent' = [sent EXCEPT !["server"] = @ \cup t.out]
      /\ owed' = [owed EXCEPT !["server"] = @ \ read, !["client"] = @ \cup Promised(t.out)]
      /\ delivered' = [delivered EXCEPT !["server"] =
           [n \in 0 .. MaxSequence |-> IF n \in t.wrote THEN Once(@[n]) ELSE @[n]]]
      /\ silence' = IF size = 0 THEN silence ELSE 0
      /\ UNCHANGED startLeft

\* Time passes; the TUN of a server that is up does not pause for too long.
Pass ==
  /\ Tick
  /\ IF engine["server"].status = "running"
     THEN silence < TrafficGap /\ silence' = silence + 1
     ELSE UNCHANGED silence

\* The server has accepted the hello before the client's engine is built.
ServedInit == Init /\ silence = 0

ServedNext ==
  \/ Start("server") /\ UNCHANGED silence
  \/ engine["server"].status # "starting" /\ Start("client") /\ UNCHANGED silence
  \/ \E e \in Endpoints : Stop(e) /\ UNCHANGED silence
  \/ \E size \in TunSizes \cup {0}, d \in Datagrams("client"), fault \in FaultKinds :
       RunOnce("client", size, d, fault) /\ UNCHANGED silence
  \/ \E size \in TunSizes \cup {0}, d \in Datagrams("server"), fault \in FaultKinds :
       ServeOnce(size, d, fault)
  \/ Pass

ServedSpec == ServedInit /\ [][ServedNext]_servedVars

\* Traffic from the server keeps the client's session up: if its TUN never
\* pauses for longer than the timeout less the delays, the client does not
\* declare a live server dead.
TrafficKeepsAlive ==
  /\ ~ Lossy
  /\ StartSkew + TrafficGap + MaxDelay < LivenessTimeout["client"]
  /\ engine["client"].status = "timed_out"
  => ~ Alive("server")

\* What the liveness timeout is for: it detects a peer that has failed.  On a
\* network that loses nothing, only a client whose server is gone times out.
TimeoutMeansSilentPeer ==
  ~ Lossy /\ MaxDelay = 0 /\ engine["client"].status = "timed_out" => ~ Alive("server")
=============================================================================
