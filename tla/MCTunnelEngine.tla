---------------------------- MODULE MCTunnelEngine ----------------------------
(***************************************************************************)
(* Instances of TunnelEngine.  Sizes are those of the code: 65475 bytes is *)
(* the largest packet that fits a sealed datagram, 65535 the largest MTU   *)
(* that config.py accepts.                                                 *)
(***************************************************************************)
EXTENDS TunnelEngine

NoTimers == [e \in Endpoints |-> 0]
EveryTick == [e \in Endpoints |-> 1]
EveryTwoTicks == [e \in Endpoints |-> 2]
AfterThree == [e \in Endpoints |-> 3]
AfterFive == [e \in Endpoints |-> 5]

NoTun == {}
OneSize == {1500}
Oversize == {1500, 65535}
=============================================================================
