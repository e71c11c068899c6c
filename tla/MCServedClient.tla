---------------------------- MODULE MCServedClient ----------------------------
(***************************************************************************)
(* Instances of ServedClient.  The timers keep the proportion of           *)
(* examples/client.example.json: a timeout of three keepalive intervals.   *)
(***************************************************************************)
EXTENDS ServedClient

OnlyClient(n) == [e \in Endpoints |-> IF e = "client" THEN n ELSE 0]
ClientInterval == OnlyClient(1)
ClientTimeout == OnlyClient(3)
WideInterval == OnlyClient(2)
WideTimeout == OnlyClient(4)

OneSize == {1500}
=============================================================================
