--------------------------- MODULE MCPointToPoint ---------------------------
EXTENDS PointToPoint

Each(n) == [e \in Endpoints |-> n]

\* The client's attempt is far longer than a round of the server has left when it
\* misses one: the deadline allows for two of them.
Timeout == [client |-> 15, server |-> 6]
Delay == [Each(1) EXCEPT !["server"] = 3]
Interval == Each(1)
Liveness == Each(4)

\* The instance meets the conditions of the properties.
ASSUME WideTimers
=============================================================================
