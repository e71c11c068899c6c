----------------------------- MODULE ReplayFilter -----------------------------
(***************************************************************************)
(* What a replay window promises, with no window in it: a filter remembers *)
(* every sequence number it has accepted and accepts a genuine datagram    *)
(* exactly when its number is new and fewer than Size below the highest    *)
(* number accepted so far.                                                 *)
(***************************************************************************)
EXTENDS Integers

CONSTANTS
  Size,         \* how far below the highest number a late datagram may be
  Sequences     \* the sequence numbers datagrams carry

VARIABLES
  accepted,     \* every number accepted so far
  verdict       \* the last datagram and what became of it

Fresh(n) ==
  /\ n \notin accepted
  /\ \A m \in accepted : m - n < Size

Init ==
  /\ accepted = {}
  /\ verdict = [seq |-> -1, genuine |-> FALSE, taken |-> FALSE]

Accept(n) ==
  /\ Fresh(n)
  /\ accepted' = accepted \cup {n}
  /\ verdict' = [seq |-> n, genuine |-> TRUE, taken |-> TRUE]

Refuse(n, genuine) ==
  /\ ~ (genuine /\ Fresh(n))
  /\ verdict' = [seq |-> n, genuine |-> genuine, taken |-> FALSE]
  /\ UNCHANGED accepted

Next ==
  \E n \in Sequences : Accept(n) \/ \E genuine \in BOOLEAN : Refuse(n, genuine)

Spec == Init /\ [][Next]_<<accepted, verdict>>
=============================================================================
