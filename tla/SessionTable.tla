----------------------------- MODULE SessionTable -----------------------------
(***************************************************************************)
(* What the multi-client server promises its clients, without its two      *)
(* dictionaries and its cache: each client has at most one session, the    *)
(* newest the server accepted of it; what one client does leaves the       *)
(* sessions of the others alone; a session that was replaced does not come *)
(* back; and as long as the server runs none is lost.                      *)
(***************************************************************************)
EXTENDS Integers

CONSTANT Clients

VARIABLES
  current,   \* per client, the number of its session, or 0
  issued,    \* sessions accepted so far
  up         \* whether the server runs

NoneServed == [c \in Clients |-> 0]

Init ==
  /\ current = NoneServed
  /\ issued = 0
  /\ up = TRUE

\* A session takes the place of the client's old one, or its acceptance fails
\* half-way and ends the server.
Accept(c) ==
  /\ up
  /\ issued' = issued + 1
  /\ \/ up' = TRUE /\ current' = [current EXCEPT ![c] = issued']
     \/ up' = FALSE /\ current' \in {current, [current EXCEPT ![c] = 0]}

Fail ==
  /\ up
  /\ up' = FALSE
  /\ UNCHANGED <<current, issued>>

Restart ==
  /\ up' = TRUE
  /\ current' = NoneServed
  /\ UNCHANGED issued

Next == (\E c \in Clients : Accept(c)) \/ Fail \/ Restart

Spec == Init /\ [][Next]_<<current, issued, up>>
=============================================================================
