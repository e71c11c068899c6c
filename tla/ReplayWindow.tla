----------------------------- MODULE ReplayWindow -----------------------------
(***************************************************************************)
(* The receive path's use of one ReplayWindow (crypto.py): is_replay on    *)
(* the header's sequence number, then decryption, and mark_authenticated   *)
(* only after the tag has verified.  engine.py and multi_client.py both    *)
(* follow this order.  Datagrams arrive in any order, any number of times, *)
(* and some are not genuine.                                               *)
(***************************************************************************)
EXTENDS SlidingWindow

CONSTANT Sequences    \* the sequence numbers datagrams carry in the header

ASSUME SequencesAssumption == Sequences \subseteq Nat

VARIABLES
  window,     \* the ReplayWindow object
  accepted,   \* history: the numbers that passed both checks
  verdict     \* history: the last datagram and what became of it

vars == <<window, accepted, verdict>>

Init ==
  /\ window = EmptyWindow
  /\ accepted = {}
  /\ verdict = [seq |-> -1, genuine |-> FALSE, taken |-> FALSE]

\* is_replay answers TRUE, before the tag is looked at.
DropReplay(n, genuine) ==
  /\ IsReplay(window, n)
  /\ verdict' = [seq |-> n, genuine |-> genuine, taken |-> FALSE]
  /\ UNCHANGED <<window, accepted>>

\* decrypt raises InvalidTag: the window is left alone.
DropForged(n) ==
  /\ ~ IsReplay(window, n)
  /\ verdict' = [seq |-> n, genuine |-> FALSE, taken |-> FALSE]
  /\ UNCHANGED <<window, accepted>>

\* The tag verifies: the number is marked and the payload is handed on.
Deliver(n) ==
  /\ ~ IsReplay(window, n)
  /\ window' = MarkAuthenticated(window, n)
  /\ accepted' = accepted \cup {n}
  /\ verdict' = [seq |-> n, genuine |-> TRUE, taken |-> TRUE]

Next ==
  \E n \in Sequences :
    \/ \E genuine \in BOOLEAN : DropReplay(n, genuine)
    \/ DropForged(n)
    \/ Deliver(n)

Spec == Init /\ [][Next]_vars

(***************************************************************************)
(* Properties                                                              *)
(***************************************************************************)

\* Type invariant: the fields of the object and of the histories, and that
\* bits at or above the window's size are always masked away.
TypeOK ==
  /\ window \in Window
  /\ accepted \subseteq Sequences
  /\ verdict \in [seq : Sequences \cup {-1}, genuine : BOOLEAN, taken : BOOLEAN]

\* After any mix of jumps, late arrivals and forgeries the two fields still
\* say exactly which of the last Size numbers were authenticated: highest is
\* the largest accepted number, and bit d is set just when highest - d was
\* accepted (crypto.py, mark_authenticated's shift and mask).
WindowIsExact ==
  /\ window.highest \in accepted \cup {-1}
  /\ \A m \in accepted : m <= window.highest
  /\ \A d \in 0 .. Size - 1 : d \in window.bitmap <=> window.highest - d \in accepted

\* The window implements the filter that remembers every accepted number: a
\* genuine datagram is delivered exactly when it is new and not Size or more
\* behind, so none is delivered twice and none inside the window is lost.
Filter == INSTANCE ReplayFilter

FilterSpec == Filter!Spec
=============================================================================
