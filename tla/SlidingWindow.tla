---------------------------- MODULE SlidingWindow ----------------------------
(***************************************************************************)
(* The anti-replay window of class ReplayWindow (crypto.py) as pure        *)
(* operators.  A window is the pair of fields the class keeps: the highest *)
(* authenticated sequence number, and the bitmap of the Size numbers up to *)
(* it, written as the set of the bit positions that are set: bit d stands  *)
(* for the sequence number highest - d.                                    *)
(***************************************************************************)
EXTENDS Integers

CONSTANT Size    \* the constructor's size; 64 by default

\* ReplayWindow.__init__ refuses a size that is not positive.
ASSUME SizeAssumption == Size \in Nat \ {0}

Window == [highest : Nat \cup {-1}, bitmap : SUBSET (0 .. Size - 1)]

EmptyWindow == [highest |-> -1, bitmap |-> {}]

\* The bugs the checks must notice are defined next to what they would break;
\* nothing else uses them.  This one forgets that the window has Size places.
IsReplayOffByOne(w, n) ==
  \/ n < 0
  \/ /\ n <= w.highest
     /\ \/ w.highest - n > Size
        \/ w.highest - n \in w.bitmap

\* Bug: only a number above all others is new.
IsReplayInOrder(w, n) == n <= w.highest

IsReplay(w, n) ==
  \/ n < 0
  \/ /\ n <= w.highest
     /\ \/ w.highest - n >= Size
        \/ w.highest - n \in w.bitmap

\* The bitmap moved up by shift positions and masked to Size bits.
Shifted(bitmap, shift) ==
  IF shift >= Size THEN {}
  ELSE {d \in shift .. Size - 1 : d - shift \in bitmap}

\* Bug: the highest number moves and the bitmap does not.
MarkWithoutShift(w, n) ==
  IF n > w.highest
  THEN [highest |-> n, bitmap |-> {0} \cup w.bitmap]
  ELSE [w EXCEPT !.bitmap = @ \cup {w.highest - n}]

\* Called for a number that is not a replay: the method raises otherwise.
MarkAuthenticated(w, n) ==
  IF n > w.highest
  THEN [highest |-> n,
        bitmap  |-> {0} \cup Shifted(w.bitmap, n - w.highest)]
  ELSE [w EXCEPT !.bitmap = @ \cup {w.highest - n}]
=============================================================================
