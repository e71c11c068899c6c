------------------------------ MODULE EpochCipher ------------------------------
(***************************************************************************)
(* What a cipher with packet-count key rotation promises, without saying   *)
(* how it stores keys: every packet is handled with the key of its own     *)
(* epoch, and a key is derived anew exactly when its epoch is not among    *)
(* the CacheSize epochs used last.                                         *)
(***************************************************************************)
EXTENDS KeyEpochs, Sequences

CONSTANT Sequences    \* the sequence numbers packets carry

VARIABLES
  recent,   \* every epoch used so far, in the order of its last use
  used      \* the last packet, the key it was handled with, and whether that was derived

\* A sequence without its i-th element.
Without(seq, i) == [j \in 1 .. Len(seq) - 1 |-> seq[IF j < i THEN j ELSE j + 1]]

\* The epochs used so far when the given one is used next.
Touched(epoch) ==
  Append(IF \E i \in 1 .. Len(recent) : recent[i] = epoch
           THEN Without(recent, CHOOSE i \in 1 .. Len(recent) : recent[i] = epoch)
           ELSE recent,
         epoch)

AtHand(epoch) ==
  \E i \in 1 .. Len(recent) : recent[i] = epoch /\ Len(recent) - i < CacheSize

Init ==
  /\ recent = << >>
  /\ used = [seq |-> -1, key |-> -1, derived |-> FALSE]

Use(n) ==
  LET epoch == EpochFor(n) IN
  /\ recent' = Touched(epoch)
  /\ used' = [seq |-> n, key |-> epoch, derived |-> ~ AtHand(epoch)]

Spec == Init /\ [][\E n \in Sequences : Use(n)]_<<recent, used>>
=============================================================================
