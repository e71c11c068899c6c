---------------------------- MODULE RotatingCipher ----------------------------
(***************************************************************************)
(* RotatingPacketCipher (crypto.py): packet-count key epochs, and the      *)
(* OrderedDict that keeps the ciphers of the epochs used last.  One object *)
(* serves both directions of an endpoint.                                  *)
(*                                                                         *)
(* A key is named by the epoch it was derived for: HKDF under one master   *)
(* secret gives different epochs different keys.                           *)
(***************************************************************************)
EXTENDS KeyEpochs, Sequences

CONSTANT Sequences    \* the sequence numbers packets carry

VARIABLES
  ciphers,  \* the OrderedDict: a sequence of [epoch, key], oldest first
  recent,   \* history: every epoch used so far, in the order of its last use
  used      \* history: the last packet, its key, and whether that was derived

cipherVars == <<ciphers, recent, used>>

\* The cipher without a cache, which says how the histories grow.
Cipher == INSTANCE EpochCipher WITH recent <- recent, used <- used

Holds(dict, epoch) == \E i \in 1 .. Len(dict) : dict[i].epoch = epoch

PlaceOf(dict, epoch) == CHOOSE i \in 1 .. Len(dict) : dict[i].epoch = epoch

Entry(dict, epoch) == dict[PlaceOf(dict, epoch)]

MoveToEnd(dict, epoch) == Append(Cipher!Without(dict, PlaceOf(dict, epoch)), Entry(dict, epoch))

\* Bug: the dict is trimmed one entry too late.
BoundedLate(dict) == IF Len(dict) > CacheSize + 1 THEN Tail(dict) ELSE dict

\* popitem(last=False) when the dict has grown past its size.
Bounded(dict) == IF Len(dict) > CacheSize THEN Tail(dict) ELSE dict

Insert(dict, epoch) == Bounded(Append(dict, [epoch |-> epoch, key |-> epoch]))

\* Bug: a hit does not move the entry to the end.
CipherForFifo(dict, epoch) == IF Holds(dict, epoch) THEN dict ELSE Insert(dict, epoch)

\* _cipher_for: what it leaves in the dict, the epoch's entry at the end.
CipherFor(dict, epoch) ==
  IF Holds(dict, epoch) THEN MoveToEnd(dict, epoch) ELSE Insert(dict, epoch)

\* _cipher_for: the cipher it returns.
KeyFor(dict, epoch) == IF Holds(dict, epoch) THEN Entry(dict, epoch).key ELSE epoch

Init ==
  /\ ciphers = << >>
  /\ recent = << >>
  /\ used = [seq |-> -1, key |-> -1, derived |-> FALSE]

\* encrypt or decrypt of the packet with number n.
Use(n) ==
  LET epoch == EpochFor(n) IN
  /\ ciphers' = CipherFor(ciphers, epoch)
  /\ recent' = Cipher!Touched(epoch)
  /\ used' = [seq |-> n, key |-> KeyFor(ciphers, epoch), derived |-> ~ Holds(ciphers, epoch)]

Next == \E n \in Sequences : Use(n)

Spec == Init /\ [][Next]_cipherVars

(***************************************************************************)
(* Properties                                                              *)
(***************************************************************************)

\* Type invariant: never more than CacheSize ciphers.
CiphersTypeOK ==
  LET Epochs == {EpochFor(n) : n \in Sequences} IN
  /\ ciphers \in Seq([epoch : Epochs, key : Epochs])
  /\ Len(ciphers) <= CacheSize
  /\ recent \in Seq(Epochs)
  /\ used \in [seq : Sequences \cup {-1}, key : Epochs \cup {-1}, derived : BOOLEAN]

\* The cache implements the cipher without one: whatever order packets of
\* several epochs arrive and leave in, each is handled with the key of its own
\* epoch, and an epoch is derived again only after CacheSize others were used
\* since (docs/security-analysis.md: rotation "supports previous-epoch
\* reordering").
CipherSpec == Cipher!Spec
=============================================================================
