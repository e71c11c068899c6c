------------------------------- MODULE KeyEpochs -------------------------------
(***************************************************************************)
(* Packet-count key epochs (crypto.py): the epoch a sequence number        *)
(* belongs to, and how many epochs' keys an endpoint keeps at hand.        *)
(***************************************************************************)
EXTENDS Integers

CONSTANTS
  PacketsPerKey,  \* packets_per_key
  CacheSize       \* ROTATION_CIPHER_CACHE_SIZE

ASSUME RotationAssumption ==
  /\ PacketsPerKey \in Nat \ {0}
  /\ CacheSize \in Nat \ {0}

EpochFor(n) == n \div PacketsPerKey
=============================================================================
