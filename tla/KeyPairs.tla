------------------------------- MODULE KeyPairs -------------------------------
(***************************************************************************)
(* X25519 identities, and what a key file can hold of one.  A keypair is   *)
(* named by the order in which it was generated; its private and its       *)
(* public file hold the two halves.                                        *)
(***************************************************************************)
EXTENDS Integers

CONSTANT MaxIdentities    \* bound: keypairs generated altogether

ASSUME KeyPairsAssumption == MaxIdentities \in Nat

Identities == 1 .. MaxIdentities

\* A file holds the key of an identity, all of it or a part.
File == [of : 0 .. MaxIdentities, whole : BOOLEAN]

NoFile == [of |-> 0, whole |-> FALSE]

Begun(identity) == [of |-> identity, whole |-> FALSE]

Whole(identity) == [of |-> identity, whole |-> TRUE]
=============================================================================
