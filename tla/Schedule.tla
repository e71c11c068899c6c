------------------------------- MODULE Schedule -------------------------------
(***************************************************************************)
(* create_balanced_schedule (experiment.py): every round is a shuffled     *)
(* order of all modes, repaired when it would begin with the mode the      *)
(* round before ended with.  A shuffle is any order: the generator's seed  *)
(* is not modelled.                                                        *)
(***************************************************************************)
EXTENDS Integers, Sequences, FiniteSets

CONSTANT Modes    \* the benchmark modes

ASSUME ModesAssumption == IsFiniteSet(Modes) /\ Cardinality(Modes) >= 2

Places == 1 .. Cardinality(Modes)

\* normalized_modes in any order: a mode for each place, no mode twice.
Orders ==
  {order \in [Places -> Modes] : \A i, j \in Places : order[i] = order[j] => i = j}

LastOf(order) == order[Cardinality(Modes)]

Swapped(order, i, j) == [order EXCEPT ![i] = order[j], ![j] = order[i]]

\* The first place after the first whose mode is not the given one.
SwapIndex(order, mode) ==
  CHOOSE i \in Places \ {1} :
    order[i] # mode /\ \A j \in Places \ {1} : j < i => order[j] = mode

\* Bug: the first mode changes places with the last of the new round.
RepairedFromEnd(order, previous) ==
  IF order[1] = previous THEN Swapped(order, 2, Cardinality(Modes)) ELSE order

Repaired(order, previous) ==
  IF order[1] = previous THEN Swapped(order, 1, SwapIndex(order, previous)) ELSE order

\* The next round of a schedule that has the given rounds so far.
NextRound(rounds, order) ==
  IF rounds = << >> THEN order ELSE Repaired(order, LastOf(rounds[Len(rounds)]))
=============================================================================
