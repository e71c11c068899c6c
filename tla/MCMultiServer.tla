----------------------------- MODULE MCMultiServer -----------------------------
(***************************************************************************)
(* Instances of MultiServer with two clients.                              *)
(***************************************************************************)
EXTENDS MultiServer, TLC

CONSTANTS laptop, workstation, nat, home, mobile

MCClients == {laptop, workstation}
\* Each client behind an address of its own; one of them moving; both of them
\* behind the same address.
OwnAddresses == (laptop :> {home}) @@ (workstation :> {nat})
MovingAddresses == (laptop :> {home, mobile}) @@ (workstation :> {nat})
SharedAddresses == (laptop :> {nat}) @@ (workstation :> {nat})

\* Symmetry: the two clients at addresses of their own are alike.
Swap == {(laptop :> workstation) @@ (workstation :> laptop) @@ (home :> nat) @@ (nat :> home)}
\* So are two clients at the same address.
Either == Permutations(MCClients)
=============================================================================
