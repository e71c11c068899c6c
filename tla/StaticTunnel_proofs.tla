-------------------------- MODULE StaticTunnel_proofs --------------------------
(***************************************************************************)
(* Proofs about an endpoint with a fixed key, for any documents, any       *)
(* number of keygen processes, and any sizes.  First its parts on their    *)
(* own: the window (ReplayWindow), the key files (KeyFiles, here Keys) and *)
(* the cipher (RotatingCipher, here Cipher).  Then the endpoint: its steps *)
(* are steps of its parts, so what is proved of them holds for it.         *)
(***************************************************************************)
EXTENDS StaticTunnel, SlidingWindow_proofs, SequenceTheorems

(***************************************************************************)
(* The window on its own (ReplayWindow), for every size and every set of   *)
(* sequence numbers.  The inductive invariant is TypeOK /\ WindowIsExact;  *)
(* under it is_replay answers "not fresh", which is what the refinement of *)
(* the filter needs.                                                       *)
(***************************************************************************)

\* The invariant is inductive: each action of the receive path preserves it.
LEMMA WindowInductive ==
  Spec => [](TypeOK /\ WindowIsExact)
<1> USE SizeAssumption, SequencesAssumption
<1>1. Init => TypeOK /\ WindowIsExact
  BY EmptyRepresents DEF Init, TypeOK, WindowIsExact, Represents
<1>2. TypeOK /\ WindowIsExact /\ [Next]_vars => (TypeOK /\ WindowIsExact)'
  <2> SUFFICES ASSUME TypeOK, WindowIsExact, [Next]_vars
               PROVE  (TypeOK /\ WindowIsExact)'
    OBVIOUS
  <2>1. ASSUME NEW n \in Sequences, NEW genuine \in BOOLEAN, DropReplay(n, genuine)
        PROVE  (TypeOK /\ WindowIsExact)'
    BY <2>1 DEF DropReplay, TypeOK, WindowIsExact
  <2>2. ASSUME NEW n \in Sequences, DropForged(n)
        PROVE  (TypeOK /\ WindowIsExact)'
    BY <2>2 DEF DropForged, TypeOK, WindowIsExact
  <2>3. ASSUME NEW n \in Sequences, Deliver(n)
        PROVE  (TypeOK /\ WindowIsExact)'
    <3>1. window \in Window /\ n \in Nat /\ ~ IsReplay(window, n) /\ accepted \in SUBSET Nat
      BY <2>3 DEF Deliver, TypeOK
    <3>2. window' \in Window
      BY <2>3, <3>1, MarkType DEF Deliver
    <3>3. Represents(window, accepted)
      BY DEF WindowIsExact, Represents
    <3>4. Represents(window', accepted')
      BY <2>3, <3>1, <3>3, MarkRepresents DEF Deliver
    <3> QED BY <2>3, <3>2, <3>4 DEF Deliver, TypeOK, WindowIsExact, Represents
  <2>4. CASE UNCHANGED vars
    BY <2>4 DEF vars, TypeOK, WindowIsExact
  <2> QED BY <2>1, <2>2, <2>3, <2>4 DEF Next
<1> QED BY <1>1, <1>2, PTL DEF Spec

\* Type correctness of the window for every size: in particular the bitmap
\* never grows past Size bits.
THEOREM WindowTypeCorrect == Spec => []TypeOK
BY WindowInductive, PTL

\* The two fields describe the last Size accepted numbers exactly, whatever
\* the order and the repetitions in which datagrams arrive.
THEOREM ExactWindow == Spec => []WindowIsExact
BY WindowInductive, PTL

\* Under the invariant is_replay is the filter's "not fresh".
LEMMA ReplayIsNotFresh ==
  ASSUME TypeOK, WindowIsExact, NEW n \in Sequences
  PROVE  IsReplay(window, n) <=> ~ Filter!Fresh(n)
<1>1. window \in Window /\ accepted \in SUBSET Nat /\ n \in Nat
  BY SequencesAssumption DEF TypeOK
<1>2. Represents(window, accepted)
  BY DEF WindowIsExact, Represents
<1>3. IsReplay(window, n) <=> ~ (n \notin accepted /\ \A m \in accepted : m - n < Size)
  BY <1>1, <1>2, IsReplayIffNotFresh
<1> QED BY <1>3 DEF Filter!Fresh

\* The 64-bit bitmap implements the filter with unlimited memory: at most one
\* delivery of each number, none of a forgery, and every genuine datagram
\* fewer than Size behind the highest is delivered.
THEOREM WindowImplementsFilter == Spec => FilterSpec
<1>1. Init => Filter!Init
  BY DEF Init, Filter!Init
<1>2. TypeOK /\ WindowIsExact /\ [Next]_vars => [Filter!Next]_<<accepted, verdict>>
  <2> SUFFICES ASSUME TypeOK, WindowIsExact, [Next]_vars
               PROVE  [Filter!Next]_<<accepted, verdict>>
    OBVIOUS
  <2>1. ASSUME NEW n \in Sequences, NEW genuine \in BOOLEAN, DropReplay(n, genuine)
        PROVE  Filter!Next
    <3>1. Filter!Refuse(n, genuine)
      BY <2>1, ReplayIsNotFresh DEF DropReplay, Filter!Refuse
    <3> QED BY <3>1 DEF Filter!Next
  <2>2. ASSUME NEW n \in Sequences, DropForged(n)
        PROVE  Filter!Next
    <3>1. Filter!Refuse(n, FALSE)
      BY <2>2 DEF DropForged, Filter!Refuse
    <3> QED BY <3>1 DEF Filter!Next
  <2>3. ASSUME NEW n \in Sequences, Deliver(n)
        PROVE  Filter!Next
    <3>1. Filter!Accept(n)
      BY <2>3, ReplayIsNotFresh DEF Deliver, Filter!Accept
    <3> QED BY <3>1 DEF Filter!Next
  <2>4. CASE UNCHANGED vars
    BY <2>4 DEF vars
  <2> QED BY <2>1, <2>2, <2>3, <2>4 DEF Next
<1> QED BY <1>1, <1>2, WindowInductive, PTL DEF Spec, FilterSpec, Filter!Spec

(***************************************************************************)
(* The key files (KeyFiles), for any number of keygen processes and of     *)
(* identities.                                                             *)
(***************************************************************************)

\* The steps between the creation of the private key file and the end.
KeysOwning == {"write_private", "open_public", "write_public", "return", "clean_up"}

\* A process runs with an identity that is its own.
KeysDistinct ==
  /\ \A g \in Generators : process[g].at = "gone" => process[g].identity = 0
  /\ \A g \in Generators : process[g].at # "gone" => process[g].identity \in 1 .. made
  /\ \A g, h \in Generators :
       process[g].identity = process[h].identity /\ process[g].identity # 0 => g = h

\* The exclusive creation of the private file is a lock on it.
KeysOwned ==
  \A g \in Generators :
    /\ process[g].at \in KeysOwning => private.of = process[g].identity
    /\ process[g].at \in {"write_public", "return"} => public.of = process[g].identity

\* Two complete files that do not belong together: the process that wrote the
\* private one is still to find this out, or was killed.
KeysExplained ==
  private.whole /\ public.whole /\ private.of # public.of =>
    \/ private.of \in killed
    \/ \E g \in Generators :
         /\ process[g].identity = private.of
         /\ process[g].at \in {"open_public", "clean_up"}

KeysInv == Keys!TypeOK /\ KeysDistinct /\ KeysOwned /\ KeysExplained

LEMMA KeysInit == Keys!Init => KeysInv
<1> SUFFICES ASSUME Keys!Init
             PROVE  KeysInv
  OBVIOUS
<1> USE KeyPairsAssumption DEF Keys!Init
<1>1. \A g \in Generators : process[g].at = "gone" /\ process[g].identity = 0
  BY DEF Keys!Gone
<1>2. Keys!TypeOK
  BY DEF Keys!TypeOK, Keys!NoFile, Keys!File, Keys!Gone, Keys!Process, Keys!Steps, Keys!Identities
<1>3. KeysDistinct
  BY <1>1 DEF KeysDistinct
<1>4. KeysOwned
  BY <1>1 DEF KeysOwned, KeysOwning
<1>5. KeysExplained
  BY DEF KeysExplained, Keys!NoFile
<1> QED
  BY <1>2, <1>3, <1>4, <1>5 DEF KeysInv

(***************************************************************************)
(* What moving a process does.                                             *)
(***************************************************************************)

LEMMA AdvanceEffect ==
  ASSUME Keys!TypeOK, NEW g \in Generators, NEW step \in Keys!Steps, Keys!Advance(g, step)
  PROVE  /\ process' \in [Generators -> Keys!Process]
         /\ process'[g].at = step /\ process'[g].identity = process[g].identity
         /\ \A h \in Generators \ {g} : process'[h] = process[h]
BY DEF Keys!TypeOK, Keys!Process, Keys!Advance

LEMMA EndsEffect ==
  ASSUME Keys!TypeOK, NEW g \in Generators, Keys!Ends(g)
  PROVE  /\ process' \in [Generators -> Keys!Process]
         /\ process'[g].at = "gone" /\ process'[g].identity = 0
         /\ \A h \in Generators \ {g} : process'[h] = process[h]
<1>1. Keys!Gone \in Keys!Process
  BY KeyPairsAssumption DEF Keys!Gone, Keys!Process, Keys!Steps
<1> QED
  BY <1>1 DEF Keys!TypeOK, Keys!Ends, Keys!Gone

\* Identities stay distinct when a process that runs moves on, or ends.
LEMMA DistinctKept ==
  ASSUME KeysInv, NEW g \in Generators, process[g].at # "gone", made' = made,
         process' \in [Generators -> Keys!Process],
         \A h \in Generators \ {g} : process'[h] = process[h],
         \/ process'[g].at # "gone" /\ process'[g].identity = process[g].identity
         \/ process'[g].at = "gone" /\ process'[g].identity = 0
  PROVE  KeysDistinct'
BY DEF KeysInv, KeysDistinct

LEMMA IdentityOfRunning ==
  ASSUME KeysInv, NEW g \in Generators, process[g].at # "gone"
  PROVE  /\ process[g].identity \in 1 .. MaxIdentities
         /\ process[g].identity <= made
<1>1. made \in Nat /\ made <= MaxIdentities
  BY KeyPairsAssumption DEF KeysInv, Keys!TypeOK
<1>2. process[g].identity \in 1 .. made
  BY DEF KeysInv, KeysDistinct
<1> QED
  BY <1>1, <1>2, KeyPairsAssumption

\* Of two processes, the one with the private file on its hands is alone.
LEMMA OwnerIsAlone ==
  ASSUME KeysInv, NEW g \in Generators, process[g].at \in KeysOwning,
         NEW h \in Generators \ {g}
  PROVE  process[h].at \notin KeysOwning
<1> SUFFICES ASSUME process[h].at \in KeysOwning
             PROVE  FALSE
  OBVIOUS
<1>1. process[g].identity # 0
  BY IdentityOfRunning, KeyPairsAssumption DEF KeysOwning
<1>2. process[g].identity = process[h].identity
  BY DEF KeysInv, KeysOwned
<1> QED
  BY <1>1, <1>2 DEF KeysInv, KeysDistinct

(***************************************************************************)
(* The steps.                                                              *)
(***************************************************************************)

LEMMA GenerateStep ==
  ASSUME KeysInv, NEW g \in Generators, Keys!Generate(g)
  PROVE  KeysInv'
<1>1. /\ process' \in [Generators -> Keys!Process]
      /\ process'[g].at = "open_private" /\ process'[g].identity = made + 1
      /\ \A h \in Generators \ {g} : process'[h] = process[h]
      /\ process[g].at = "gone"
  <2>1. made \in Nat /\ made + 1 \in 0 .. MaxIdentities
    BY KeyPairsAssumption DEF KeysInv, Keys!TypeOK, Keys!Generate
  <2>2. [at |-> "open_private", identity |-> made + 1] \in Keys!Process
    BY <2>1 DEF Keys!Process, Keys!Steps
  <2>3. process' = [process EXCEPT ![g] = [at |-> "open_private", identity |-> made + 1]]
    BY DEF Keys!Generate
  <2>4. process[g].at = "gone"
    BY DEF Keys!Generate, Keys!Gone
  <2> QED
    BY <2>2, <2>3, <2>4 DEF KeysInv, Keys!TypeOK
<1>2. made' = made + 1 /\ made < MaxIdentities /\ UNCHANGED <<private, public, killed>>
  BY DEF Keys!Generate
<1>a. made \in Nat /\ made' \in 0 .. MaxIdentities
  BY <1>2, KeyPairsAssumption DEF KeysInv, Keys!TypeOK
<1>3. Keys!TypeOK'
  BY <1>1, <1>2, <1>a DEF KeysInv, Keys!TypeOK
<1>4. KeysDistinct'
  <2>1. \A h \in Generators \ {g} :
          \/ process[h].at = "gone" /\ process[h].identity = 0
          \/ process[h].at # "gone" /\ process[h].identity \in 1 .. made
    BY DEF KeysInv, KeysDistinct
  <2>2. \A h \in Generators \ {g} : process[h].identity # made + 1
    BY <2>1, <1>a
  <2> QED
    BY <2>1, <2>2, <1>1, <1>2, <1>a DEF KeysInv, KeysDistinct
<1>5. KeysOwned'
  BY <1>1, <1>2 DEF KeysInv, KeysOwned, KeysOwning
<1>6. KeysExplained'
  BY <1>1, <1>2 DEF KeysInv, KeysExplained
<1> QED
  BY <1>3, <1>4, <1>5, <1>6 DEF KeysInv

LEMMA OpenPrivateStep ==
  ASSUME KeysInv, NEW g \in Generators, Keys!OpenPrivate(g)
  PROVE  KeysInv'
<1>1. process[g].at = "open_private" /\ UNCHANGED <<public, made, killed>>
  BY DEF Keys!OpenPrivate
<1>2. CASE private = Keys!NoFile
  <2>1. private' = Keys!Begun(process[g].identity) /\ Keys!Advance(g, "write_private")
    BY <1>2 DEF Keys!OpenPrivate
  <2>2. private' \in Keys!File /\ private'.of = process[g].identity /\ ~ private'.whole
    <3>1. process[g].identity \in 0 .. MaxIdentities
      BY <1>1, IdentityOfRunning, KeyPairsAssumption
    <3> QED
      BY <2>1, <3>1 DEF Keys!Begun, Keys!File
  <2>3. /\ process' \in [Generators -> Keys!Process]
        /\ process'[g].at = "write_private" /\ process'[g].identity = process[g].identity
        /\ \A h \in Generators \ {g} : process'[h] = process[h]
    BY <2>1, AdvanceEffect DEF KeysInv, Keys!Steps
  <2>4. Keys!TypeOK'
    BY <1>1, <2>2, <2>3 DEF KeysInv, Keys!TypeOK
  <2>5. KeysDistinct'
    BY <1>1, <2>3, DistinctKept
  <2>6. \A h \in Generators \ {g} : process[h].at \notin KeysOwning
    <3> SUFFICES ASSUME NEW h \in Generators \ {g}, process[h].at \in KeysOwning
                 PROVE  FALSE
      OBVIOUS
    <3>1. process[h].identity # 0
      BY IdentityOfRunning, KeyPairsAssumption DEF KeysOwning
    <3>2. private.of = process[h].identity
      BY DEF KeysInv, KeysOwned
    <3> QED
      BY <1>2, <3>1, <3>2 DEF Keys!NoFile
  <2>7. KeysOwned'
    BY <1>1, <2>2, <2>3, <2>6 DEF KeysInv, KeysOwned, KeysOwning
  <2>8. KeysExplained'
    BY <2>2 DEF KeysExplained
  <2> QED
    BY <2>4, <2>5, <2>7, <2>8 DEF KeysInv
<1>3. CASE private # Keys!NoFile
  <2>1. private' = private /\ Keys!Ends(g)
    BY <1>3 DEF Keys!OpenPrivate
  <2>2. /\ process' \in [Generators -> Keys!Process]
        /\ process'[g].at = "gone" /\ process'[g].identity = 0
        /\ \A h \in Generators \ {g} : process'[h] = process[h]
    BY <2>1, EndsEffect DEF KeysInv
  <2>3. Keys!TypeOK'
    BY <1>1, <2>1, <2>2 DEF KeysInv, Keys!TypeOK
  <2>4. KeysDistinct'
    BY <1>1, <2>2, DistinctKept
  <2>5. KeysOwned'
    BY <1>1, <2>1, <2>2 DEF KeysInv, KeysOwned, KeysOwning
  <2>6. KeysExplained'
    BY <1>1, <2>1, <2>2 DEF KeysInv, KeysExplained
  <2> QED
    BY <2>3, <2>4, <2>5, <2>6 DEF KeysInv
<1> QED
  BY <1>2, <1>3

LEMMA WritePrivateStep ==
  ASSUME KeysInv, NEW g \in Generators, Keys!WritePrivate(g)
  PROVE  KeysInv'
<1>1. /\ process[g].at = "write_private" /\ Keys!Advance(g, "open_public")
      /\ private' = Keys!Whole(process[g].identity) /\ UNCHANGED <<public, made, killed>>
  BY DEF Keys!WritePrivate
<1>2. /\ process' \in [Generators -> Keys!Process]
      /\ process'[g].at = "open_public" /\ process'[g].identity = process[g].identity
      /\ \A h \in Generators \ {g} : process'[h] = process[h]
  BY <1>1, AdvanceEffect DEF KeysInv, Keys!Steps
<1>3. private' \in Keys!File /\ private'.of = process[g].identity
  <2>1. process[g].identity \in 0 .. MaxIdentities
    BY <1>1, IdentityOfRunning, KeyPairsAssumption
  <2> QED
    BY <1>1, <2>1 DEF Keys!Whole, Keys!File
<1>4. Keys!TypeOK'
  BY <1>1, <1>2, <1>3 DEF KeysInv, Keys!TypeOK
<1>5. KeysDistinct'
  BY <1>1, <1>2, DistinctKept
<1>6. KeysOwned'
  BY <1>1, <1>2, <1>3 DEF KeysInv, KeysOwned, KeysOwning
<1>7. KeysExplained'
  BY <1>2, <1>3 DEF KeysExplained
<1> QED
  BY <1>4, <1>5, <1>6, <1>7 DEF KeysInv

LEMMA OpenPublicStep ==
  ASSUME KeysInv, NEW g \in Generators, Keys!OpenPublic(g)
  PROVE  KeysInv'
<1>1. process[g].at = "open_public" /\ UNCHANGED <<private, made, killed>>
  BY DEF Keys!OpenPublic
<1>2. \A h \in Generators \ {g} : process[h].at \notin KeysOwning
  BY <1>1, OwnerIsAlone DEF KeysOwning
<1>3. CASE public = Keys!NoFile
  <2>1. public' = Keys!Begun(process[g].identity) /\ Keys!Advance(g, "write_public")
    BY <1>3 DEF Keys!OpenPublic
  <2>2. public' \in Keys!File /\ public'.of = process[g].identity /\ ~ public'.whole
    <3>1. process[g].identity \in 0 .. MaxIdentities
      BY <1>1, IdentityOfRunning, KeyPairsAssumption
    <3> QED
      BY <2>1, <3>1 DEF Keys!Begun, Keys!File
  <2>3. /\ process' \in [Generators -> Keys!Process]
        /\ process'[g].at = "write_public" /\ process'[g].identity = process[g].identity
        /\ \A h \in Generators \ {g} : process'[h] = process[h]
    BY <2>1, AdvanceEffect DEF KeysInv, Keys!Steps
  <2>4. Keys!TypeOK'
    BY <1>1, <2>2, <2>3 DEF KeysInv, Keys!TypeOK
  <2>5. KeysDistinct'
    BY <1>1, <2>3, DistinctKept
  <2>6. KeysOwned'
    BY <1>1, <1>2, <2>2, <2>3 DEF KeysInv, KeysOwned, KeysOwning
  <2>7. KeysExplained'
    BY <2>2 DEF KeysExplained
  <2> QED
    BY <2>4, <2>5, <2>6, <2>7 DEF KeysInv
<1>4. CASE public # Keys!NoFile
  <2>1. public' = public /\ Keys!Advance(g, "clean_up")
    BY <1>4 DEF Keys!OpenPublic
  <2>2. /\ process' \in [Generators -> Keys!Process]
        /\ process'[g].at = "clean_up" /\ process'[g].identity = process[g].identity
        /\ \A h \in Generators \ {g} : process'[h] = process[h]
    BY <2>1, AdvanceEffect DEF KeysInv, Keys!Steps
  <2>3. Keys!TypeOK'
    BY <1>1, <2>1, <2>2 DEF KeysInv, Keys!TypeOK
  <2>4. KeysDistinct'
    BY <1>1, <2>2, DistinctKept
  <2>5. KeysOwned'
    BY <1>1, <2>1, <2>2 DEF KeysInv, KeysOwned, KeysOwning
  <2>6. KeysExplained'
    BY <1>1, <2>1, <2>2 DEF KeysInv, KeysExplained
  <2> QED
    BY <2>3, <2>4, <2>5, <2>6 DEF KeysInv
<1> QED
  BY <1>3, <1>4

LEMMA WritePublicStep ==
  ASSUME KeysInv, NEW g \in Generators, Keys!WritePublic(g)
  PROVE  KeysInv'
<1>1. /\ process[g].at = "write_public" /\ Keys!Advance(g, "return")
      /\ public' = Keys!Whole(process[g].identity) /\ UNCHANGED <<private, made, killed>>
  BY DEF Keys!WritePublic
<1>2. /\ process' \in [Generators -> Keys!Process]
      /\ process'[g].at = "return" /\ process'[g].identity = process[g].identity
      /\ \A h \in Generators \ {g} : process'[h] = process[h]
  BY <1>1, AdvanceEffect DEF KeysInv, Keys!Steps
<1>3. public' \in Keys!File /\ public'.of = process[g].identity
  <2>1. process[g].identity \in 0 .. MaxIdentities
    BY <1>1, IdentityOfRunning, KeyPairsAssumption
  <2> QED
    BY <1>1, <2>1 DEF Keys!Whole, Keys!File
<1>4. \A h \in Generators \ {g} : process[h].at \notin KeysOwning
  BY <1>1, OwnerIsAlone DEF KeysOwning
<1>5. private.of = process[g].identity
  BY <1>1 DEF KeysInv, KeysOwned, KeysOwning
<1>6. Keys!TypeOK'
  BY <1>1, <1>2, <1>3 DEF KeysInv, Keys!TypeOK
<1>7. KeysDistinct'
  BY <1>1, <1>2, DistinctKept
<1>8. KeysOwned'
  BY <1>1, <1>2, <1>3, <1>4, <1>5 DEF KeysInv, KeysOwned, KeysOwning
<1>9. KeysExplained'
  BY <1>1, <1>3, <1>5 DEF KeysExplained
<1> QED
  BY <1>6, <1>7, <1>8, <1>9 DEF KeysInv

\* A process that returns leaves two files of one identity behind.
LEMMA ReturnStep ==
  ASSUME KeysInv, NEW g \in Generators, Keys!Return(g)
  PROVE  KeysInv'
<1>1. process[g].at = "return" /\ Keys!Ends(g) /\ UNCHANGED <<private, public, made, killed>>
  BY DEF Keys!Return
<1>2. /\ process' \in [Generators -> Keys!Process]
      /\ process'[g].at = "gone" /\ process'[g].identity = 0
      /\ \A h \in Generators \ {g} : process'[h] = process[h]
  BY <1>1, EndsEffect DEF KeysInv
<1>3. Keys!TypeOK'
  BY <1>1, <1>2 DEF KeysInv, Keys!TypeOK
<1>4. KeysDistinct'
  BY <1>1, <1>2, DistinctKept
<1>5. KeysOwned'
  BY <1>1, <1>2 DEF KeysInv, KeysOwned, KeysOwning
<1>6. KeysExplained'
  BY <1>1 DEF KeysInv, KeysExplained, KeysOwned, KeysOwning
<1> QED
  BY <1>3, <1>4, <1>5, <1>6 DEF KeysInv

LEMMA CleanUpStep ==
  ASSUME KeysInv, NEW g \in Generators, Keys!CleanUp(g)
  PROVE  KeysInv'
<1>1. /\ process[g].at = "clean_up" /\ Keys!Ends(g)
      /\ private' = Keys!NoFile /\ UNCHANGED <<public, made, killed>>
  BY DEF Keys!CleanUp
<1>2. /\ process' \in [Generators -> Keys!Process]
      /\ process'[g].at = "gone" /\ process'[g].identity = 0
      /\ \A h \in Generators \ {g} : process'[h] = process[h]
  BY <1>1, EndsEffect DEF KeysInv
<1>3. private' \in Keys!File /\ ~ private'.whole
  BY <1>1, KeyPairsAssumption DEF Keys!NoFile, Keys!File
<1>4. \A h \in Generators \ {g} : process[h].at \notin KeysOwning
  BY <1>1, OwnerIsAlone DEF KeysOwning
<1>5. Keys!TypeOK'
  BY <1>1, <1>2, <1>3 DEF KeysInv, Keys!TypeOK
<1>6. KeysDistinct'
  BY <1>1, <1>2, DistinctKept
<1>7. KeysOwned'
  BY <1>1, <1>2, <1>4 DEF KeysInv, KeysOwned, KeysOwning
<1>8. KeysExplained'
  BY <1>3 DEF KeysExplained
<1> QED
  BY <1>5, <1>6, <1>7, <1>8 DEF KeysInv

LEMMA FailOutsideStep ==
  ASSUME KeysInv, NEW g \in Generators, Keys!FailOutside(g)
  PROVE  KeysInv'
<1>1. process[g].at = "open_private" /\ Keys!Ends(g) /\ UNCHANGED <<private, public, made, killed>>
  BY DEF Keys!FailOutside
<1>2. /\ process' \in [Generators -> Keys!Process]
      /\ process'[g].at = "gone" /\ process'[g].identity = 0
      /\ \A h \in Generators \ {g} : process'[h] = process[h]
  BY <1>1, EndsEffect DEF KeysInv
<1>3. Keys!TypeOK'
  BY <1>1, <1>2 DEF KeysInv, Keys!TypeOK
<1>4. KeysDistinct'
  BY <1>1, <1>2, DistinctKept
<1>5. KeysOwned'
  BY <1>1, <1>2 DEF KeysInv, KeysOwned, KeysOwning
<1>6. KeysExplained'
  BY <1>1, <1>2 DEF KeysInv, KeysExplained
<1> QED
  BY <1>3, <1>4, <1>5, <1>6 DEF KeysInv

\* The process that fails is left with the clean-up, so two complete files that
\* do not belong together are still explained by it.
LEMMA FailInsideStep ==
  ASSUME KeysInv, NEW g \in Generators, Keys!FailInside(g)
  PROVE  KeysInv'
<1>1. /\ process[g].at \in Keys!Guarded /\ Keys!Advance(g, "clean_up")
      /\ UNCHANGED <<made, killed>>
  BY DEF Keys!FailInside
<1>2. process[g].at \in KeysOwning /\ process[g].at # "gone"
  BY <1>1 DEF Keys!Guarded, KeysOwning
<1>3. /\ process' \in [Generators -> Keys!Process]
      /\ process'[g].at = "clean_up" /\ process'[g].identity = process[g].identity
      /\ \A h \in Generators \ {g} : process'[h] = process[h]
  BY <1>1, AdvanceEffect DEF KeysInv, Keys!Steps
<1>4. /\ private' \in Keys!File /\ private'.of = private.of
      /\ public' \in Keys!File /\ public'.of = public.of
  BY DEF KeysInv, Keys!TypeOK, Keys!File, Keys!FailInside
<1>5. private.of = process[g].identity
  BY <1>2 DEF KeysInv, KeysOwned
<1>6. Keys!TypeOK'
  BY <1>1, <1>3, <1>4 DEF KeysInv, Keys!TypeOK
<1>7. KeysDistinct'
  BY <1>1, <1>2, <1>3, DistinctKept
<1>8. KeysOwned'
  BY <1>2, <1>3, <1>4, <1>5 DEF KeysInv, KeysOwned
<1>9. KeysExplained'
  BY <1>3, <1>4, <1>5 DEF KeysExplained
<1> QED
  BY <1>6, <1>7, <1>8, <1>9 DEF KeysInv

\* A process that is killed takes its explanation with it: its keypair is one
\* of the killed.
LEMMA KillStep ==
  ASSUME KeysInv, NEW g \in Generators, Keys!Kill(g)
  PROVE  KeysInv'
<1>1. /\ process[g] # Keys!Gone /\ Keys!Ends(g) /\ UNCHANGED <<private, public, made>>
      /\ killed' = killed \cup {process[g].identity}
  BY DEF Keys!Kill
<1>2. process[g].at # "gone"
  BY <1>1 DEF KeysInv, Keys!TypeOK, Keys!Process, KeysDistinct, Keys!Gone
<1>3. /\ process' \in [Generators -> Keys!Process]
      /\ process'[g].at = "gone" /\ process'[g].identity = 0
      /\ \A h \in Generators \ {g} : process'[h] = process[h]
  BY <1>1, EndsEffect DEF KeysInv
<1>4. killed' \subseteq Keys!Identities
  BY <1>1, <1>2, IdentityOfRunning DEF KeysInv, Keys!TypeOK, Keys!Identities
<1>5. Keys!TypeOK'
  BY <1>1, <1>3, <1>4 DEF KeysInv, Keys!TypeOK
<1>6. KeysDistinct'
  BY <1>1, <1>2, <1>3, DistinctKept
<1>7. KeysOwned'
  BY <1>1, <1>3 DEF KeysInv, KeysOwned, KeysOwning
<1>8. KeysExplained'
  BY <1>1, <1>3 DEF KeysInv, KeysExplained
<1> QED
  BY <1>5, <1>6, <1>7, <1>8 DEF KeysInv

LEMMA RemoveStep ==
  ASSUME KeysInv, Keys!Remove
  PROVE  KeysInv'
<1>1. UNCHANGED <<process, made, killed>> /\ \A g \in Generators : process[g].at = "gone"
  BY DEF Keys!Remove, Keys!Quiet, Keys!Gone
<1>2. /\ private' \in Keys!File /\ public' \in Keys!File
      /\ private' = private \/ ~ private'.whole
      /\ public' = public \/ ~ public'.whole
  <2>1. Keys!NoFile \in Keys!File /\ ~ Keys!NoFile.whole
    BY KeyPairsAssumption DEF Keys!NoFile, Keys!File
  <2> QED
    BY <2>1 DEF Keys!Remove, KeysInv, Keys!TypeOK
<1>3. Keys!TypeOK'
  BY <1>1, <1>2 DEF KeysInv, Keys!TypeOK
<1>4. KeysDistinct'
  BY <1>1 DEF KeysInv, KeysDistinct
<1>5. KeysOwned'
  BY <1>1 DEF KeysOwned, KeysOwning
<1>6. KeysExplained'
  BY <1>1, <1>2 DEF KeysInv, KeysExplained
<1> QED
  BY <1>3, <1>4, <1>5, <1>6 DEF KeysInv

LEMMA KeysNext ==
  ASSUME KeysInv, [Keys!Next]_(Keys!keyVars)
  PROVE  KeysInv'
<1>1. ASSUME NEW g \in Generators,
             \/ Keys!Generate(g) \/ Keys!OpenPrivate(g) \/ Keys!WritePrivate(g) \/ Keys!OpenPublic(g)
             \/ Keys!WritePublic(g) \/ Keys!Return(g) \/ Keys!CleanUp(g)
             \/ Keys!FailOutside(g) \/ Keys!FailInside(g) \/ Keys!Kill(g)
      PROVE  KeysInv'
  BY <1>1, GenerateStep, OpenPrivateStep, WritePrivateStep, OpenPublicStep, WritePublicStep,
     ReturnStep, CleanUpStep, FailOutsideStep, FailInsideStep, KillStep
<1>2. CASE UNCHANGED Keys!keyVars
  BY <1>2 DEF Keys!keyVars, KeysInv, Keys!TypeOK, KeysDistinct, KeysOwned, KeysExplained
<1> QED
  BY <1>1, <1>2, RemoveStep DEF Keys!Next

\* The inductive invariant: every process has an identity of its own, the one
\* that created the private file owns it, and complete files that do not
\* belong together are explained by a run that is not over or was killed
\* (write_keypair).
LEMMA KeysInvariance == Keys!Spec => []KeysInv
<1> QED
  BY KeysInit, KeysNext, PTL DEF Keys!Spec

\* Type correctness of the files, the processes and the histories of keygen.
LEMMA KeysTypeCorrect == Keys!Spec => []Keys!TypeOK
<1>1. KeysInv => Keys!TypeOK
  BY DEF KeysInv
<1> QED
  BY <1>1, KeysInvariance, PTL

\* However many keygen processes run on the same two paths and wherever their
\* calls fail, two complete files belong together once all are over, unless
\* the writer of the private one was killed (write_keypair's clean-up).
LEMMA KeysFilesMatch == Keys!Spec => []Keys!FilesMatch
<1>1. ASSUME KeysInv
      PROVE  Keys!FilesMatch
  <2> SUFFICES ASSUME Keys!Quiet, private.whole, public.whole, private.of # public.of
               PROVE  private.of \in killed
    BY DEF Keys!FilesMatch
  <2>1. Keys!Gone.at = "gone"
    BY DEF Keys!Gone
  <2>2. \A g \in Generators : process[g].at = "gone"
    BY <2>1 DEF Keys!Quiet
  <2> QED
    BY <1>1, <2>2 DEF KeysInv, KeysExplained
<1> QED
  BY <1>1, KeysInvariance, PTL

\* No run overwrites or removes a private key that is not its own: only the
\* owner of the private file writes or unlinks it (O_EXCL in write_keypair).
LEMMA KeysIdentityKept == Keys!Spec => Keys!IdentityIsKept
<1>1. ASSUME KeysInv, [Keys!Next]_(Keys!keyVars), private # Keys!NoFile, Keys!Settled(private.of)
      PROVE  private' = private \/ (Keys!Quiet /\ private' = Keys!NoFile)
  <2>1. \A g \in Generators : process[g].at \notin KeysOwning
    BY <1>1 DEF KeysInv, KeysOwned, Keys!Settled
  <2>2. ASSUME NEW g \in Generators,
               \/ Keys!Generate(g) \/ Keys!OpenPrivate(g) \/ Keys!WritePrivate(g) \/ Keys!OpenPublic(g)
               \/ Keys!WritePublic(g) \/ Keys!Return(g) \/ Keys!CleanUp(g)
               \/ Keys!FailOutside(g) \/ Keys!FailInside(g) \/ Keys!Kill(g)
        PROVE  private' = private
    BY <1>1, <2>1, <2>2
       DEF KeysOwning, Keys!Guarded, Keys!Generate, Keys!OpenPrivate, Keys!WritePrivate,
           Keys!OpenPublic, Keys!WritePublic, Keys!Return, Keys!CleanUp, Keys!FailOutside,
           Keys!FailInside, Keys!Kill
  <2>3. CASE Keys!Remove
    BY <2>3 DEF Keys!Remove
  <2>4. CASE UNCHANGED Keys!keyVars
    BY <2>4 DEF Keys!keyVars
  <2> QED
    BY <1>1, <2>2, <2>3, <2>4 DEF Keys!Next
<1>2. KeysInv /\ [Keys!Next]_(Keys!keyVars) =>
        [private # Keys!NoFile /\ Keys!Settled(private.of) =>
           private' = private \/ (Keys!Quiet /\ private' = Keys!NoFile)]_(Keys!keyVars)
  BY <1>1
<1> QED
  BY <1>2, KeysInvariance, PTL DEF Keys!Spec, Keys!IdentityIsKept

(***************************************************************************)
(* The cipher (RotatingCipher): its OrderedDict implements a cipher        *)
(* without a cache, for any packets, any rotation and any cache size.      *)
(***************************************************************************)

Epochs == {Cipher!EpochFor(n) : n \in Sequences}

\* No epoch is twice among those used so far.
UsedOnce(seq) == \A i, j \in 1 .. Len(seq) : seq[i] = seq[j] => i = j

\* The dict holds the last epochs used, in the same order, each with its own
\* key; it is full unless it holds all of them.
Mirrors(dict, seq) ==
  /\ Len(dict) <= Len(seq)
  /\ Len(dict) <= CacheSize
  /\ Len(dict) = Len(seq) \/ Len(dict) = CacheSize
  /\ \A i \in 1 .. Len(dict) :
       /\ dict[i].epoch = seq[Len(seq) - Len(dict) + i]
       /\ dict[i].key = seq[Len(seq) - Len(dict) + i]

CipherInv == Cipher!CiphersTypeOK /\ UsedOnce(recent) /\ Mirrors(ciphers, recent)

(***************************************************************************)
(* Sequences without one element, and with one more at the end.            *)
(***************************************************************************)

LEMMA WithoutEffect ==
  ASSUME NEW S, NEW seq \in Seq(S), NEW i \in 1 .. Len(seq)
  PROVE  /\ Cipher!Cipher!Without(seq, i) \in Seq(S)
         /\ Len(Cipher!Cipher!Without(seq, i)) = Len(seq) - 1
         /\ \A j \in 1 .. Len(seq) - 1 :
              Cipher!Cipher!Without(seq, i)[j] = seq[IF j < i THEN j ELSE j + 1]
<1> DEFINE W == Cipher!Cipher!Without(seq, i)
<1>1. Len(seq) \in Nat /\ Len(seq) - 1 \in Nat /\ \A j \in 1 .. Len(seq) : seq[j] \in S
  BY LenProperties
<1>2. W = [j \in 1 .. Len(seq) - 1 |-> seq[IF j < i THEN j ELSE j + 1]]
  BY DEF Cipher!Cipher!Without
<1>3. W \in [1 .. Len(seq) - 1 -> S]
  BY <1>1, <1>2
<1>4. W \in Seq(S)
  BY <1>1, <1>3, SeqDef
<1>5. Len(W) = Len(seq) - 1
  BY <1>1, <1>3, <1>4, LenProperties
<1> QED
  BY <1>2, <1>4, <1>5

LEMMA AppendEffect ==
  ASSUME NEW S, NEW seq \in Seq(S), NEW e \in S
  PROVE  /\ Append(seq, e) \in Seq(S)
         /\ Len(Append(seq, e)) = Len(seq) + 1
         /\ \A j \in 1 .. Len(seq) : Append(seq, e)[j] = seq[j]
         /\ Append(seq, e)[Len(seq) + 1] = e
BY AppendProperties, LenProperties

LEMMA TailEffect ==
  ASSUME NEW S, NEW seq \in Seq(S), Len(seq) > 0
  PROVE  /\ Tail(seq) \in Seq(S)
         /\ Len(Tail(seq)) = Len(seq) - 1
         /\ \A j \in 1 .. Len(seq) - 1 : Tail(seq)[j] = seq[j + 1]
<1>1. seq # << >>
  BY EmptySeq
<1> QED
  BY <1>1, HeadTailProperties, LenProperties

(***************************************************************************)
(* The history of epochs.                                                  *)
(***************************************************************************)

\* An epoch that was not used before is put at the end.
LEMMA TouchedNew ==
  ASSUME Cipher!CiphersTypeOK, UsedOnce(recent), NEW e \in Epochs,
         \A i \in 1 .. Len(recent) : recent[i] # e
  PROVE  LET seq == Cipher!Cipher!Touched(e) IN
         /\ seq \in Seq(Epochs) /\ UsedOnce(seq)
         /\ Len(seq) = Len(recent) + 1 /\ seq[Len(recent) + 1] = e
         /\ \A j \in 1 .. Len(recent) : seq[j] = recent[j]
<1>1. recent \in Seq(Epochs) /\ Len(recent) \in Nat
  BY LenProperties DEF Cipher!CiphersTypeOK, Epochs
<1>2. Cipher!Cipher!Touched(e) = Append(recent, e)
  BY DEF Cipher!Cipher!Touched
<1>3. /\ Append(recent, e) \in Seq(Epochs)
      /\ Len(Append(recent, e)) = Len(recent) + 1
      /\ \A j \in 1 .. Len(recent) : Append(recent, e)[j] = recent[j]
      /\ Append(recent, e)[Len(recent) + 1] = e
  BY <1>1, AppendEffect
<1>4. UsedOnce(Append(recent, e))
  BY <1>1, <1>3 DEF UsedOnce
<1> QED
  BY <1>2, <1>3, <1>4

\* An epoch that was used before is moved to the end.
LEMMA TouchedOld ==
  ASSUME Cipher!CiphersTypeOK, UsedOnce(recent), NEW e \in Epochs,
         NEW q \in 1 .. Len(recent), recent[q] = e
  PROVE  LET seq == Cipher!Cipher!Touched(e) IN
         /\ seq \in Seq(Epochs) /\ UsedOnce(seq)
         /\ Len(seq) = Len(recent) /\ seq[Len(recent)] = e
         /\ \A j \in 1 .. Len(recent) - 1 : seq[j] = recent[IF j < q THEN j ELSE j + 1]
<1> DEFINE W == Cipher!Cipher!Without(recent, q)
<1>1. recent \in Seq(Epochs) /\ Len(recent) \in Nat
  BY LenProperties DEF Cipher!CiphersTypeOK, Epochs
<1>2. (CHOOSE i \in 1 .. Len(recent) : recent[i] = e) = q
  BY DEF UsedOnce
<1>3. Cipher!Cipher!Touched(e) = Append(W, e)
  BY <1>2 DEF Cipher!Cipher!Touched
<1>4. /\ W \in Seq(Epochs)
      /\ Len(W) = Len(recent) - 1
      /\ \A j \in 1 .. Len(recent) - 1 : W[j] = recent[IF j < q THEN j ELSE j + 1]
  BY <1>1, WithoutEffect
<1> HIDE DEF W
<1>5. /\ Append(W, e) \in Seq(Epochs)
      /\ Len(Append(W, e)) = Len(recent)
      /\ \A j \in 1 .. Len(recent) - 1 : Append(W, e)[j] = W[j]
      /\ Append(W, e)[Len(recent)] = e
  BY <1>1, <1>4, AppendEffect
<1>6. \A j \in 1 .. Len(recent) - 1 : W[j] # e
  BY <1>1, <1>4 DEF UsedOnce
<1>7. \A i, j \in 1 .. Len(recent) - 1 : W[i] = W[j] => i = j
  BY <1>1, <1>4 DEF UsedOnce
<1>8. UsedOnce(Append(W, e))
  BY <1>1, <1>5, <1>6, <1>7 DEF UsedOnce
<1> QED
  BY <1>3, <1>4, <1>5, <1>8

(***************************************************************************)
(* The dict.                                                               *)
(***************************************************************************)

Dict == Seq([epoch : Epochs, key : Epochs])

\* The dict holds exactly the epochs whose keys are at hand, at their places.
LEMMA HeldIsRecent ==
  ASSUME CipherInv, NEW e \in Epochs, NEW p \in 1 .. Len(ciphers), ciphers[p].epoch = e
  PROVE  /\ Cipher!PlaceOf(ciphers, e) = p
         /\ Len(recent) - Len(ciphers) + p \in 1 .. Len(recent)
         /\ recent[Len(recent) - Len(ciphers) + p] = e
         /\ ciphers[p].key = e
<1>1. Len(ciphers) \in Nat /\ Len(recent) \in Nat
  BY LenProperties DEF CipherInv, Cipher!CiphersTypeOK
<1>2. \A i \in 1 .. Len(ciphers) :
        /\ Len(recent) - Len(ciphers) + i \in 1 .. Len(recent)
        /\ ciphers[i].epoch = recent[Len(recent) - Len(ciphers) + i]
        /\ ciphers[i].key = recent[Len(recent) - Len(ciphers) + i]
  BY <1>1 DEF CipherInv, Mirrors
<1>3. ASSUME NEW i \in 1 .. Len(ciphers), ciphers[i].epoch = e
      PROVE  i = p
  <2>1. Len(recent) - Len(ciphers) + i = Len(recent) - Len(ciphers) + p
    BY <1>2, <1>3 DEF CipherInv, UsedOnce
  <2> QED
    BY <1>1, <2>1
<1> QED
  BY <1>2, <1>3 DEF Cipher!PlaceOf

LEMMA HeldIsAtHand ==
  ASSUME CipherInv, NEW e \in Epochs
  PROVE  Cipher!Holds(ciphers, e) <=> Cipher!Cipher!AtHand(e)
<1>1. Len(ciphers) \in Nat /\ Len(recent) \in Nat
  BY LenProperties DEF CipherInv, Cipher!CiphersTypeOK
<1>2. ASSUME Cipher!Holds(ciphers, e)
      PROVE  Cipher!Cipher!AtHand(e)
  <2>1. PICK p \in 1 .. Len(ciphers) : ciphers[p].epoch = e
    BY <1>2 DEF Cipher!Holds
  <2>2. /\ Len(recent) - Len(ciphers) + p \in 1 .. Len(recent)
        /\ recent[Len(recent) - Len(ciphers) + p] = e
    BY <2>1, HeldIsRecent
  <2>3. Len(recent) - (Len(recent) - Len(ciphers) + p) < CacheSize
    BY <1>1, RotationAssumption DEF CipherInv, Mirrors
  <2> QED
    BY <2>2, <2>3 DEF Cipher!Cipher!AtHand
<1>3. ASSUME Cipher!Cipher!AtHand(e)
      PROVE  Cipher!Holds(ciphers, e)
  <2>1. PICK i \in 1 .. Len(recent) : recent[i] = e /\ Len(recent) - i < CacheSize
    BY <1>3 DEF Cipher!Cipher!AtHand
  <2> DEFINE p == i - Len(recent) + Len(ciphers)
  <2>2. p \in 1 .. Len(ciphers)
    BY <1>1, <2>1, RotationAssumption DEF CipherInv, Mirrors
  <2>3. Len(recent) - Len(ciphers) + p = i
    BY <1>1
  <2>4. ciphers[p].epoch = e
    BY <2>1, <2>2, <2>3 DEF CipherInv, Mirrors
  <2> QED
    BY <2>2, <2>4 DEF Cipher!Holds
<1> QED
  BY <1>2, <1>3

\* A hit: the entry moves to the end of the dict as its epoch does in the history.
LEMMA MoveToEndMirrors ==
  ASSUME CipherInv, NEW e \in Epochs, NEW p \in 1 .. Len(ciphers), ciphers[p].epoch = e
  PROVE  /\ Cipher!MoveToEnd(ciphers, e) \in Dict
         /\ Mirrors(Cipher!MoveToEnd(ciphers, e), Cipher!Cipher!Touched(e))
<1> DEFINE W == Cipher!Cipher!Without(ciphers, p)
           M == Append(W, ciphers[p])
           T == Cipher!Cipher!Touched(e)
           q == Len(recent) - Len(ciphers) + p
<1>1. /\ ciphers \in Dict /\ Len(ciphers) \in Nat /\ Len(recent) \in Nat
      /\ ciphers[p] \in [epoch : Epochs, key : Epochs]
  BY LenProperties, ElementOfSeq DEF CipherInv, Cipher!CiphersTypeOK, Dict, Epochs
<1>2. Cipher!PlaceOf(ciphers, e) = p /\ q \in 1 .. Len(recent) /\ recent[q] = e /\ ciphers[p].key = e
  BY HeldIsRecent
<1>3. Cipher!MoveToEnd(ciphers, e) = M
  BY <1>2 DEF Cipher!MoveToEnd, Cipher!Entry
<1>4. /\ W \in Dict /\ Len(W) = Len(ciphers) - 1
      /\ \A j \in 1 .. Len(ciphers) - 1 : W[j] = ciphers[IF j < p THEN j ELSE j + 1]
  BY <1>1, WithoutEffect DEF Dict
<1> HIDE DEF W
<1>5. /\ M \in Dict /\ Len(M) = Len(ciphers)
      /\ \A j \in 1 .. Len(ciphers) - 1 : M[j] = W[j]
      /\ M[Len(ciphers)] = ciphers[p]
  <2>1. Len(W) + 1 = Len(ciphers)
    BY <1>1, <1>4
  <2> QED
    BY <1>1, <1>4, <2>1, AppendEffect DEF Dict
<1>6. /\ Len(T) = Len(recent) /\ T[Len(recent)] = e
      /\ \A j \in 1 .. Len(recent) - 1 : T[j] = recent[IF j < q THEN j ELSE j + 1]
  BY <1>2, TouchedOld DEF CipherInv
<1> HIDE DEF M, T
<1>7. \A i \in 1 .. Len(ciphers) :
        /\ ciphers[i].epoch = recent[Len(recent) - Len(ciphers) + i]
        /\ ciphers[i].key = recent[Len(recent) - Len(ciphers) + i]
  BY DEF CipherInv, Mirrors
<1>9. Len(ciphers) <= Len(recent)
  BY DEF CipherInv, Mirrors
<1>8. \A i \in 1 .. Len(M) :
        /\ M[i].epoch = T[Len(T) - Len(M) + i]
        /\ M[i].key = T[Len(T) - Len(M) + i]
  <2> SUFFICES ASSUME NEW i \in 1 .. Len(ciphers)
               PROVE  /\ M[i].epoch = T[Len(recent) - Len(ciphers) + i]
                      /\ M[i].key = T[Len(recent) - Len(ciphers) + i]
    BY <1>5, <1>6
  <2>1. CASE i = Len(ciphers)
    BY <1>1, <1>2, <1>5, <1>6, <2>1
  <2>2. CASE i < p
    <3>1. M[i] = ciphers[i]
      BY <1>1, <1>4, <1>5, <2>2
    <3>2. T[Len(recent) - Len(ciphers) + i] = recent[Len(recent) - Len(ciphers) + i]
      <4>1. /\ Len(recent) - Len(ciphers) + i \in 1 .. Len(recent) - 1
            /\ Len(recent) - Len(ciphers) + i < q
        BY <1>1, <1>9, <2>2
      <4> QED
        BY <1>6, <4>1
    <3> QED
      BY <1>7, <3>1, <3>2
  <2>3. CASE p <= i /\ i < Len(ciphers)
    <3>0. i \in 1 .. Len(ciphers) - 1 /\ i + 1 \in 1 .. Len(ciphers) /\ ~ (i < p)
      BY <1>1, <2>3
    <3>1. M[i] = ciphers[i + 1] /\ i + 1 \in 1 .. Len(ciphers)
      BY <1>4, <1>5, <3>0
    <3>2. T[Len(recent) - Len(ciphers) + i] = recent[Len(recent) - Len(ciphers) + (i + 1)]
      <4>1. /\ Len(recent) - Len(ciphers) + i \in 1 .. Len(recent) - 1
            /\ ~ (Len(recent) - Len(ciphers) + i < q)
            /\ Len(recent) - Len(ciphers) + i + 1 = Len(recent) - Len(ciphers) + (i + 1)
        BY <1>1, <1>9, <2>3
      <4> QED
        BY <1>6, <4>1
    <3> QED
      BY <1>7, <3>1, <3>2
  <2> QED
    BY <1>1, <2>1, <2>2, <2>3
<1> QED
  BY <1>3, <1>5, <1>6, <1>8 DEF CipherInv, Mirrors, T

\* A miss: the new entry is the last of the dict, whose first one makes room
\* for it once the dict is full.
LEMMA InsertMirrors ==
  ASSUME CipherInv, NEW e \in Epochs, ~ Cipher!Holds(ciphers, e)
  PROVE  /\ Cipher!Insert(ciphers, e) \in Dict
         /\ Mirrors(Cipher!Insert(ciphers, e), Cipher!Cipher!Touched(e))
<1> DEFINE new == [epoch |-> e, key |-> e]
           A == Append(ciphers, new)
           I == Cipher!Insert(ciphers, e)
           T == Cipher!Cipher!Touched(e)
           K == Len(ciphers)
           L == Len(recent)
<1>1. ciphers \in Dict /\ K \in Nat /\ L \in Nat /\ new \in [epoch : Epochs, key : Epochs]
  BY LenProperties DEF CipherInv, Cipher!CiphersTypeOK, Dict, Epochs
<1>2. /\ A \in Dict /\ Len(A) = K + 1
      /\ \A j \in 1 .. K : A[j] = ciphers[j]
      /\ A[K + 1] = new
  BY <1>1, AppendEffect DEF Dict
<1>3. /\ K <= L /\ K <= CacheSize /\ (K = L \/ K = CacheSize)
      /\ \A i \in 1 .. K : ciphers[i].epoch = recent[L - K + i] /\ ciphers[i].key = recent[L - K + i]
  BY DEF CipherInv, Mirrors
<1>4. /\ I \in Dict /\ Len(I) = IF K < CacheSize THEN K + 1 ELSE K
      /\ \A i \in 1 .. Len(I) : I[i] = A[K + 1 - Len(I) + i]
  <2>1. CASE K < CacheSize
    <3>1. I = A
      BY <1>1, <1>2, <2>1, RotationAssumption DEF Cipher!Insert, Cipher!Bounded
    <3> QED
      BY <1>1, <1>2, <2>1, <3>1
  <2>2. CASE K = CacheSize
    <3>1. I = Tail(A)
      BY <1>1, <1>2, <2>2, RotationAssumption DEF Cipher!Insert, Cipher!Bounded
    <3>2. /\ Tail(A) \in Dict /\ Len(Tail(A)) = K
          /\ \A j \in 1 .. K : Tail(A)[j] = A[j + 1]
      BY <1>1, <1>2, TailEffect DEF Dict
    <3> QED
      BY <1>1, <2>2, <3>1, <3>2
  <2>3. K < CacheSize \/ K = CacheSize
    BY <1>1, <1>3, RotationAssumption
  <2> QED
    BY <2>1, <2>2, <2>3
<1> HIDE DEF A, I, T, K, L
<1>0. (K < CacheSize /\ K = L) \/ K = CacheSize
  BY <1>1, <1>3, RotationAssumption
<1>5. /\ Len(T) \in Nat /\ T[Len(T)] = e
      /\ Len(I) <= Len(T) /\ (Len(I) = Len(T) \/ Len(I) = CacheSize)
      /\ \A i \in 1 .. Len(I) - 1 : T[Len(T) - Len(I) + i] = recent[L - Len(I) + 1 + i]
  <2>1. CASE \A i \in 1 .. L : recent[i] # e
    <3>1. /\ Len(T) = L + 1 /\ T[L + 1] = e
          /\ \A j \in 1 .. L : T[j] = recent[j]
      BY <2>1, TouchedNew DEF CipherInv, T, L
    <3>2. CASE K < CacheSize /\ K = L
      <4>1. Len(I) = L + 1
        BY <1>4, <3>2
      <4> QED
        BY <1>1, <3>1, <4>1
    <3>3. CASE K = CacheSize
      <4>1. Len(I) = K /\ Len(I) = CacheSize
        BY <1>1, <1>4, <3>3
      <4>2. ASSUME NEW i \in 1 .. K - 1
            PROVE  T[L + 1 - K + i] = recent[L - K + 1 + i]
        <5>1. L + 1 - K + i \in 1 .. L /\ L + 1 - K + i = L - K + 1 + i
          BY <1>1, <1>3
        <5> QED
          BY <3>1, <5>1
      <4>3. Len(T) \in Nat /\ Len(I) <= Len(T) /\ T[Len(T)] = e
        BY <1>1, <1>3, <3>1, <4>1
      <4>4. Len(T) - Len(I) = L + 1 - K /\ L - Len(I) + 1 = L - K + 1
        BY <1>1, <3>1, <4>1
      <4> QED
        BY <4>1, <4>2, <4>3, <4>4
    <3> QED
      BY <1>0, <3>2, <3>3
  <2>2. CASE \E q \in 1 .. L : recent[q] = e
    <3>0. PICK q \in 1 .. L : recent[q] = e
      BY <2>2
    <3>1. /\ Len(T) = L /\ T[L] = e
          /\ \A j \in 1 .. L - 1 : T[j] = recent[IF j < q THEN j ELSE j + 1]
      BY <3>0, TouchedOld DEF CipherInv, T, L
    <3>2. q <= L - K
      <4> SUFFICES ASSUME q > L - K
                   PROVE  FALSE
        BY <1>1
      <4>1. q - (L - K) \in 1 .. K /\ L - K + (q - (L - K)) = q
        BY <1>1, <1>3
      <4>2. ciphers[q - (L - K)].epoch = e
        BY <1>3, <3>0, <4>1
      <4> QED
        BY <4>1, <4>2 DEF Cipher!Holds, K
    <3>3. K = CacheSize /\ Len(I) = K
      BY <1>0, <1>1, <1>4, <3>2
    <3>4. ASSUME NEW i \in 1 .. K - 1
          PROVE  T[L - K + i] = recent[L - K + 1 + i]
      <4>1. /\ L - K + i \in 1 .. L - 1 /\ ~ (L - K + i < q)
            /\ L - K + i + 1 = L - K + 1 + i
        BY <1>1, <1>3, <3>2
      <4> QED
        BY <3>1, <4>1
    <3> QED
      BY <1>1, <1>3, <3>1, <3>3, <3>4
  <2> QED
    BY <2>1, <2>2
<1>6. \A i \in 1 .. Len(I) :
        I[i].epoch = T[Len(T) - Len(I) + i] /\ I[i].key = T[Len(T) - Len(I) + i]
  <2> SUFFICES ASSUME NEW i \in 1 .. Len(I)
               PROVE  I[i].epoch = T[Len(T) - Len(I) + i] /\ I[i].key = T[Len(T) - Len(I) + i]
    OBVIOUS
  <2>1. CASE i = Len(I)
    <3>1. I[i] = new
      <4>1. K + 1 - Len(I) + i = K + 1
        BY <1>1, <1>4, <2>1
      <4> QED
        BY <1>2, <1>4, <4>1
    <3>2. Len(T) - Len(I) + i = Len(T)
      BY <1>1, <1>4, <1>5, <2>1, RotationAssumption
    <3> QED
      BY <1>5, <3>1, <3>2
  <2>2. CASE i < Len(I)
    <3>1. /\ K + 1 - Len(I) + i \in 1 .. K
          /\ L - K + (K + 1 - Len(I) + i) = L - Len(I) + 1 + i
      BY <1>1, <1>3, <1>4, <2>2, RotationAssumption
    <3>2. I[i] = ciphers[K + 1 - Len(I) + i]
      BY <1>2, <1>4, <3>1
    <3>3. T[Len(T) - Len(I) + i] = recent[L - K + (K + 1 - Len(I) + i)]
      <4>1. i \in 1 .. Len(I) - 1
        BY <1>1, <1>4, <2>2
      <4> QED
        BY <1>5, <3>1, <4>1
    <3> QED
      BY <1>3, <3>1, <3>2, <3>3
  <2> QED
    BY <1>1, <1>4, <2>1, <2>2, RotationAssumption
<1>7. Len(I) <= CacheSize
  BY <1>1, <1>3, <1>4, RotationAssumption
<1> QED
  BY <1>4, <1>5, <1>6, <1>7 DEF Mirrors, I, T

LEMMA CipherInit == Cipher!Init => CipherInv
<1> SUFFICES ASSUME Cipher!Init
             PROVE  CipherInv
  OBVIOUS
<1>1. ciphers = << >> /\ recent = << >> /\ Len(ciphers) = 0 /\ Len(recent) = 0
  BY EmptySeq DEF Cipher!Init
<1>2. Cipher!CiphersTypeOK
  BY <1>1, EmptySeq, RotationAssumption DEF Cipher!CiphersTypeOK, Cipher!Init
<1>3. UsedOnce(recent) /\ Mirrors(ciphers, recent)
  BY <1>1, RotationAssumption DEF UsedOnce, Mirrors
<1> QED
  BY <1>2, <1>3 DEF CipherInv

LEMMA CipherUseStep ==
  ASSUME CipherInv, NEW n \in Sequences, Cipher!Use(n)
  PROVE  CipherInv' /\ Cipher!Cipher!Use(n)
<1> DEFINE e == Cipher!EpochFor(n)
<1>1. e \in Epochs
  BY DEF Epochs
<1>2. /\ ciphers' = Cipher!CipherFor(ciphers, e)
      /\ recent' = Cipher!Cipher!Touched(e)
      /\ used' = [seq |-> n, key |-> Cipher!KeyFor(ciphers, e), derived |-> ~ Cipher!Holds(ciphers, e)]
  BY DEF Cipher!Use
<1> HIDE DEF e
<1>3. recent' \in Seq(Epochs) /\ UsedOnce(recent')
  <2>1. CASE \A i \in 1 .. Len(recent) : recent[i] # e
    BY <1>1, <1>2, <2>1, TouchedNew DEF CipherInv
  <2>2. CASE \E i \in 1 .. Len(recent) : recent[i] = e
    BY <1>1, <1>2, <2>2, TouchedOld DEF CipherInv
  <2> QED
    BY <2>1, <2>2
<1>4. ciphers' \in Dict /\ Mirrors(ciphers', recent') /\ Cipher!KeyFor(ciphers, e) = e
  <2>1. CASE Cipher!Holds(ciphers, e)
    <3>1. PICK p \in 1 .. Len(ciphers) : ciphers[p].epoch = e
      BY <2>1 DEF Cipher!Holds
    <3>2. ciphers' = Cipher!MoveToEnd(ciphers, e)
      BY <1>2, <2>1 DEF Cipher!CipherFor
    <3>3. Cipher!KeyFor(ciphers, e) = e
      BY <1>1, <2>1, <3>1, HeldIsRecent DEF Cipher!KeyFor, Cipher!Entry
    <3> QED
      BY <1>1, <1>2, <3>1, <3>2, <3>3, MoveToEndMirrors
  <2>2. CASE ~ Cipher!Holds(ciphers, e)
    <3>1. ciphers' = Cipher!Insert(ciphers, e) /\ Cipher!KeyFor(ciphers, e) = e
      BY <1>2, <2>2 DEF Cipher!CipherFor, Cipher!KeyFor
    <3> QED
      BY <1>1, <1>2, <2>2, <3>1, InsertMirrors
  <2> QED
    BY <2>1, <2>2
<1>5. used' \in [seq : Sequences \cup {-1}, key : Epochs \cup {-1}, derived : BOOLEAN]
  BY <1>1, <1>2, <1>4 DEF Cipher!Holds
<1>6. Cipher!CiphersTypeOK'
  BY <1>3, <1>4, <1>5 DEF Cipher!CiphersTypeOK, Epochs, Dict, Mirrors
<1>7. Cipher!Cipher!Use(n)
  <2>1. Cipher!Holds(ciphers, e) <=> Cipher!Cipher!AtHand(e)
    BY <1>1, HeldIsAtHand
  <2> QED
    BY <1>2, <1>4, <2>1 DEF Cipher!Cipher!Use, Cipher!Cipher!EpochFor, Cipher!EpochFor, e
<1> QED
  BY <1>3, <1>4, <1>6, <1>7 DEF CipherInv

LEMMA CipherNext ==
  ASSUME CipherInv, [Cipher!Next]_(Cipher!cipherVars)
  PROVE  CipherInv' /\ [\E n \in Sequences : Cipher!Cipher!Use(n)]_<<recent, used>>
<1>1. CASE Cipher!Next
  BY <1>1, CipherUseStep DEF Cipher!Next
<1>2. CASE UNCHANGED Cipher!cipherVars
  BY <1>2 DEF Cipher!cipherVars, CipherInv, Cipher!CiphersTypeOK, UsedOnce, Mirrors
<1> QED
  BY <1>1, <1>2

\* The inductive invariant: the dict holds the epochs used last, in the order
\* of their last use, each with its own key (_cipher_for).
LEMMA CipherInvariance == Cipher!Spec => []CipherInv
<1> QED
  BY CipherInit, CipherNext, PTL DEF Cipher!Spec

\* Type correctness: the dict never holds more than CacheSize ciphers.
LEMMA CipherTypeCorrect == Cipher!Spec => []Cipher!CiphersTypeOK
<1>1. CipherInv => Cipher!CiphersTypeOK
  BY DEF CipherInv
<1> QED
  BY <1>1, CipherInvariance, PTL

\* Refinement: for any packets and any sizes, every packet is handled with the
\* key of its own epoch, and a key is derived again only after CacheSize other
\* epochs were used (RotatingPacketCipher.encrypt, decrypt and _cipher_for).
LEMMA CipherRefinesEpochs == Cipher!Spec => Cipher!CipherSpec
<1>1. Cipher!Init => Cipher!Cipher!Init
  BY DEF Cipher!Init, Cipher!Cipher!Init
<1>2. CipherInv /\ [Cipher!Next]_(Cipher!cipherVars) =>
        [\E n \in Sequences : Cipher!Cipher!Use(n)]_<<recent, used>>
  BY CipherNext
<1> QED
  BY <1>1, <1>2, CipherInvariance, PTL DEF Cipher!Spec, Cipher!CipherSpec, Cipher!Cipher!Spec

(***************************************************************************)
(* The parts of the endpoint.                                              *)
(***************************************************************************)

\* The number the endpoint sends next, unless it has sent all it may.
SentOK == sent \in 0 .. MaxSent

LEMMA SentIsBounded == TunnelSpec => []SentOK
<1>1. TunnelInit => SentOK
  BY StaticTunnelAssumption DEF TunnelInit, SentOK
<1>2. ASSUME SentOK, [TunnelNext]_tunnelVars
      PROVE  SentOK'
  <2>1. CASE Send
    BY <1>2, <2>1, StaticTunnelAssumption DEF Send, SentOK
  <2>2. CASE UNCHANGED sent
    BY <1>2, <2>2 DEF SentOK
  <2>3. Send \/ UNCHANGED sent
    BY <1>2 DEF TunnelNext, tunnelVars, sessionVars, Start, CopyPublic, Generating, Receive,
       ReceiveReplay, ReceiveGenuine, ReceiveForged
  <2> QED
    BY <2>1, <2>2, <2>3
<1> QED
  BY <1>1, <1>2, PTL DEF TunnelSpec

\* Sending and receiving use the cipher once, with a number that packets carry.
LEMMA CipherInside == TunnelSpec => Cipher!Spec
<1>1. TunnelInit => Cipher!Init
  BY DEF TunnelInit
<1>2. ASSUME SentOK, [TunnelNext]_tunnelVars
      PROVE  [Cipher!Next]_(Cipher!cipherVars)
  <2>1. ASSUME NEW n \in Sequences, UseCipher(n)
        PROVE  [Cipher!Next]_(Cipher!cipherVars)
    BY <2>1 DEF UseCipher, Cipher!Next, Cipher!cipherVars
  <2>2. CASE Send
    <3>1. sent \in Sequences
      BY <1>2, <2>2, StaticTunnelAssumption DEF Send, SentOK
    <3> QED
      BY <2>1, <2>2, <3>1 DEF Send
  <2>3. CASE Receive
    <3>1. \E n \in Sequences : UseCipher(n) \/ UNCHANGED sessionVars
      BY <2>3 DEF Receive, ReceiveReplay, ReceiveGenuine, ReceiveForged
    <3> QED
      BY <2>1, <3>1 DEF sessionVars, Cipher!cipherVars
  <2>4. CASE UNCHANGED sessionVars
    BY <2>4 DEF sessionVars, Cipher!cipherVars
  <2>5. Send \/ Receive \/ UNCHANGED sessionVars
    BY <1>2 DEF TunnelNext, tunnelVars, Start, CopyPublic, Generating
  <2> QED
    BY <2>2, <2>3, <2>4, <2>5
<1> QED
  BY <1>1, <1>2, SentIsBounded, PTL DEF TunnelSpec, Cipher!Spec

LEMMA KeysInside == TunnelSpec => Keys!Spec
<1>1. TunnelInit => Keys!Init
  BY DEF TunnelInit
<1>2. [TunnelNext]_tunnelVars => [Keys!Next]_(Keys!keyVars)
  BY DEF TunnelNext, tunnelVars, keyVars, Keys!keyVars, Start, CopyPublic, Generating, Send, Receive
<1> QED
  BY <1>1, <1>2, PTL DEF TunnelSpec, Keys!Spec

(***************************************************************************)
(* The theorems.                                                           *)
(***************************************************************************)

\* Refinement: in both directions of a session every packet is handled with
\* the key of its own epoch, whatever order the two directions' packets come
\* in (the engine's use of RotatingPacketCipher).
THEOREM CipherImplementsEpochCipher == TunnelSpec => CipherSpec
BY CipherRefinesEpochs, CipherInside, PTL DEF CipherSpec

\* Two complete key files that an endpoint is started with belong together,
\* unless the writer of the private one was killed (write_keypair).
THEOREM FilesBelongTogether == TunnelSpec => []FilesMatch
BY KeysFilesMatch, KeysInside, PTL DEF FilesMatch

\* An identity is not overwritten or removed by another run of keygen while
\* endpoints are configured, started and run with it (write_keypair).
THEOREM IdentityKept == TunnelSpec => IdentityIsKept
BY KeysIdentityKept, KeysInside, PTL DEF IdentityIsKept

(***************************************************************************)
(* The window behind the cipher.                                           *)
(***************************************************************************)

\* The cipher comes up with the key of the packet's own epoch.
LEMMA GenuineOpens ==
  ASSUME CipherInv, NEW n \in Sequences, UseCipher(n)
  PROVE  Opens(n)
<1> SUFFICES ASSUME endpoint.rotates
             PROVE  used'.key = EpochFor(n)
  BY DEF Opens
<1>1. Cipher!Use(n)
  BY DEF UseCipher
<1>2. Cipher!Cipher!Use(n)
  BY <1>1, CipherUseStep
<1> QED
  BY <1>2 DEF Cipher!Cipher!Use, Cipher!Cipher!EpochFor, EpochFor

\* Refinement: no genuine packet is refused for the cipher's sake, so the
\* receive path of an endpoint, rotating or not, is ReplayWindow's
\* (engine.py: is_replay, decrypt, mark_authenticated).
THEOREM ReceivesAsReplayWindow == TunnelSpec => WindowSpec
<1>1. TunnelInit => Init
  BY DEF TunnelInit
<1>2. ASSUME CipherInv, [TunnelNext]_tunnelVars
      PROVE  [Next]_vars
  <2>1. CASE Receive
    <3>1. PICK n \in Sequences :
            \/ \E genuine \in BOOLEAN : ReceiveReplay(n, genuine)
            \/ ReceiveGenuine(n)
            \/ ReceiveForged(n)
      BY <2>1 DEF Receive
    <3>2. CASE \E genuine \in BOOLEAN : ReceiveReplay(n, genuine)
      BY <3>2 DEF ReceiveReplay, Next
    <3>3. CASE ReceiveGenuine(n)
      <4>1. Opens(n)
        BY <1>2, <3>3, GenuineOpens DEF ReceiveGenuine
      <4> QED
        BY <3>3, <4>1 DEF ReceiveGenuine, Next
    <3>4. CASE ReceiveForged(n)
      BY <3>4 DEF ReceiveForged, Next
    <3> QED
      BY <3>1, <3>2, <3>3, <3>4
  <2>2. CASE UNCHANGED windowVars
    BY <2>2 DEF windowVars, vars
  <2>3. Receive \/ UNCHANGED windowVars
    BY <1>2 DEF TunnelNext, tunnelVars, Start, CopyPublic, Generating, Send
  <2> QED
    BY <2>1, <2>2, <2>3
<1> QED
  BY <1>1, <1>2, CipherInvariance, CipherInside, PTL DEF TunnelSpec, WindowSpec, Spec

\* What is proved of ReplayWindow holds for the endpoint: its window is the
\* filter that remembers every number, rotation and all.
THEOREM ReceivesAsFilter == TunnelSpec => FilterSpec
BY ReceivesAsReplayWindow, WindowImplementsFilter, PTL DEF WindowSpec

\* Its two fields say exactly which of the last Size numbers it accepted.
THEOREM WindowOfEndpointIsExact == TunnelSpec => []WindowIsExact
BY ReceivesAsReplayWindow, ExactWindow, PTL DEF WindowSpec

(***************************************************************************)
(* Starting.                                                               *)
(***************************************************************************)

\* What _validate lets through passes main's checks, and there are two things
\* left that an object may raise for.
LEMMA ValidIsAccepted ==
  ASSUME NEW c, Validate(c)
  PROVE  MainAccepts(c) /\ Flaws(c) \subseteq {"nul", "timeout"}
<1>1. MainAccepts(c)
  BY DEF Validate, MainAccepts
<1>2. /\ CipherAccepts(c)
      /\ c.ephemeral_handshake => ~ Below(c.reconnect_delay, 0)
      /\ NameFits(c)
      /\ c.tun_address /\ MtuFits(c)
      /\ EngineAccepts(c)
  BY DEF Validate, CipherAccepts, EngineAccepts, DelaysAreValid
<1>3. /\ "cipher" \notin Flaws(c) /\ "delay" \notin Flaws(c)
      /\ "length" \notin Flaws(c)
      /\ "network" \notin Flaws(c) /\ "engine" \notin Flaws(c)
  BY <1>2 DEF Flaws
<1>4. Flaws(c) \subseteq FlawNames
  BY DEF Flaws
<1> QED
  BY <1>1, <1>3, <1>4 DEF FlawNames

\* For every set of documents: one that load_config accepts is not refused by
\* main, and makes a constructor raise only by a NUL in its tun_name or by a
\* handshake_timeout out of the socket's range (config.py against cli.py, tun.py
\* and transport.py).
THEOREM EveryConfiguredStarts == TunnelSpec => []ConfiguredStarts
<1>1. TunnelInit => ConfiguredStarts
  BY DEF TunnelInit, Off, ConfiguredStarts
<1>2. ASSUME ConfiguredStarts, [TunnelNext]_tunnelVars
      PROVE  ConfiguredStarts'
  <2>1. ASSUME NEW attempt \in Attempts, Start(attempt)
        PROVE  ConfiguredStarts'
    <3>1. PICK given \in BOOLEAN, works \in BOOLEAN :
            /\ endpoint'.by = attempt.by
            /\ endpoint'.state = StateAfter(attempt, given, works)
            /\ endpoint'.flaws \in {attempt.flaws, {}}
      BY <2>1 DEF Start
    <3>2. attempt.by = "document" =>
            attempt.checks # "refused" /\ attempt.flaws \subseteq {"nul", "timeout"}
      <4>1. PICK by \in {"document", "options"}, document \in Documents :
              attempt = AttemptOf(by, document)
        BY DEF Attempts
      <4>2. CASE ~ Parses(document) \/ (by = "document" /\ ~ Validate(ConfigOf(document)))
        BY <4>1, <4>2 DEF AttemptOf, Rejected
      <4>3. CASE Parses(document) /\ (by = "document" => Validate(ConfigOf(document)))
        <5> DEFINE c == ConfigOf(document)
        <5>1. /\ attempt.by = by
              /\ MainAccepts(c) => attempt.checks # "refused" /\ attempt.flaws = Flaws(c)
          BY <4>1, <4>3 DEF AttemptOf
        <5>2. by = "document" => MainAccepts(c) /\ Flaws(c) \subseteq {"nul", "timeout"}
          BY <4>3, ValidIsAccepted
        <5> QED
          BY <5>1, <5>2
      <4> QED
        BY <4>2, <4>3
    <3>3. StateAfter(attempt, given, works) = "refused" => attempt.checks = "refused"
      BY DEF StateAfter
    <3> QED
      BY <3>1, <3>2, <3>3 DEF ConfiguredStarts
  <2>2. CASE UNCHANGED endpoint
    BY <1>2, <2>2 DEF ConfiguredStarts
  <2>3. (\E attempt \in Attempts : Start(attempt)) \/ UNCHANGED endpoint
    BY <1>2 DEF TunnelNext, tunnelVars, CopyPublic, Generating, Send, Receive
  <2> QED
    BY <2>1, <2>2, <2>3
<1> QED
  BY <1>1, <1>2, PTL DEF TunnelSpec

(***************************************************************************)
(* The types.                                                              *)
(***************************************************************************)

LEMMA WindowTypes == TunnelSpec => []TypeOK
BY ReceivesAsReplayWindow, WindowTypeCorrect, PTL DEF WindowSpec

EndpointOK == copy \in File /\ endpoint \in Endpoint

LEMMA StartKeepsType ==
  ASSUME NEW attempt \in Attempts, Start(attempt)
  PROVE  endpoint' \in Endpoint
<1>1. PICK by \in {"document", "options"}, document \in Documents :
        attempt = AttemptOf(by, document)
  BY DEF Attempts
<1>2. /\ attempt.by \in {"document", "options"}
      /\ attempt.checks \in {"rejected", "refused", "raised", "handshake", "passed"}
  BY <1>1 DEF AttemptOf, Rejected
<1>3. attempt.flaws \subseteq FlawNames
  <2>1. Flaws(ConfigOf(document)) \subseteq FlawNames
    BY DEF Flaws
  <2>2. attempt.flaws \in {{}, Flaws(ConfigOf(document))}
    BY <1>1 DEF AttemptOf, Rejected
  <2> QED
    BY <2>1, <2>2
<1>4. PICK given \in BOOLEAN, works \in BOOLEAN :
        LET state == StateAfter(attempt, given, works) IN
        endpoint' = [by |-> attempt.by, state |-> state,
                     flaws |-> IF state = "raised" THEN attempt.flaws ELSE {},
                     rotates |-> state = "tunnel" /\ attempt.rotates,
                     agrees |-> state = "tunnel" /\ SecretsAgree(attempt)]
  BY DEF Start
<1>5. StateAfter(attempt, given, works) \in
        {"off", "rejected", "refused", "no_keys", "raised", "failed",
         "handshake", "plain", "tunnel"}
  BY <1>2 DEF StateAfter
<1> QED
  BY <1>2, <1>3, <1>4, <1>5 DEF Endpoint

\* Type correctness of the endpoint, its window, its key files and its ciphers.
THEOREM TunnelTypeCorrect == TunnelSpec => []TunnelTypeOK
<1>1. TunnelInit => EndpointOK
  BY KeyPairsAssumption DEF TunnelInit, EndpointOK, Off, Endpoint, NoFile, File
<1>2. ASSUME EndpointOK, Keys!TypeOK, [TunnelNext]_tunnelVars
      PROVE  EndpointOK'
  <2>1. public \in File
    BY <1>2 DEF Keys!TypeOK, Keys!File, File
  <2>2. copy' \in {copy, public}
    BY <1>2 DEF TunnelNext, tunnelVars, Start, CopyPublic, Generating, Send, Receive
  <2>3. (\E attempt \in Attempts : Start(attempt)) \/ UNCHANGED endpoint
    BY <1>2 DEF TunnelNext, tunnelVars, CopyPublic, Generating, Send, Receive
  <2> QED
    BY <1>2, <2>1, <2>2, <2>3, StartKeepsType DEF EndpointOK
<1>3. EndpointOK /\ TypeOK /\ Keys!TypeOK /\ Cipher!CiphersTypeOK /\ SentOK => TunnelTypeOK
  BY DEF EndpointOK, SentOK, TunnelTypeOK
<1> QED
  BY <1>1, <1>2, <1>3, SentIsBounded, WindowTypes, CipherTypeCorrect, CipherInside,
     KeysTypeCorrect, KeysInside, PTL DEF TunnelSpec
=============================================================================
