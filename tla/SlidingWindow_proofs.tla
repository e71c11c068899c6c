------------------------- MODULE SlidingWindow_proofs -------------------------
(***************************************************************************)
(* Lemmas about the operators of SlidingWindow, for every Size.            *)
(***************************************************************************)
EXTENDS SlidingWindow, TLAPS

\* A window describes a set of accepted numbers exactly (the relation that
\* ReplayWindow's WindowIsExact states of its two variables).
Represents(w, acc) ==
  /\ w.highest \in acc \cup {-1}
  /\ \A m \in acc : m <= w.highest
  /\ \A d \in 0 .. Size - 1 : d \in w.bitmap <=> w.highest - d \in acc

\* A new window represents the empty set.
LEMMA EmptyRepresents ==
  EmptyWindow \in Window /\ Represents(EmptyWindow, {})
BY SizeAssumption DEF EmptyWindow, Window, Represents

\* mark_authenticated keeps the fields in their types.
LEMMA MarkType ==
  ASSUME NEW w \in Window, NEW n \in Nat, ~ IsReplay(w, n)
  PROVE  MarkAuthenticated(w, n) \in Window
<1>1. CASE n > w.highest
  BY <1>1, SizeAssumption DEF MarkAuthenticated, Shifted, Window
<1>2. CASE ~ (n > w.highest)
  <2>1. w.highest - n \in 0 .. Size - 1
    BY <1>2, SizeAssumption DEF IsReplay, Window
  <2>2. MarkAuthenticated(w, n) = [w EXCEPT !.bitmap = @ \cup {w.highest - n}]
    BY <1>2 DEF MarkAuthenticated
  <2> QED BY <2>1, <2>2 DEF Window
<1> QED BY <1>1, <1>2

\* is_replay answers FALSE exactly for the numbers the filter calls fresh.
LEMMA IsReplayIffNotFresh ==
  ASSUME NEW w \in Window, NEW acc \in SUBSET Nat, Represents(w, acc), NEW n \in Nat
  PROVE  IsReplay(w, n) <=> ~ (n \notin acc /\ \A m \in acc : m - n < Size)
<1>1. CASE n > w.highest
  <2>1. ~ IsReplay(w, n)
    BY <1>1 DEF IsReplay, Window
  <2>2. n \notin acc /\ \A m \in acc : m - n < Size
    BY <1>1, SizeAssumption DEF Represents, Window
  <2> QED BY <2>1, <2>2
<1>2. CASE n <= w.highest /\ w.highest - n >= Size
  <2>1. IsReplay(w, n)
    BY <1>2 DEF IsReplay
  <2>2. w.highest \in acc
    BY <1>2, SizeAssumption DEF Represents, Window
  <2>3. ~ (w.highest - n < Size)
    BY <1>2, SizeAssumption DEF Window
  <2> QED BY <2>1, <2>2, <2>3
<1>3. CASE n <= w.highest /\ w.highest - n < Size
  <2>1. w.highest - n \in 0 .. Size - 1 /\ w.highest - (w.highest - n) = n
    BY <1>3, SizeAssumption DEF Window
  <2>2. IsReplay(w, n) <=> n \in acc
    BY <1>3, <2>1, SizeAssumption DEF IsReplay, Represents, Window
  <2>3. \A m \in acc : m - n < Size
    BY <1>3, SizeAssumption DEF Represents, Window
  <2> QED BY <2>2, <2>3
<1> QED BY <1>1, <1>2, <1>3, SizeAssumption DEF Window

\* After mark_authenticated the window represents one number more.
LEMMA MarkRepresents ==
  ASSUME NEW w \in Window, NEW acc \in SUBSET Nat, Represents(w, acc),
         NEW n \in Nat, ~ IsReplay(w, n)
  PROVE  Represents(MarkAuthenticated(w, n), acc \cup {n})
<1> DEFINE v == MarkAuthenticated(w, n)
<1>1. CASE n > w.highest
  <2>1. v.highest = n /\ v.bitmap = {0} \cup Shifted(w.bitmap, n - w.highest)
    BY <1>1 DEF MarkAuthenticated
  <2>2. \A m \in acc \cup {n} : m <= n
    BY <1>1 DEF Represents, Window
  <2>3. ASSUME NEW d \in 0 .. Size - 1
        PROVE  d \in v.bitmap <=> n - d \in acc \cup {n}
    <3>1. CASE d = 0
      BY <2>1, <3>1
    <3>2. CASE d # 0 /\ d < n - w.highest
      <4>1. n - d \notin acc \cup {n}
        BY <3>2, <1>1 DEF Represents, Window
      <4>2. d \notin v.bitmap
        BY <2>1, <3>2, <1>1, SizeAssumption DEF Shifted, Window
      <4> QED BY <4>1, <4>2
    <3>3. CASE d # 0 /\ d >= n - w.highest
      <4>1. n - w.highest < Size /\ d - (n - w.highest) \in 0 .. Size - 1
        BY <3>3, <1>1, SizeAssumption DEF Window
      <4>2. d \in v.bitmap <=> d - (n - w.highest) \in w.bitmap
        BY <2>1, <3>3, <4>1, <1>1, SizeAssumption DEF Shifted, Window
      <4>3. w.highest - (d - (n - w.highest)) = n - d
        BY <1>1 DEF Window
      <4>4. d - (n - w.highest) \in w.bitmap <=> n - d \in acc
        BY <4>1, <4>3 DEF Represents
      <4> QED BY <4>2, <4>4, <3>3
    <3> QED BY <3>1, <3>2, <3>3, <1>1, SizeAssumption DEF Window
  <2> QED BY <2>1, <2>2, <2>3 DEF Represents
<1>2. CASE ~ (n > w.highest)
  <2>1. v = [w EXCEPT !.bitmap = @ \cup {w.highest - n}]
    BY <1>2 DEF MarkAuthenticated
  <2>2. v.highest = w.highest /\ v.bitmap = w.bitmap \cup {w.highest - n}
    BY <2>1 DEF Window
  <2>3. w.highest \in acc /\ n <= w.highest
    BY <1>2 DEF Represents, Window
  <2>4. ASSUME NEW d \in 0 .. Size - 1
        PROVE  d \in v.bitmap <=> w.highest - d \in acc \cup {n}
    BY <2>2, <2>3, SizeAssumption DEF Represents, Window
  <2> QED BY <2>2, <2>3, <2>4 DEF Represents, Window
<1> QED BY <1>1, <1>2

\* What has been marked is a replay from then on.
LEMMA MarkedIsReplay ==
  ASSUME NEW w \in Window, NEW n \in Nat, ~ IsReplay(w, n)
  PROVE  IsReplay(MarkAuthenticated(w, n), n)
<1>1. CASE n > w.highest
  BY <1>1, SizeAssumption DEF MarkAuthenticated, IsReplay, Window
<1>2. CASE ~ (n > w.highest)
  <2>1. MarkAuthenticated(w, n) = [w EXCEPT !.bitmap = @ \cup {w.highest - n}]
    BY <1>2 DEF MarkAuthenticated
  <2>2. /\ MarkAuthenticated(w, n).highest = w.highest
        /\ w.highest - n \in MarkAuthenticated(w, n).bitmap
    BY <2>1 DEF Window
  <2> QED BY <1>2, <2>2 DEF IsReplay, Window
<1> QED BY <1>1, <1>2

\* Marking one number never forgets another: a replay stays a replay.
LEMMA ReplayStaysReplay ==
  ASSUME NEW w \in Window, NEW n \in Nat, ~ IsReplay(w, n),
         NEW m \in Nat, IsReplay(w, m)
  PROVE  IsReplay(MarkAuthenticated(w, n), m)
<1>1. CASE n > w.highest
  <2>1. m <= w.highest /\ w.highest \in Nat
    BY DEF IsReplay, Window
  <2>2. MarkAuthenticated(w, n).highest = n
    BY <1>1 DEF MarkAuthenticated
  <2>3. CASE n - m >= Size
    BY <1>1, <2>1, <2>2, <2>3 DEF IsReplay
  <2>4. CASE n - m < Size
    <3>1. w.highest - m \in w.bitmap
      BY <1>1, <2>1, <2>4, SizeAssumption DEF IsReplay
    <3>2. n - w.highest < Size /\ n - m \in n - w.highest .. Size - 1
      BY <1>1, <2>1, <2>4, SizeAssumption
    <3>3. (n - m) - (n - w.highest) = w.highest - m
      BY <2>1
    <3>4. n - m \in Shifted(w.bitmap, n - w.highest)
      BY <3>1, <3>2, <3>3, <2>1, SizeAssumption DEF Shifted
    <3>5. n - m \in MarkAuthenticated(w, n).bitmap
      BY <1>1, <3>4 DEF MarkAuthenticated
    <3> QED BY <1>1, <2>1, <2>2, <3>5 DEF IsReplay
  <2> QED BY <2>1, <2>3, <2>4, SizeAssumption
<1>2. CASE ~ (n > w.highest)
  <2>1. MarkAuthenticated(w, n) = [w EXCEPT !.bitmap = @ \cup {w.highest - n}]
    BY <1>2 DEF MarkAuthenticated
  <2>2. /\ MarkAuthenticated(w, n).highest = w.highest
        /\ w.bitmap \subseteq MarkAuthenticated(w, n).bitmap
    BY <2>1 DEF Window
  <2> QED BY <2>2 DEF IsReplay
<1> QED BY <1>1, <1>2

\* The newest number a window knows is the old one or the one just marked, and
\* a number above it is never a replay.
LEMMA HighestFacts ==
  ASSUME NEW w \in Window, NEW n \in Nat
  PROVE  /\ MarkAuthenticated(w, n).highest \in {w.highest, n}
         /\ IsReplay(w, n) => n <= w.highest
BY DEF MarkAuthenticated, IsReplay, Window

\* Marking one number marks no other: within the window, only the number
\* itself becomes a replay.
LEMMA OnlyMarkedIsNew ==
  ASSUME NEW w \in Window, NEW n \in Nat, ~ IsReplay(w, n), NEW m \in Nat, m # n,
         IsReplay(MarkAuthenticated(w, n), m), MarkAuthenticated(w, n).highest - m < Size
  PROVE  IsReplay(w, m) /\ w.highest - m < Size
<1> DEFINE v == MarkAuthenticated(w, n)
<1>1. CASE n > w.highest
  <2>1. v.highest = n /\ v.bitmap = {0} \cup Shifted(w.bitmap, n - w.highest)
    BY <1>1 DEF MarkAuthenticated
  <2>2. m <= n /\ n - m < Size /\ n - m \in v.bitmap
    BY <2>1, SizeAssumption DEF IsReplay
  <2>3. n - m \in Shifted(w.bitmap, n - w.highest)
    BY <2>1, <2>2
  <2>4. n - m >= n - w.highest /\ (n - m) - (n - w.highest) \in w.bitmap
    BY <1>1, <2>3, SizeAssumption DEF Shifted, Window
  <2>5. m <= w.highest /\ w.highest - m < Size /\ (n - m) - (n - w.highest) = w.highest - m
    BY <1>1, <2>2, <2>4, SizeAssumption DEF Window
  <2> QED BY <2>4, <2>5 DEF IsReplay
<1>2. CASE ~ (n > w.highest)
  <2>1. v = [w EXCEPT !.bitmap = @ \cup {w.highest - n}]
    BY <1>2 DEF MarkAuthenticated
  <2>2. v.highest = w.highest /\ v.bitmap = w.bitmap \cup {w.highest - n}
    BY <2>1 DEF Window
  <2>3. w.highest - m # w.highest - n
    BY DEF Window
  <2> QED BY <2>2, <2>3 DEF IsReplay
<1> QED BY <1>1, <1>2
=============================================================================
