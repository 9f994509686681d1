------------------------- MODULE RotationEngineProofs -------------------------
(***************************************************************************)
(* What the movement engine and the planning of a round do to a layout of  *)
(* any size: everybody keeps exactly one place.                            *)
(***************************************************************************)
EXTENDS RotationAdvance, FiniteSetTheorems, SequenceTheorems,
        WellFoundedInduction, TLAPS

-----------------------------------------------------------------------------
(* Induction over the naturals, and functions defined by it.               *)

\* A set of naturals that is not empty has a least element.
LEMMA LeastNat ==
    ASSUME NEW S \in SUBSET Nat, S # {}
    PROVE  \E m \in S : \A n \in S : m <= n
<1>1. PICK m \in S : \A n \in S : ~(<<n, m>> \in OpToRel(<, Nat))
  BY NatLessThanWellFounded, WFMin
<1>2. \A n \in S : ~(n < m)
  BY <1>1 DEF OpToRel
<1> QED BY <1>2

\* A set that holds 0 and, with any number, the next holds them all.
LEMMA Climb ==
    ASSUME NEW S, 0 \in S, \A n \in Nat : n \in S => n + 1 \in S
    PROVE  \A n \in Nat : n \in S
<1> DEFINE T == Nat \ S
<1> SUFFICES ASSUME T # {} PROVE FALSE OBVIOUS
<1>1. PICK m \in T : \A n \in T : m <= n
  BY LeastNat
<1>2. m # 0 /\ m \in Nat
  BY <1>1
<1>3. m - 1 \in Nat /\ m - 1 \notin T
  BY <1>1, <1>2
<1> QED BY <1>1, <1>2, <1>3

\* A function is defined on 0..N by where it starts and how it goes on.
LEMMA StepByStep ==
    ASSUME NEW V, NEW a \in V, NEW N \in Nat, NEW step \in [1..N -> [V -> V]]
    PROVE  \E f \in [0..N -> V] :
               f[0] = a /\ \A i \in 1..N : f[i] = step[i][f[i - 1]]
<1> DEFINE Upto(n) == \E f \in [0..n -> V] :
               f = [i \in 0..n |-> IF i = 0 THEN a ELSE step[i][f[i - 1]]]
           S == {n \in Nat : n <= N => Upto(n)}
<1>1. 0 \in S
  <2> DEFINE f == [i \in 0..0 |-> a]
  <2>1. f \in [0..0 -> V] OBVIOUS
  <2>2. f = [i \in 0..0 |-> IF i = 0 THEN a ELSE step[i][f[i - 1]]] OBVIOUS
  <2> QED BY <2>1, <2>2
<1>2. ASSUME NEW n \in Nat, n \in S PROVE n + 1 \in S
  <2> SUFFICES ASSUME n + 1 <= N PROVE Upto(n + 1) OBVIOUS
  <2>1. PICK f \in [0..n -> V] :
            f = [i \in 0..n |-> IF i = 0 THEN a ELSE step[i][f[i - 1]]]
    BY <1>2
  <2> DEFINE g == [i \in 0..(n + 1) |-> IF i = n + 1 THEN step[n + 1][f[n]] ELSE f[i]]
  <2>2. f[n] \in V /\ n + 1 \in 1..N
    BY <2>1
  <2>3. step[n + 1][f[n]] \in V
    BY <2>2
  <2>4. g \in [0..(n + 1) -> V]
    BY <2>1, <2>3
  <2>5. ASSUME NEW i \in 0..(n + 1)
        PROVE  g[i] = IF i = 0 THEN a ELSE step[i][g[i - 1]]
    <3>1. CASE i = n + 1
      <4>1. g[i - 1] = f[n] /\ i # 0 BY <3>1
      <4> QED BY <3>1, <4>1
    <3>2. CASE i # n + 1
      <4>1. i \in 0..n BY <3>2
      <4>2. f[i] = IF i = 0 THEN a ELSE step[i][f[i - 1]] BY <2>1, <4>1, Zenon
      <4>3. g[i] = f[i] BY <3>2
      <4>4. i # 0 => g[i - 1] = f[i - 1] BY <3>2
      <4> QED BY <4>2, <4>3, <4>4
    <3> QED BY <3>1, <3>2
  <2>6. g = [i \in 0..(n + 1) |-> IF i = 0 THEN a ELSE step[i][g[i - 1]]]
    BY <2>5
  <2> QED BY <2>4, <2>6
<1>3. \A n \in Nat : n \in S
  <2> HIDE DEF S
  <2> QED BY <1>1, <1>2, Climb
<1>4. PICK f \in [0..N -> V] :
          f = [i \in 0..N |-> IF i = 0 THEN a ELSE step[i][f[i - 1]]]
  BY <1>3
<1>5. ASSUME NEW i \in 0..N
      PROVE  f[i] = IF i = 0 THEN a ELSE step[i][f[i - 1]]
  BY <1>4, Zenon
<1> QED BY <1>5

-----------------------------------------------------------------------------
(* Parts of a sequence.                                                    *)

\* at leads from the places of the sequence t to the places I of s, one to
\* one, onto all of them, and t holds there what s holds.
Selects(at, t, s, I) ==
    /\ at \in Bijection(DOMAIN t, I)
    /\ \A j \in DOMAIN t : t[j] = s[at[j]]

\* Picked takes each of the places once.
LEMMA PickedSelects ==
    ASSUME NEW S, NEW s \in Seq(S), NEW I \in SUBSET (DOMAIN s)
    PROVE  /\ Picked(s, I) \in Seq(S)
           /\ \E at : Selects(at, Picked(s, I), s, I)
<1> DEFINE N == Len(s)
           Eq(f) == f = [i \in 0..N |-> IF i = 0 THEN <<>>
                               ELSE IF i \in I THEN Append(f[i - 1], s[i]) ELSE f[i - 1]]
           Kept == CHOOSE f : Eq(f)
           step == [i \in 1..N |-> [t \in Seq(S) |-> IF i \in I THEN Append(t, s[i]) ELSE t]]
<1>0. N \in Nat /\ DOMAIN s = 1..N /\ \A i \in 1..N : s[i] \in S
  OBVIOUS
<1> HIDE DEF N
<1>1. step \in [1..N -> [Seq(S) -> Seq(S)]]
  BY <1>0
<1>2. PICK g \in [0..N -> Seq(S)] :
          g[0] = <<>> /\ \A i \in 1..N : g[i] = step[i][g[i - 1]]
  <2> DEFINE V == Seq(S)
             e == <<>>
  <2>1. e \in V /\ step \in [1..N -> [V -> V]] BY <1>1
  <2> HIDE DEF step, V, e
  <2>2. \E f \in [0..N -> V] : f[0] = e /\ \A i \in 1..N : f[i] = step[i][f[i - 1]]
    BY <1>0, <2>1, StepByStep
  <2> QED BY <2>2 DEF V, e
<1>3. Eq(g)
  <2>1. ASSUME NEW i \in 0..N
        PROVE g[i] = IF i = 0 THEN <<>>
                     ELSE IF i \in I THEN Append(g[i - 1], s[i]) ELSE g[i - 1]
    <3>1. i # 0 => i \in 1..N /\ g[i - 1] \in Seq(S) BY <1>0
    <3>2. i # 0 => step[i][g[i - 1]] = IF i \in I THEN Append(g[i - 1], s[i]) ELSE g[i - 1]
      BY <3>1
    <3> HIDE DEF step
    <3> QED BY <1>2, <3>1, <3>2
  <2> DEFINE h == [i \in 0..N |-> IF i = 0 THEN <<>>
                               ELSE IF i \in I THEN Append(g[i - 1], s[i]) ELSE g[i - 1]]
  <2>2. \A i \in 0..N : g[i] = h[i] BY <2>1
  <2>3. g = h
    <3>1. DOMAIN g = 0..N /\ g = [i \in 0..N |-> g[i]] OBVIOUS
    <3>2. h = [i \in 0..N |-> h[i]] OBVIOUS
    <3> HIDE DEF h
    <3> QED BY <2>2, <3>1, <3>2
  <2> QED BY <2>3
<1>4. PICK kept : Eq(kept) /\ kept = Kept
  <2> HIDE DEF Eq
  <2> QED BY <1>3
<1> HIDE DEF Kept
<1>5. kept[0] = <<>>
  BY <1>4, <1>0
<1>6. ASSUME NEW i \in 1..N
      PROVE  kept[i] = IF i \in I THEN Append(kept[i - 1], s[i]) ELSE kept[i - 1]
  <2>1. i \in 0..N /\ i # 0 BY <1>0
  <2>2. kept[i] = IF i = 0 THEN <<>>
                  ELSE IF i \in I THEN Append(kept[i - 1], s[i]) ELSE kept[i - 1]
    BY <1>4, <2>1, Zenon
  <2> QED BY <2>1, <2>2
<1>7. Picked(s, I) = kept[N]
  BY <1>4 DEF Picked, Kept, N
<1> DEFINE Upto(i) == /\ kept[i] \in Seq(S)
                      /\ \E at : Selects(at, kept[i], s, I \cap 1..i)
           T == {i \in Nat : i <= N => Upto(i)}
<1> HIDE DEF Upto
<1>8. 0 \in T
  <2>1. <<>> \in Bijection(DOMAIN <<>>, {}) BY DEF Bijection, Injection, Surjection, IsInjective
  <2>2. I \cap 1..0 = {} OBVIOUS
  <2>3. \E at : Selects(at, kept[0], s, I \cap 1..0)
    BY <2>1, <2>2, <1>5 DEF Selects
  <2>4. Upto(0) BY <2>3, <1>5 DEF Upto
  <2> QED BY <2>4
<1>9. ASSUME NEW i \in Nat, i \in T PROVE i + 1 \in T
  <2> SUFFICES ASSUME i + 1 <= N PROVE Upto(i + 1) BY <1>9
  <2>a. Upto(i) BY <1>0, <1>9
  <2>0. i + 1 \in 1..N /\ i \in Nat /\ kept[i] \in Seq(S) BY <1>0, <2>a DEF Upto
  <2>1. PICK at : Selects(at, kept[i], s, I \cap 1..i)
    BY <2>a DEF Upto
  <2>2. CASE i + 1 \notin I
    <3>1. kept[i + 1] = kept[i]
      <4> (i + 1) - 1 = i BY <2>0
      <4> QED BY <1>6, <2>0, <2>2
    <3>2. I \cap 1..(i + 1) = I \cap 1..i BY <2>0, <2>2
    <3> QED BY <2>0, <2>1, <3>1, <3>2 DEF Upto
  <2>3. CASE i + 1 \in I
    <3>0. s[i + 1] \in S BY <1>0, <2>0
    <3>1. kept[i + 1] = Append(kept[i], s[i + 1])
      <4> (i + 1) - 1 = i BY <2>0
      <4> QED BY <1>6, <2>0, <2>3
    <3> DEFINE n == Len(kept[i])
               t == kept[i + 1]
               up == [j \in 1..(n + 1) |-> IF j = n + 1 THEN i + 1 ELSE at[j]]
               J == I \cap 1..(i + 1)
    <3>2. n \in Nat /\ DOMAIN kept[i] = 1..n BY <2>0
    <3>3. t \in Seq(S) /\ DOMAIN t = 1..(n + 1) /\ t[n + 1] = s[i + 1]
          /\ \A j \in 1..n : t[j] = kept[i][j]
      BY <2>0, <3>0, <3>1
    <3>4. /\ at \in [1..n -> I \cap 1..i]
          /\ \A a, b \in 1..n : at[a] = at[b] => a = b
          /\ \A m \in I \cap 1..i : \E j \in 1..n : at[j] = m
          /\ \A j \in 1..n : kept[i][j] = s[at[j]]
      BY <2>1, <3>2 DEF Selects, Bijection, Injection, Surjection, IsInjective
    <3>5. J = (I \cap 1..i) \cup {i + 1} /\ i + 1 \notin I \cap 1..i
      BY <2>0, <2>3
    <3> HIDE DEF t, J
    <3>6. up \in [1..(n + 1) -> J]
      BY <3>2, <3>4, <3>5
    <3>a. up[n + 1] = i + 1 /\ \A j \in 1..n : up[j] = at[j] /\ up[j] # i + 1
      <4>1. n + 1 \in 1..(n + 1) BY <3>2
      <4>2. up[n + 1] = i + 1 BY <4>1
      <4>3. \A j \in 1..n : j \in 1..(n + 1) /\ j # n + 1 BY <3>2
      <4>4. \A j \in 1..n : up[j] = at[j] BY <4>3
      <4>5. \A j \in 1..n : at[j] # i + 1 BY <3>4, <3>5
      <4> QED BY <4>2, <4>4, <4>5
    <3>b. \A j \in 1..(n + 1) : j = n + 1 \/ j \in 1..n
      BY <3>2
    <3> HIDE DEF up, n
    <3>7. ASSUME NEW a \in 1..(n + 1), NEW b \in 1..(n + 1), up[a] = up[b] PROVE a = b
      BY <3>4, <3>7, <3>a, <3>b
    <3>8. ASSUME NEW m \in J PROVE \E j \in 1..(n + 1) : up[j] = m
      <4>1. CASE m = i + 1
        <5> n + 1 \in 1..(n + 1) BY <3>2
        <5> QED BY <4>1, <3>a
      <4>2. CASE m # i + 1
        <5>1. PICK j \in 1..n : at[j] = m BY <3>4, <3>5, <4>2
        <5> j \in 1..(n + 1) BY <3>2
        <5> QED BY <5>1, <3>a
      <4> QED BY <4>1, <4>2
    <3>9. \A j \in 1..(n + 1) : t[j] = s[up[j]]
      BY <3>3, <3>4, <3>a, <3>b
    <3>10. Selects(up, t, s, J)
      BY <3>3, <3>6, <3>7, <3>8, <3>9 DEF Selects, Bijection, Injection, Surjection, IsInjective
    <3> QED BY <3>3, <3>10 DEF t, J, Upto
  <2> QED BY <2>2, <2>3
<1>10. \A i \in Nat : i \in T
  <2> HIDE DEF T
  <2> QED BY <1>8, <1>9, Climb
<1>11. I \cap 1..N = I
  BY <1>0
<1>12. Upto(N)
  BY <1>0, <1>10
<1> QED BY <1>7, <1>11, <1>12 DEF Upto

\* A part of a sequence without repeats has none, and holds what is at the
\* places picked.
LEMMA PickedHolds ==
    ASSUME NEW S, NEW s \in Seq(S), NEW I \in SUBSET (DOMAIN s)
    PROVE  /\ Picked(s, I) \in Seq(S)
           /\ ToSet(Picked(s, I)) = {s[i] : i \in I}
           /\ (\A i, j \in I : s[i] = s[j] => i = j) => IsInjective(Picked(s, I))
<1> DEFINE t == Picked(s, I)
<1>1. t \in Seq(S) /\ \E at : Selects(at, t, s, I)
  BY PickedSelects
<1> HIDE DEF t
<1>2. PICK at : Selects(at, t, s, I)
  BY <1>1
<1>3. /\ at \in [DOMAIN t -> I]
      /\ \A a, b \in DOMAIN t : at[a] = at[b] => a = b
      /\ \A m \in I : \E j \in DOMAIN t : at[j] = m
      /\ \A j \in DOMAIN t : t[j] = s[at[j]]
  BY <1>2 DEF Selects, Bijection, Injection, Surjection, IsInjective
<1>4. ToSet(t) = {s[i] : i \in I}
  BY <1>3 DEF ToSet
<1>5. (\A i, j \in I : s[i] = s[j] => i = j) => IsInjective(t)
  BY <1>3 DEF IsInjective
<1> QED BY <1>1, <1>4, <1>5 DEF t

\* Those of a sequence who are in a set.
LEMMA WithinHolds ==
    ASSUME NEW S, NEW s \in Seq(S), NEW X
    PROVE  /\ Within(s, X) \in Seq(S)
           /\ ToSet(Within(s, X)) = ToSet(s) \cap X
           /\ IsInjective(s) => IsInjective(Within(s, X))
<1> DEFINE I == {i \in DOMAIN s : s[i] \in X}
<1>1. {s[i] : i \in I} = ToSet(s) \cap X
  BY DEF ToSet
<1>2. IsInjective(s) => \A i, j \in I : s[i] = s[j] => i = j
  BY DEF IsInjective
<1>3. I \in SUBSET (DOMAIN s) OBVIOUS
<1> HIDE DEF I
<1>4. Within(s, X) = Picked(s, I)
  BY DEF Within, I
<1> QED BY <1>1, <1>2, <1>3, <1>4, PickedHolds

\* Those of a sequence who are not.
LEMMA WithoutHolds ==
    ASSUME NEW S, NEW s \in Seq(S), NEW X
    PROVE  /\ Without(s, X) \in Seq(S)
           /\ ToSet(Without(s, X)) = ToSet(s) \ X
           /\ IsInjective(s) => IsInjective(Without(s, X))
<1> DEFINE I == {i \in DOMAIN s : s[i] \notin X}
<1>1. {s[i] : i \in I} = ToSet(s) \ X
  BY DEF ToSet
<1>2. IsInjective(s) => \A i, j \in I : s[i] = s[j] => i = j
  BY DEF IsInjective
<1>3. I \in SUBSET (DOMAIN s) OBVIOUS
<1> HIDE DEF I
<1>4. Without(s, X) = Picked(s, I)
  BY DEF Without, I
<1> QED BY <1>1, <1>2, <1>3, <1>4, PickedHolds

\* The queue without blanks and repeats has none, and loses nobody else.
LEMMA DedupeHolds ==
    ASSUME NEW S, NEW s \in Seq(S)
    PROVE  /\ DedupeIDs(s) \in Seq(S)
           /\ ToSet(DedupeIDs(s)) = ToSet(s) \ {Blank}
           /\ IsInjective(DedupeIDs(s))
<1> DEFINE I == {i \in DOMAIN s : s[i] # Blank /\ \A j \in 1..(i - 1) : s[j] # s[i]}
<1>0. Len(s) \in Nat /\ DOMAIN s = 1..Len(s) OBVIOUS
<1>1. ASSUME NEW p \in ToSet(s) \ {Blank} PROVE p \in {s[i] : i \in I}
  <2> DEFINE P == {i \in DOMAIN s : s[i] = p}
  <2>1. P \in SUBSET Nat /\ P # {}
    BY <1>0 DEF ToSet
  <2>2. PICK m \in P : \A n \in P : m <= n
    <3> HIDE DEF P
    <3> QED BY <2>1, LeastNat
  <2>3. m \in DOMAIN s /\ s[m] = p /\ \A j \in 1..(m - 1) : s[j] # s[m]
    BY <1>0, <2>2
  <2> QED BY <2>3
<1>2. {s[i] : i \in I} \subseteq ToSet(s) \ {Blank}
  BY DEF ToSet
<1>3. ASSUME NEW i \in I, NEW j \in I, s[i] = s[j] PROVE i = j
  <2>1. i \in Nat /\ j \in Nat /\ i >= 1 /\ j >= 1 BY <1>0
  <2>2. ~(i < j) /\ ~(j < i) BY <1>3, <2>1
  <2> QED BY <2>1, <2>2
<1>4. I \in SUBSET (DOMAIN s) OBVIOUS
<1> HIDE DEF I
<1>5. DedupeIDs(s) = Picked(s, I)
  BY DEF DedupeIDs, I
<1> QED BY <1>1, <1>2, <1>3, <1>4, <1>5, PickedHolds

\* Two queues behind one another.
LEMMA ConcatHolds ==
    ASSUME NEW S, NEW s \in Seq(S), NEW t \in Seq(S)
    PROVE  /\ s \o t \in Seq(S)
           /\ ToSet(s \o t) = ToSet(s) \cup ToSet(t)
           /\ IsInjective(s) /\ IsInjective(t) /\ ToSet(s) \cap ToSet(t) = {}
                 => IsInjective(s \o t)
<1> DEFINE c == s \o t
           m == Len(s)
           n == Len(t)
<1>1. /\ c \in Seq(S) /\ m \in Nat /\ n \in Nat
      /\ DOMAIN s = 1..m /\ DOMAIN t = 1..n /\ DOMAIN c = 1..(m + n)
      /\ \A i \in 1..(m + n) : c[i] = IF i <= m THEN s[i] ELSE t[i - m]
  OBVIOUS
<1> HIDE DEF c, m, n
<1>2. \A i \in 1..(m + n) : \/ i \in 1..m /\ c[i] = s[i]
                            \/ i - m \in 1..n /\ c[i] = t[i - m]
  BY <1>1
<1>3. \A i \in 1..m : i \in 1..(m + n) /\ c[i] = s[i]
  BY <1>1
<1>4. \A i \in 1..n : i + m \in 1..(m + n) /\ c[i + m] = t[i]
  BY <1>1
<1>5. ToSet(c) = ToSet(s) \cup ToSet(t)
  <2>1. ToSet(c) \subseteq ToSet(s) \cup ToSet(t) BY <1>1, <1>2 DEF ToSet
  <2>2. ToSet(s) \subseteq ToSet(c) BY <1>1, <1>3 DEF ToSet
  <2>3. ToSet(t) \subseteq ToSet(c) BY <1>1, <1>4 DEF ToSet
  <2> QED BY <2>1, <2>2, <2>3
<1>6. ASSUME IsInjective(s), IsInjective(t), ToSet(s) \cap ToSet(t) = {}
      PROVE  IsInjective(c)
  <2>1. \A i \in 1..m, j \in 1..n : s[i] # t[j]
    BY <1>1, <1>6 DEF ToSet
  <2>2. SUFFICES ASSUME NEW i \in 1..(m + n), NEW j \in 1..(m + n), c[i] = c[j]
                 PROVE  i = j
    BY <1>1 DEF IsInjective
  <2>3. CASE i \in 1..m /\ c[i] = s[i] /\ j \in 1..m /\ c[j] = s[j]
    BY <1>1, <1>6, <2>2, <2>3 DEF IsInjective
  <2>4. CASE i - m \in 1..n /\ c[i] = t[i - m] /\ j - m \in 1..n /\ c[j] = t[j - m]
    <3>1. i - m = j - m BY <1>1, <1>6, <2>2, <2>4 DEF IsInjective
    <3> QED BY <1>1, <3>1
  <2> QED BY <1>2, <2>1, <2>2, <2>3, <2>4
<1> QED BY <1>1, <1>5, <1>6 DEF c

\* The places from..to of a queue.
LEMMA SubSeqHolds ==
    ASSUME NEW S, NEW s \in Seq(S), NEW from \in Nat \ {0}, NEW to \in Nat, to <= Len(s)
    PROVE  /\ SubSeq(s, from, to) \in Seq(S)
           /\ ToSet(SubSeq(s, from, to)) = {s[i] : i \in from..to}
           /\ IsInjective(s) => IsInjective(SubSeq(s, from, to))
           /\ Len(SubSeq(s, from, to)) = IF from <= to THEN to - from + 1 ELSE 0
           /\ DOMAIN SubSeq(s, from, to) = 1..(to - from + 1)
           /\ \A i \in 1..(to - from + 1) : SubSeq(s, from, to)[i] = s[from + i - 1]
<1> DEFINE t == SubSeq(s, from, to)
<1>1. \A i \in from..to : s[i] \in S
  OBVIOUS
<1>2. /\ t \in Seq(S)
      /\ Len(t) = IF from <= to THEN to - from + 1 ELSE 0
      /\ \A i \in 1..(to - from + 1) : t[i] = s[from + i - 1]
  BY <1>1, SubSeqProperties
<1>3. DOMAIN t = 1..(to - from + 1)
  <2>1. DOMAIN t = 1..Len(t) BY <1>2, LenProperties
  <2> HIDE DEF t
  <2> QED BY <1>2, <2>1
<1> HIDE DEF t
<1>4. \A i \in from..to : i - from + 1 \in 1..(to - from + 1) /\ t[i - from + 1] = s[i]
  <2> TAKE i \in from..to
  <2>1. i - from + 1 \in 1..(to - from + 1) /\ from + (i - from + 1) - 1 = i OBVIOUS
  <2> QED BY <1>2, <2>1
<1>5. ToSet(t) = {s[i] : i \in from..to}
  <2>1. \A i \in 1..(to - from + 1) : from + i - 1 \in from..to OBVIOUS
  <2>2. ToSet(t) \subseteq {s[i] : i \in from..to} BY <1>2, <1>3, <2>1 DEF ToSet
  <2>3. {s[i] : i \in from..to} \subseteq ToSet(t) BY <1>3, <1>4 DEF ToSet
  <2> QED BY <2>2, <2>3
<1>6. IsInjective(s) => IsInjective(t)
  <2> SUFFICES ASSUME IsInjective(s), NEW a \in DOMAIN t, NEW b \in DOMAIN t, t[a] = t[b]
               PROVE  a = b
    BY DEF IsInjective
  <2>1. a \in 1..(to - from + 1) /\ b \in 1..(to - from + 1) BY <1>3
  <2>2. from + a - 1 \in DOMAIN s /\ from + b - 1 \in DOMAIN s BY <2>1
  <2>3. s[from + a - 1] = s[from + b - 1] BY <1>2, <2>1
  <2>4. from + a - 1 = from + b - 1 BY <2>2, <2>3 DEF IsInjective
  <2> QED BY <2>1, <2>4
<1> QED BY <1>2, <1>3, <1>5, <1>6 DEF t

-----------------------------------------------------------------------------
(* Layouts.  A place is a seat, or <<0, j>>: the j-th of the queue.        *)

Layouts(S) == Seq([1..4 -> S])

Places(courts, bench) == SeatRefs(courts) \cup ({0} \X DOMAIN bench)

Holder(courts, bench, p) == IF p[1] = 0 THEN bench[p[2]] ELSE courts[p[1]][p[2]]

People(courts, bench) == Seated(courts) \cup ToSet(bench)

\* Nobody holds two places, and somebody holds each.
Sound(courts, bench) ==
    /\ \A p \in Places(courts, bench) : Holder(courts, bench, p) # Blank
    /\ \A p, q \in Places(courts, bench) :
           Holder(courts, bench, p) = Holder(courts, bench, q) => p = q

LEMMA Seats ==
    ASSUME NEW S, NEW cs \in Layouts(S)
    PROVE  /\ Len(cs) \in Nat /\ DOMAIN cs = 1..Len(cs)
           /\ SeatRefs(cs) = (1..Len(cs)) \X (1..4)
           /\ \A k \in 1..Len(cs) : cs[k] \in [1..4 -> S]
           /\ \A k \in 1..Len(cs), i \in 1..4 : cs[k][i] \in Seated(cs)
           /\ Seated(cs) \subseteq S
<1>1. Len(cs) \in Nat /\ DOMAIN cs = 1..Len(cs) /\ \A k \in 1..Len(cs) : cs[k] \in [1..4 -> S]
  BY DEF Layouts
<1>2. SeatRefs(cs) = (1..Len(cs)) \X (1..4)
  BY <1>1 DEF SeatRefs
<1>3. ASSUME NEW k \in 1..Len(cs), NEW i \in 1..4 PROVE cs[k][i] \in Seated(cs)
  <2>1. <<k, i>> \in SeatRefs(cs) BY <1>2
  <2>2. <<k, i>>[1] = k /\ <<k, i>>[2] = i OBVIOUS
  <2> QED BY <2>1, <2>2 DEF Seated
<1>4. Seated(cs) \subseteq S
  BY <1>1, <1>2 DEF Seated
<1> QED BY <1>1, <1>2, <1>3, <1>4

\* The engine's check, place by place.
LEMMA SoundMeans ==
    ASSUME NEW S, NEW cs \in Layouts(S), NEW b \in Seq(S)
    PROVE  /\ LayoutAndBenchOK(cs, b) <=> Sound(cs, b)
           /\ People(cs, b) = {Holder(cs, b, p) : p \in Places(cs, b)}
<1>1. /\ Len(cs) \in Nat /\ SeatRefs(cs) = (1..Len(cs)) \X (1..4)
      /\ DOMAIN b = 1..Len(b) /\ Len(b) \in Nat
  BY Seats
<1>2. \A s \in SeatRefs(cs) : /\ s \in Places(cs, b) /\ s[1] # 0
                              /\ Holder(cs, b, s) = cs[s[1]][s[2]]
  BY <1>1 DEF Places, Holder
<1>3. \A j \in DOMAIN b : /\ <<0, j>> \in Places(cs, b) /\ <<0, j>> \notin SeatRefs(cs)
                          /\ Holder(cs, b, <<0, j>>) = b[j]
  BY <1>1 DEF Places, Holder
<1>4. \A p \in Places(cs, b) : \/ p \in SeatRefs(cs)
                               \/ \E j \in DOMAIN b : p = <<0, j>>
  BY DEF Places
<1>5. People(cs, b) = {Holder(cs, b, p) : p \in Places(cs, b)}
  <2>1. People(cs, b) \subseteq {Holder(cs, b, p) : p \in Places(cs, b)}
    BY <1>2, <1>3 DEF People, Seated, ToSet
  <2>2. {Holder(cs, b, p) : p \in Places(cs, b)} \subseteq People(cs, b)
    BY <1>2, <1>3, <1>4 DEF People, Seated, ToSet
  <2> QED BY <2>1, <2>2
<1>6. ASSUME Sound(cs, b) PROVE LayoutAndBenchOK(cs, b)
  <2>1. Blank \notin Seated(cs) \cup ToSet(b)
    <3>1. \A s \in SeatRefs(cs) : cs[s[1]][s[2]] # Blank BY <1>2, <1>6 DEF Sound
    <3>2. \A j \in DOMAIN b : b[j] # Blank BY <1>3, <1>6 DEF Sound
    <3> QED BY <3>1, <3>2 DEF Seated, ToSet
  <2>2. Seated(cs) \cap ToSet(b) = {}
    <3>1. ASSUME NEW s \in SeatRefs(cs), NEW j \in DOMAIN b, cs[s[1]][s[2]] = b[j]
          PROVE  FALSE
      <4> DEFINE q == <<0, j>>
      <4>1. q \in Places(cs, b) /\ q \notin SeatRefs(cs) /\ Holder(cs, b, q) = b[j]
        BY <1>3
      <4> HIDE DEF q
      <4>2. s = q BY <1>2, <1>6, <3>1, <4>1 DEF Sound
      <4> QED BY <4>1, <4>2
    <3> QED BY <3>1 DEF Seated, ToSet
  <2>3. IsInjective(b)
    <3> SUFFICES ASSUME NEW i \in DOMAIN b, NEW j \in DOMAIN b, b[i] = b[j] PROVE i = j
      BY DEF IsInjective
    <3>1. <<0, i>> = <<0, j>> BY <1>3, <1>6 DEF Sound
    <3> QED BY <3>1
  <2>4. \A s, t \in SeatRefs(cs) : cs[s[1]][s[2]] = cs[t[1]][t[2]] => s = t
    BY <1>2, <1>6 DEF Sound
  <2> QED BY <2>1, <2>2, <2>3, <2>4 DEF LayoutAndBenchOK
<1>7. ASSUME LayoutAndBenchOK(cs, b) PROVE Sound(cs, b)
  <2>1. \A s \in SeatRefs(cs) : Holder(cs, b, s) \in Seated(cs) BY <1>2 DEF Seated
  <2>2. \A j \in DOMAIN b : Holder(cs, b, <<0, j>>) \in ToSet(b) BY <1>3 DEF ToSet
  <2>3. \A p \in Places(cs, b) : Holder(cs, b, p) # Blank
    BY <1>4, <1>7, <2>1, <2>2 DEF LayoutAndBenchOK
  <2>4. SUFFICES ASSUME NEW p \in Places(cs, b), NEW q \in Places(cs, b),
                        Holder(cs, b, p) = Holder(cs, b, q)
                 PROVE  p = q
    BY <2>3 DEF Sound
  <2>5. CASE p \in SeatRefs(cs) /\ q \in SeatRefs(cs)
    BY <1>2, <1>7, <2>4, <2>5 DEF LayoutAndBenchOK
  <2>6. ASSUME NEW i \in DOMAIN b, NEW j \in DOMAIN b, p = <<0, i>>, q = <<0, j>>
        PROVE  p = q
    BY <1>3, <1>7, <2>4, <2>6 DEF LayoutAndBenchOK, IsInjective
  <2>7. ASSUME NEW r \in SeatRefs(cs), NEW j \in DOMAIN b,
               Holder(cs, b, r) = Holder(cs, b, <<0, j>>)
        PROVE  FALSE
    BY <1>7, <2>1, <2>2, <2>7 DEF LayoutAndBenchOK
  <2> QED BY <1>4, <2>4, <2>5, <2>6, <2>7
<1> QED BY <1>5, <1>6, <1>7

\* Whoever moves everybody to a place of their own keeps a layout sound.
Rearranges(from, c, b, cc, bb) ==
    /\ from \in [Places(cc, bb) -> Places(c, b)]
    /\ \A p, q \in Places(cc, bb) : from[p] = from[q] => p = q
    /\ \A p \in Places(cc, bb) : Holder(cc, bb, p) = Holder(c, b, from[p])

LEMMA MovedSound ==
    ASSUME NEW S, NEW c \in Layouts(S), NEW b \in Seq(S), NEW cc \in Layouts(S),
           NEW bb \in Seq(S), NEW from, Rearranges(from, c, b, cc, bb), LayoutAndBenchOK(c, b)
    PROVE  /\ LayoutAndBenchOK(cc, bb)
           /\ People(cc, bb) \subseteq People(c, b)
           /\ (\A q \in Places(c, b) : \E p \in Places(cc, bb) : from[p] = q)
                 => People(cc, bb) = People(c, b)
<1>1. /\ Sound(c, b) /\ People(c, b) = {Holder(c, b, p) : p \in Places(c, b)}
      /\ LayoutAndBenchOK(cc, bb) <=> Sound(cc, bb)
      /\ People(cc, bb) = {Holder(cc, bb, p) : p \in Places(cc, bb)}
  BY SoundMeans
<1>2. \A p \in Places(cc, bb) : from[p] \in Places(c, b)
                                /\ Holder(cc, bb, p) = Holder(c, b, from[p])
  BY DEF Rearranges
<1>3. Sound(cc, bb)
  BY <1>1, <1>2 DEF Sound, Rearranges
<1>4. People(cc, bb) \subseteq People(c, b)
  BY <1>1, <1>2
<1>5. (\A q \in Places(c, b) : \E p \in Places(cc, bb) : from[p] = q)
         => People(c, b) \subseteq People(cc, bb)
  BY <1>1, <1>2
<1> QED BY <1>1, <1>3, <1>4, <1>5

-----------------------------------------------------------------------------
(* The movement.                                                           *)

LEMMA NightIs ==
    ASSUME NEW S, NEW cs \in Layouts(S), NEW b \in Seq(S)
    PROVE  Night(cs, b).courts = cs /\ Night(cs, b).bench = b
BY ConcatEmptySeq DEF Night, Layouts

\* Where the j-th winner and the j-th loser of a court sat.
WinnerSat(w, j) == IF w = "b" THEN j + 2 ELSE j
LoserSat(w, j)  == IF w = "b" THEN j ELSE j + 2

LEMMA WhoSat ==
    ASSUME NEW court, NEW w, NEW j \in 1..2
    PROVE  /\ Winners(court, w)[j] = court[WinnerSat(w, j)]
           /\ Losers(court, w)[j] = court[LoserSat(w, j)]
           /\ WinnerSat(w, j) \in 1..4 /\ LoserSat(w, j) \in 1..4
BY DEF Winners, Losers, WinnerSat, LoserSat

\* Every seat is a winner's or a loser's.
LEMMA AllSat ==
    ASSUME NEW w
    PROVE  /\ \A i \in 1..4 : \E j \in 1..2 : i = WinnerSat(w, j) \/ i = LoserSat(w, j)
           /\ \A i, j \in 1..2 : /\ WinnerSat(w, i) # LoserSat(w, j)
                                 /\ WinnerSat(w, i) = WinnerSat(w, j) => i = j
                                 /\ LoserSat(w, i) = LoserSat(w, j) => i = j
BY DEF WinnerSat, LoserSat

\* The courts losers come from: every court but the last, each once.
LEMMA LosersComeFrom ==
    ASSUME NEW n \in Nat, NEW mode
    PROVE  /\ \A k \in 2..n : LosersFrom(k, n, mode) \in 1..(n - 1)
           /\ \A k, m \in 2..n : LosersFrom(k, n, mode) = LosersFrom(m, n, mode) => k = m
           /\ \A m \in 1..(n - 1) : \E k \in 2..n : LosersFrom(k, n, mode) = m
<1>1. CASE mode # "stay"
  <2>1. \A k \in 2..n : LosersFrom(k, n, mode) = k - 1 BY <1>1 DEF LosersFrom
  <2>2. \A m \in 1..(n - 1) : m + 1 \in 2..n /\ (m + 1) - 1 = m OBVIOUS
  <2> QED BY <2>1, <2>2
<1>2. CASE mode = "stay"
  <2>1. \A k \in 2..n : LosersFrom(k, n, mode) = IF k = n THEN 1 ELSE k
    BY <1>2 DEF LosersFrom
  <2>2. \A m \in 2..(n - 1) : m \in 2..n /\ m # n OBVIOUS
  <2>3. 1 \in 1..(n - 1) => n \in 2..n OBVIOUS
  <2> QED BY <2>1, <2>2, <2>3
<1> QED BY <1>1, <1>2

\* Where the seats and the queue of the next round are filled from.
SeatedFrom(won, n, byes, mode, k, i) ==
    LET j == IF i <= 2 THEN 1 ELSE 2
        l == LosersFrom(k, n, mode)
    IN  IF i = 1 \/ i = 3
        THEN IF k < n THEN <<k + 1, WinnerSat(won[k + 1], j)>>
             ELSE IF j <= byes THEN <<0, j>> ELSE <<n, LoserSat(won[n], j)>>
        ELSE IF k = 1 THEN <<1, WinnerSat(won[1], j)>>
             ELSE <<l, LoserSat(won[l], j)>>
QueuedFrom(won, n, byes, waiting, j) ==
    IF j <= waiting - byes THEN <<0, j + byes>>
    ELSE <<n, LoserSat(won[n], j - (waiting - byes))>>

\* No two seats of the next round are filled from one place.
LEMMA SeatedFromOnce ==
    ASSUME NEW won, NEW n \in Nat, NEW byes \in 0..2, NEW mode,
           NEW k \in 1..n, NEW m \in 1..n, NEW i \in 1..4, NEW h \in 1..4,
           SeatedFrom(won, n, byes, mode, k, i) = SeatedFrom(won, n, byes, mode, m, h)
    PROVE  k = m /\ i = h
<1> DEFINE F(a, e) == SeatedFrom(won, n, byes, mode, a, e)
           J(e) == IF e <= 2 THEN 1 ELSE 2
           Low(e) == e = 1 \/ e = 3
           L(a) == LosersFrom(a, n, mode)
<1>1. \A a \in 2..n : L(a) \in 1..(n - 1)
  BY LosersComeFrom
<1>2. \A a, e \in 2..n : L(a) = L(e) => a = e
  BY LosersComeFrom
<1>3. \A w : \A a, e \in 1..2 : /\ WinnerSat(w, a) # LoserSat(w, e)
                                /\ WinnerSat(w, a) = WinnerSat(w, e) => a = e
                                /\ LoserSat(w, a) = LoserSat(w, e) => a = e
  BY AllSat
<1>4. \A a \in 1..n, e \in 1..4 :
        /\ Low(e) /\ a < n => F(a, e) = <<a + 1, WinnerSat(won[a + 1], J(e))>>
        /\ Low(e) /\ a = n /\ J(e) <= byes => F(a, e) = <<0, J(e)>>
        /\ Low(e) /\ a = n /\ J(e) > byes => F(a, e) = <<n, LoserSat(won[n], J(e))>>
        /\ ~Low(e) /\ a = 1 => F(a, e) = <<1, WinnerSat(won[1], J(e))>>
        /\ ~Low(e) /\ a # 1 => F(a, e) = <<L(a), LoserSat(won[L(a)], J(e))>> /\ a \in 2..n
  BY DEF SeatedFrom
<1>5. J(i) \in 1..2 /\ J(h) \in 1..2
  OBVIOUS
<1>6. J(i) = J(h) /\ (Low(i) <=> Low(h)) => i = h
  OBVIOUS
<1>7. F(k, i) = F(m, h)
  OBVIOUS
<1> HIDE DEF F, J, Low, L
<1>8. CASE Low(i) /\ Low(h)
  <2>1. CASE k < n /\ m < n
    <3>1. k + 1 = m + 1 BY <1>4, <1>7, <1>8, <2>1
    <3>2. k = m BY <3>1
    <3>3. WinnerSat(won[k + 1], J(i)) = WinnerSat(won[k + 1], J(h))
      BY <1>4, <1>7, <1>8, <2>1, <3>2
    <3> QED BY <1>3, <1>5, <1>6, <1>8, <3>2, <3>3
  <2>2. CASE k = n /\ m = n
    BY <1>3, <1>4, <1>5, <1>6, <1>7, <1>8, <2>2
  <2>3. CASE k < n /\ m = n
    BY <1>3, <1>4, <1>5, <1>7, <1>8, <2>3
  <2>4. CASE k = n /\ m < n
    BY <1>3, <1>4, <1>5, <1>7, <1>8, <2>4
  <2> QED BY <2>1, <2>2, <2>3, <2>4
<1>9. CASE ~Low(i) /\ ~Low(h)
  <2>1. CASE k = 1 /\ m = 1
    BY <1>3, <1>4, <1>5, <1>6, <1>7, <1>9, <2>1
  <2>2. CASE k # 1 /\ m # 1
    <3>1. k \in 2..n /\ m \in 2..n /\ L(k) = L(m) BY <1>4, <1>7, <1>9, <2>2
    <3>2. k = m BY <1>2, <3>1
    <3>3. LoserSat(won[L(k)], J(i)) = LoserSat(won[L(k)], J(h))
      BY <1>4, <1>7, <1>9, <2>2, <3>2
    <3> QED BY <1>3, <1>5, <1>6, <1>9, <3>2, <3>3
  <2>3. ASSUME NEW a \in 1..n, NEW e \in 1..n, NEW x \in 1..4, NEW y \in 1..4,
               ~Low(x), ~Low(y), J(x) \in 1..2, J(y) \in 1..2, a = 1, e # 1
        PROVE  F(a, x) # F(e, y)
    BY <1>3, <1>4, <2>3
  <2> QED BY <1>5, <1>7, <1>9, <2>1, <2>2, <2>3
<1>10. ASSUME NEW a \in 1..n, NEW e \in 1..n, NEW x \in 1..4, NEW y \in 1..4,
              Low(x), ~Low(y), J(x) \in 1..2, J(y) \in 1..2
       PROVE  F(a, x) # F(e, y)
  <2>1. CASE a < n /\ e = 1
    BY <1>4, <1>10, <2>1
  <2>2. CASE a < n /\ e # 1
    BY <1>3, <1>4, <1>10, <2>2
  <2>3. CASE a = n /\ e = 1
    BY <1>3, <1>4, <1>10, <2>3
  <2>4. CASE a = n /\ e # 1
    BY <1>1, <1>4, <1>10, <2>4
  <2> QED BY <2>1, <2>2, <2>3, <2>4
<1> QED BY <1>5, <1>7, <1>8, <1>9, <1>10

\* Whom a place of the next round is filled from.
Taken(won, n, byes, waiting, mode, q) ==
    \/ \E k \in 1..n, i \in 1..4 : SeatedFrom(won, n, byes, mode, k, i) = q
    \/ \E j \in 1..waiting : QueuedFrom(won, n, byes, waiting, j) = q

\* Nobody who sat or waited is left out.
LEMMA EveryPlaceTaken ==
    ASSUME NEW won, NEW n \in Nat \ {0}, NEW waiting \in Nat,
           NEW byes \in 0..2, byes <= waiting, NEW mode
    PROVE  /\ \A m \in 1..n, h \in 1..4 : Taken(won, n, byes, waiting, mode, <<m, h>>)
           /\ \A j \in 1..waiting : Taken(won, n, byes, waiting, mode, <<0, j>>)
<1> DEFINE F(a, e) == SeatedFrom(won, n, byes, mode, a, e)
           Q(j) == QueuedFrom(won, n, byes, waiting, j)
<1>1. ASSUME NEW k \in 1..n, NEW j \in 1..2
      PROVE  /\ k < n => F(k, 2*j - 1) = <<k + 1, WinnerSat(won[k + 1], j)>>
             /\ k = n /\ j <= byes => F(k, 2*j - 1) = <<0, j>>
             /\ k = n /\ j > byes => F(k, 2*j - 1) = <<n, LoserSat(won[n], j)>>
             /\ k = 1 => F(k, 2*j) = <<1, WinnerSat(won[1], j)>>
             /\ k # 1 => F(k, 2*j) = <<LosersFrom(k, n, mode),
                                       LoserSat(won[LosersFrom(k, n, mode)], j)>>
             /\ 2*j - 1 \in 1..4 /\ 2*j \in 1..4
  <2>1. CASE j = 1
    <3>1. 2*j - 1 = 1 /\ 2*j = 2 BY <2>1
    <3> QED BY <2>1, <3>1 DEF SeatedFrom
  <2>2. CASE j = 2
    <3>1. 2*j - 1 = 3 /\ 2*j = 4 BY <2>2
    <3> QED BY <2>2, <3>1 DEF SeatedFrom
  <2> QED BY <2>1, <2>2
<1>2. ASSUME NEW m \in 1..n, NEW j \in 1..2
      PROVE  \E k \in 1..n, i \in 1..4 : F(k, i) = <<m, WinnerSat(won[m], j)>>
  <2>1. CASE m = 1
    <3>1. 1 \in 1..n /\ F(1, 2*j) = <<1, WinnerSat(won[1], j)>> /\ 2*j \in 1..4
      BY <1>1
    <3> QED BY <2>1, <3>1
  <2>2. CASE m # 1
    <3>1. m - 1 \in 1..n /\ m - 1 < n /\ (m - 1) + 1 = m BY <2>2
    <3>2. F(m - 1, 2*j - 1) = <<m, WinnerSat(won[m], j)>> /\ 2*j - 1 \in 1..4
      BY <1>1, <3>1
    <3> QED BY <3>1, <3>2
  <2> QED BY <2>1, <2>2
<1>3. ASSUME NEW m \in 1..n, NEW j \in 1..2
      PROVE  \/ \E k \in 1..n, i \in 1..4 : F(k, i) = <<m, LoserSat(won[m], j)>>
             \/ \E q \in 1..waiting : Q(q) = <<m, LoserSat(won[m], j)>>
  <2>1. CASE m < n
    <3>1. PICK k \in 2..n : LosersFrom(k, n, mode) = m
      <4>1. m \in 1..(n - 1) BY <2>1
      <4> QED BY <4>1, LosersComeFrom
    <3>2. k \in 1..n /\ k # 1 OBVIOUS
    <3>3. F(k, 2*j) = <<m, LoserSat(won[m], j)>> /\ 2*j \in 1..4 BY <1>1, <3>1, <3>2
    <3> QED BY <3>2, <3>3
  <2>2. CASE m = n /\ j > byes
    <3>1. F(n, 2*j - 1) = <<n, LoserSat(won[n], j)>> /\ 2*j - 1 \in 1..4 /\ n \in 1..n
      BY <1>1, <2>2
    <3> QED BY <2>2, <3>1
  <2>3. CASE m = n /\ j <= byes
    <3> DEFINE q == j + (waiting - byes)
    <3>1. q \in 1..waiting /\ ~(q <= waiting - byes) /\ q - (waiting - byes) = j BY <2>3
    <3> HIDE DEF q
    <3>2. Q(q) = <<n, LoserSat(won[n], j)>> BY <3>1 DEF QueuedFrom
    <3> QED BY <2>3, <3>1, <3>2
  <2> QED BY <2>1, <2>2, <2>3
<1>4. ASSUME NEW j \in 1..waiting
      PROVE  \/ \E k \in 1..n, i \in 1..4 : F(k, i) = <<0, j>>
             \/ \E q \in 1..waiting : Q(q) = <<0, j>>
  <2>1. CASE j <= byes
    <3>1. j \in 1..2 /\ n \in 1..n BY <2>1
    <3>2. F(n, 2*j - 1) = <<0, j>> /\ 2*j - 1 \in 1..4 BY <1>1, <2>1, <3>1
    <3> QED BY <3>1, <3>2
  <2>2. CASE j > byes
    <3>1. j - byes \in 1..waiting /\ j - byes <= waiting - byes /\ (j - byes) + byes = j
      BY <2>2
    <3>2. Q(j - byes) = <<0, j>> BY <3>1 DEF QueuedFrom
    <3> QED BY <3>1, <3>2
  <2> QED BY <2>1, <2>2
<1> HIDE DEF F, Q
<1>5. ASSUME NEW m \in 1..n, NEW h \in 1..4
      PROVE  \/ \E k \in 1..n, i \in 1..4 : F(k, i) = <<m, h>>
             \/ \E q \in 1..waiting : Q(q) = <<m, h>>
  <2>1. PICK j \in 1..2 : h = WinnerSat(won[m], j) \/ h = LoserSat(won[m], j)
    BY AllSat
  <2> QED BY <1>2, <1>3, <2>1
<1> QED BY <1>4, <1>5 DEF F, Q, Taken

LEMMA ByesIs ==
    ASSUME NEW S, NEW b \in Seq(S)
    PROVE  Byes(b) \in 0..2 /\ Byes(b) <= Len(b) /\ Len(b) \in Nat
<1>1. Len(b) \in Nat OBVIOUS
<1> DEFINE n == Len(b)
<1> HIDE DEF n
<1>2. n \in Nat => (IF 2 < n THEN 2 ELSE n) \in 0..2 /\ (IF 2 < n THEN 2 ELSE n) <= n
  OBVIOUS
<1> QED BY <1>1, <1>2 DEF Byes, Least, n

\* A queue of n, from who is at each of its places.
LEMMA QueueOf ==
    ASSUME NEW S, NEW n \in Nat, NEW f \in [1..n -> S]
    PROVE  f \in Seq(S) /\ Len(f) = n /\ DOMAIN f = 1..n
OBVIOUS

\* The seats of the next round, one by one.
LEMMA NextSeats ==
    ASSUME NEW S, NEW c \in Layouts(S), NEW b \in Seq(S), NEW won, NEW mode,
           Len(c) # 0, LayoutAndBenchOK(c, b)
    PROVE  LET next == NextRound(c, won, b, mode)
           IN  /\ next.courts \in Layouts(S) /\ Len(next.courts) = Len(c)
               /\ \A k \in 1..Len(c), i \in 1..4 :
                     next.courts[k][i]
                       = Holder(c, b, SeatedFrom(won, Len(c), Byes(b), mode, k, i))
               /\ next.bench \in Seq(S) /\ Len(next.bench) = Len(b)
               /\ \A j \in 1..Len(b) :
                     next.bench[j] = Holder(c, b, QueuedFrom(won, Len(c), Byes(b), Len(b), j))
<1> DEFINE n        == Len(c)
           byes     == Byes(b)
           Win(k)   == Winners(c[k], won[k])
           Lose(k)  == Losers(c[k], won[k])
           stay     == [j \in 1..2 |-> IF j <= byes THEN b[j] ELSE Lose(n)[j]]
           queue    == SubSeq(b, byes + 1, Len(b)) \o SubSeq(Lose(n), 1, byes)
           Above(k) == IF k = 1 THEN Win(1) ELSE Lose(LosersFrom(k, n, mode))
           Below(k) == IF k = n THEN stay ELSE Win(k + 1)
           seats    == [k \in 1..n |-> RePair(Below(k), Above(k))]
           From(k, i) == SeatedFrom(won, n, byes, mode, k, i)
           Queued(j)  == QueuedFrom(won, n, byes, Len(b), j)
<1>1. /\ n \in Nat \ {0} /\ n \in 1..n /\ byes \in 0..2 /\ byes <= Len(b) /\ Len(b) \in Nat
      /\ \A k \in 1..n : c[k] \in [1..4 -> S]
  BY Seats, ByesIs
<1>2. ASSUME NEW k \in 1..n, NEW j \in 1..2
      PROVE  /\ Win(k)[j] = c[k][WinnerSat(won[k], j)] /\ Win(k)[j] \in S
             /\ Lose(k)[j] = c[k][LoserSat(won[k], j)] /\ Lose(k)[j] \in S
             /\ k # 0
  BY <1>1, WhoSat
<1>3. \A k \in 2..n : LosersFrom(k, n, mode) \in 1..(n - 1)
  BY <1>1, LosersComeFrom
<1>4. \A j \in 1..Len(b) : b[j] \in S
  OBVIOUS
<1>5. Lose(n) \in Seq(S) /\ Len(Lose(n)) = 2
  BY <1>1, <1>2 DEF Losers
<1>6. ASSUME NEW k \in 1..n, NEW j \in 1..2
      PROVE  /\ Below(k)[j] = Holder(c, b, From(k, 2*j - 1)) /\ Below(k)[j] \in S
             /\ Above(k)[j] = Holder(c, b, From(k, 2*j)) /\ Above(k)[j] \in S
  <2> HIDE DEF Win, Lose
  <2>0. \/ j = 1 /\ 2*j - 1 = 1 /\ 2*j = 2
        \/ j = 2 /\ 2*j - 1 = 3 /\ 2*j = 4
    OBVIOUS
  <2>1. /\ k < n => From(k, 2*j - 1) = <<k + 1, WinnerSat(won[k + 1], j)>>
        /\ k = n /\ j <= byes => From(k, 2*j - 1) = <<0, j>>
        /\ k = n /\ j > byes => From(k, 2*j - 1) = <<n, LoserSat(won[n], j)>>
        /\ k = 1 => From(k, 2*j) = <<1, WinnerSat(won[1], j)>>
        /\ k # 1 => From(k, 2*j) = <<LosersFrom(k, n, mode),
                                     LoserSat(won[LosersFrom(k, n, mode)], j)>>
    BY <1>1, <2>0 DEF SeatedFrom
  <2> HIDE DEF From
  <2>2. ASSUME k < n
        PROVE  Below(k)[j] = Holder(c, b, From(k, 2*j - 1)) /\ Below(k)[j] \in S
    <3>1. k + 1 \in 1..n /\ k + 1 # 0 BY <2>2
    <3>2. Below(k) = Win(k + 1) BY <2>2
    <3>3. From(k, 2*j - 1) = <<k + 1, WinnerSat(won[k + 1], j)>> BY <2>1, <2>2
    <3>4. Win(k + 1)[j] = c[k + 1][WinnerSat(won[k + 1], j)] /\ Win(k + 1)[j] \in S
      BY <1>2, <3>1
    <3> HIDE DEF Below
    <3>5. Holder(c, b, From(k, 2*j - 1)) = c[k + 1][WinnerSat(won[k + 1], j)]
      BY <3>1, <3>3 DEF Holder
    <3> QED BY <3>2, <3>4, <3>5
  <2>3. Below(k)[j] = Holder(c, b, From(k, 2*j - 1)) /\ Below(k)[j] \in S
    <3>1. CASE k = n /\ j <= byes
      BY <1>1, <1>4, <2>1, <3>1 DEF Holder
    <3>2. CASE k = n /\ j > byes
      <4>1. Below(k)[j] = Lose(n)[j] BY <1>1, <3>2
      <4> HIDE DEF Below
      <4> QED BY <1>1, <1>2, <2>1, <3>2, <4>1 DEF Holder
    <3>3. k < n \/ (k = n /\ j <= byes) \/ (k = n /\ j > byes) BY <1>1
    <3> QED BY <2>2, <3>1, <3>2, <3>3
  <2>4. Above(k)[j] = Holder(c, b, From(k, 2*j)) /\ Above(k)[j] \in S
    <3>1. CASE k = 1
      BY <1>2, <2>1, <3>1 DEF Holder
    <3>2. CASE k # 1
      <4>1. k \in 2..n BY <3>2
      <4>2. LosersFrom(k, n, mode) \in 1..n /\ LosersFrom(k, n, mode) # 0 BY <1>3, <4>1
      <4> QED BY <1>2, <2>1, <3>2, <4>2 DEF Holder
    <3> QED BY <3>1, <3>2
  <2> QED BY <2>3, <2>4
<1> HIDE DEF Below, Above
<1>7. ASSUME NEW k \in 1..n
      PROVE  /\ seats[k] \in [1..4 -> S]
             /\ \A i \in 1..4 : seats[k][i] = Holder(c, b, From(k, i))
  <2>1. seats[k] = <<Below(k)[1], Above(k)[1], Below(k)[2], Above(k)[2]>>
    BY DEF RePair
  <2>2. /\ Below(k)[1] = Holder(c, b, From(k, 1)) /\ Above(k)[1] = Holder(c, b, From(k, 2))
        /\ Below(k)[1] \in S /\ Above(k)[1] \in S
    <3> 2*1 - 1 = 1 /\ 2*1 = 2 /\ 1 \in 1..2 OBVIOUS
    <3> QED BY <1>6
  <2>3. /\ Below(k)[2] = Holder(c, b, From(k, 3)) /\ Above(k)[2] = Holder(c, b, From(k, 4))
        /\ Below(k)[2] \in S /\ Above(k)[2] \in S
    <3> 2*2 - 1 = 3 /\ 2*2 = 4 /\ 2 \in 1..2 OBVIOUS
    <3> QED BY <1>6
  <2> HIDE DEF seats, From
  <2> QED BY <2>1, <2>2, <2>3
<1>8. seats \in Layouts(S) /\ Len(seats) = n
  <2>1. seats \in [1..n -> [1..4 -> S]]
    <3>1. \A k \in 1..n : seats[k] \in [1..4 -> S] BY <1>7
    <3>2. seats = [k \in 1..n |-> seats[k]] OBVIOUS
    <3> HIDE DEF seats
    <3> QED BY <3>1, <3>2
  <2> DEFINE V == [1..4 -> S]
  <2> HIDE DEF seats, V
  <2>2. seats \in Seq(V) /\ Len(seats) = n
    <3> seats \in [1..n -> V] BY <2>1 DEF V
    <3> QED BY <1>1, QueueOf
  <2> QED BY <2>2 DEF Layouts, V
<1>9. /\ queue \in Seq(S) /\ Len(queue) = Len(b)
      /\ \A j \in 1..Len(b) : queue[j] = Holder(c, b, Queued(j))
  <2> DEFINE s == SubSeq(b, byes + 1, Len(b))
             u == Lose(n)
             t == SubSeq(u, 1, byes)
  <2>1. /\ s \in Seq(S) /\ Len(s) = Len(b) - byes
        /\ \A j \in 1..(Len(b) - byes) : s[j] = b[j + byes]
    <3>1. byes + 1 \in Nat \ {0} BY <1>1
    <3>2. /\ s \in Seq(S)
          /\ Len(s) = IF byes + 1 <= Len(b) THEN Len(b) - (byes + 1) + 1 ELSE 0
          /\ \A j \in 1..(Len(b) - (byes + 1) + 1) : s[j] = b[(byes + 1) + j - 1]
      BY <1>1, <3>1, SubSeqHolds
    <3>3. Len(b) - (byes + 1) + 1 = Len(b) - byes BY <1>1
    <3>4. \A j \in 1..(Len(b) - byes) : (byes + 1) + j - 1 = j + byes BY <1>1
    <3> HIDE DEF s
    <3> QED BY <1>1, <3>2, <3>3, <3>4
  <2>2. /\ t \in Seq(S) /\ Len(t) = byes
        /\ \A j \in 1..byes : t[j] = Lose(n)[j]
    <3> HIDE DEF u
    <3>1. /\ t \in Seq(S)
          /\ Len(t) = IF 1 <= byes THEN byes - 1 + 1 ELSE 0
          /\ \A j \in 1..(byes - 1 + 1) : t[j] = u[1 + j - 1]
      <4> 1 \in Nat \ {0} /\ byes \in Nat /\ byes <= Len(u) /\ u \in Seq(S)
        BY <1>1, <1>5 DEF u
      <4> QED BY SubSeqHolds
    <3>2. \A j \in 1..byes : 1 + j - 1 = j BY <1>1
    <3> HIDE DEF t
    <3> QED BY <1>1, <3>1, <3>2 DEF u
  <2>3. queue = s \o t OBVIOUS
  <2> HIDE DEF s, t, queue
  <2>4. /\ queue \in Seq(S) /\ Len(queue) = Len(s) + Len(t)
        /\ \A i \in 1..(Len(s) + Len(t)) :
              queue[i] = IF i <= Len(s) THEN s[i] ELSE t[i - Len(s)]
    BY <2>1, <2>2, <2>3, ConcatProperties
  <2>5. Len(queue) = Len(b) BY <1>1, <2>1, <2>2, <2>4
  <2>6. ASSUME NEW j \in 1..Len(b) PROVE queue[j] = Holder(c, b, Queued(j))
    <3>1. CASE j <= Len(b) - byes
      <4>1. queue[j] = s[j] /\ j \in 1..(Len(b) - byes) BY <1>1, <2>1, <2>2, <2>4, <3>1
      <4>2. Queued(j) = <<0, j + byes>> BY <3>1 DEF QueuedFrom
      <4> QED BY <2>1, <4>1, <4>2 DEF Holder
    <3>2. CASE ~(j <= Len(b) - byes)
      <4> DEFINE d == j - (Len(b) - byes)
      <4>1. d \in 1..byes /\ d \in 1..2 BY <1>1, <3>2
      <4>2. queue[j] = t[d] BY <1>1, <2>1, <2>2, <2>4, <3>2
      <4>3. Queued(j) = <<n, LoserSat(won[n], d)>> BY <3>2 DEF QueuedFrom
      <4> HIDE DEF d, Lose, Queued
      <4>4. queue[j] = c[n][LoserSat(won[n], d)] /\ n # 0 BY <1>1, <1>2, <2>2, <4>1, <4>2
      <4> QED BY <4>3, <4>4 DEF Holder
    <3> QED BY <3>1, <3>2
  <2> QED BY <2>4, <2>5, <2>6
<1>10. NextRound(c, won, b, mode) = Night(seats, queue)
  <2>1. ~(n = 0 \/ ~LayoutAndBenchOK(c, b)) BY <1>1
  <2> QED BY <2>1 DEF NextRound, Below, Above
<1> HIDE DEF seats, queue, From, Queued
<1>11. Night(seats, queue).courts = seats /\ Night(seats, queue).bench = queue
  BY <1>8, <1>9, NightIs
<1> QED BY <1>7, <1>8, <1>9, <1>10, <1>11 DEF From, Queued

\* Every place of the next round is filled from a place of this one.
LEMMA FilledFromPlaces ==
    ASSUME NEW won, NEW n \in Nat \ {0}, NEW w \in Nat, NEW byes \in 0..2, byes <= w, NEW mode
    PROVE  LET P == ((1..n) \X (1..4)) \cup ({0} \X (1..w))
           IN  /\ \A k \in 1..n, i \in 1..4 : SeatedFrom(won, n, byes, mode, k, i) \in P
               /\ \A j \in 1..w : QueuedFrom(won, n, byes, w, j) \in P
<1> DEFINE P == ((1..n) \X (1..4)) \cup ({0} \X (1..w))
           F(k, i) == SeatedFrom(won, n, byes, mode, k, i)
           Q(j) == QueuedFrom(won, n, byes, w, j)
<1>1. ASSUME NEW k \in 1..n, NEW i \in 1..4
      PROVE  F(k, i) \in P
  <2>1. \A m \in 2..n : LosersFrom(m, n, mode) \in 1..(n - 1)
    BY LosersComeFrom
  <2>2. \A x : \A j \in 1..2 : WinnerSat(x, j) \in 1..4 /\ LoserSat(x, j) \in 1..4
    BY WhoSat
  <2> DEFINE j == IF i <= 2 THEN 1 ELSE 2
             l == LosersFrom(k, n, mode)
  <2>3. j \in 1..2 /\ (k # 1 => l \in 1..n)
    BY <2>1
  <2>4. F(k, i) = IF i = 1 \/ i = 3
                  THEN IF k < n THEN <<k + 1, WinnerSat(won[k + 1], j)>>
                       ELSE IF j <= byes THEN <<0, j>> ELSE <<n, LoserSat(won[n], j)>>
                  ELSE IF k = 1 THEN <<1, WinnerSat(won[1], j)>>
                       ELSE <<l, LoserSat(won[l], j)>>
    BY DEF SeatedFrom
  <2> HIDE DEF j, l, F
  <2>5. k < n => k + 1 \in 1..n OBVIOUS
  <2>6. n \in 1..n /\ 1 \in 1..n OBVIOUS
  <2>7. j <= byes => j \in 1..w BY <2>3
  <2> QED BY <2>2, <2>3, <2>4, <2>5, <2>6, <2>7
<1>2. ASSUME NEW j \in 1..w
      PROVE  Q(j) \in P
  <2>1. \A x : \A e \in 1..2 : LoserSat(x, e) \in 1..4
    BY WhoSat
  <2>2. CASE j <= w - byes
    <3>1. Q(j) = <<0, j + byes>> /\ j + byes \in 1..w BY <2>2 DEF QueuedFrom
    <3> QED BY <3>1
  <2>3. CASE ~(j <= w - byes)
    <3>1. Q(j) = <<n, LoserSat(won[n], j - (w - byes))>> /\ j - (w - byes) \in 1..2 /\ n \in 1..n
      BY <2>3 DEF QueuedFrom
    <3> QED BY <2>1, <3>1
  <2> QED BY <2>2, <2>3
<1> QED BY <1>1, <1>2

\* The movement gives everybody one place again: however many courts there
\* are, whoever won, whatever the rule for losers (engine.NextRound).
THEOREM MovementSeatsEverybodyOnce ==
    ASSUME NEW S, NEW c \in Layouts(S), NEW b \in Seq(S), NEW won, NEW mode,
           Len(c) # 0, LayoutAndBenchOK(c, b)
    PROVE  LET next == NextRound(c, won, b, mode)
           IN  /\ next.courts \in Layouts(S) /\ Len(next.courts) = Len(c)
               /\ next.bench \in Seq(S) /\ Len(next.bench) = Len(b)
               /\ LayoutAndBenchOK(next.courts, next.bench)
               /\ People(next.courts, next.bench) = People(c, b)
<1> DEFINE n  == Len(c)
           w  == Len(b)
           cc == NextRound(c, won, b, mode).courts
           bb == NextRound(c, won, b, mode).bench
           byes == Byes(b)
           F(k, i) == SeatedFrom(won, n, byes, mode, k, i)
           Q(j) == QueuedFrom(won, n, byes, w, j)
           from == [p \in Places(cc, bb) |-> IF p[1] = 0 THEN Q(p[2]) ELSE F(p[1], p[2])]
<1>1. /\ cc \in Layouts(S) /\ Len(cc) = n /\ bb \in Seq(S) /\ Len(bb) = w
      /\ \A k \in 1..n, i \in 1..4 : cc[k][i] = Holder(c, b, F(k, i))
      /\ \A j \in 1..w : bb[j] = Holder(c, b, Q(j))
  BY NextSeats
<1>2. n \in Nat \ {0} /\ w \in Nat /\ byes \in 0..2 /\ byes <= w
      /\ DOMAIN b = 1..w /\ DOMAIN bb = 1..w
  BY <1>1, ByesIs, Seats
<1> HIDE DEF cc, bb, n, w, byes
<1>3. /\ Places(c, b) = ((1..n) \X (1..4)) \cup ({0} \X (1..w))
      /\ Places(cc, bb) = ((1..n) \X (1..4)) \cup ({0} \X (1..w))
  <2>1. SeatRefs(c) = (1..n) \X (1..4) BY Seats DEF n
  <2>2. SeatRefs(cc) = (1..n) \X (1..4) BY <1>1, Seats
  <2> QED BY <1>2, <2>1, <2>2 DEF Places
<1>4. /\ \A k \in 1..n, i \in 1..4 : F(k, i) \in Places(c, b)
      /\ \A j \in 1..w : Q(j) \in Places(c, b)
  BY <1>2, <1>3, FilledFromPlaces
<1>6. ASSUME NEW j \in 1..w, NEW e \in 1..w, Q(j) = Q(e) PROVE j = e
  <2>1. \A x : \A a, d \in 1..2 : LoserSat(x, a) = LoserSat(x, d) => a = d
    BY AllSat
  <2>2. /\ j <= w - byes => Q(j) = <<0, j + byes>>
        /\ e <= w - byes => Q(e) = <<0, e + byes>>
        /\ ~(j <= w - byes) => Q(j) = <<n, LoserSat(won[n], j - (w - byes))>> /\ j - (w - byes) \in 1..2
        /\ ~(e <= w - byes) => Q(e) = <<n, LoserSat(won[n], e - (w - byes))>> /\ e - (w - byes) \in 1..2
    BY <1>2 DEF QueuedFrom
  <2> HIDE DEF Q
  <2>3. CASE j <= w - byes /\ e <= w - byes
    <3>1. j + byes = e + byes BY <1>6, <2>2, <2>3
    <3> QED BY <1>2, <3>1
  <2>4. CASE ~(j <= w - byes) /\ ~(e <= w - byes)
    <3>1. j - (w - byes) = e - (w - byes) BY <1>6, <2>1, <2>2, <2>4
    <3> QED BY <1>2, <3>1
  <2>5. CASE (j <= w - byes) # (e <= w - byes)
    BY <1>2, <1>6, <2>2, <2>5
  <2> QED BY <2>3, <2>4, <2>5
<1>7. ASSUME NEW k \in 1..n, NEW i \in 1..4, NEW j \in 1..w PROVE F(k, i) # Q(j)
  <2>1. \A x : \A a, d \in 1..2 : /\ WinnerSat(x, a) # LoserSat(x, d)
                                  /\ LoserSat(x, a) = LoserSat(x, d) => a = d
    BY AllSat
  <2>2. \A m \in 2..n : LosersFrom(m, n, mode) \in 1..(n - 1)
    BY <1>2, LosersComeFrom
  <2> DEFINE h == IF i <= 2 THEN 1 ELSE 2
             l == LosersFrom(k, n, mode)
  <2>3. h \in 1..2 /\ (k # 1 => l < n /\ l \in 1..n)
    BY <1>2, <2>2
  <2>4. F(k, i) = IF i = 1 \/ i = 3
                  THEN IF k < n THEN <<k + 1, WinnerSat(won[k + 1], h)>>
                       ELSE IF h <= byes THEN <<0, h>> ELSE <<n, LoserSat(won[n], h)>>
                  ELSE IF k = 1 THEN <<1, WinnerSat(won[1], h)>>
                       ELSE <<l, LoserSat(won[l], h)>>
    BY DEF SeatedFrom
  <2>5. /\ j <= w - byes => Q(j) = <<0, j + byes>> /\ j + byes > byes
        /\ ~(j <= w - byes) => /\ Q(j) = <<n, LoserSat(won[n], j - (w - byes))>>
                               /\ j - (w - byes) \in 1..2 /\ j - (w - byes) <= byes
    BY <1>2 DEF QueuedFrom
  <2> HIDE DEF h, l, F, Q
  <2>6. CASE j <= w - byes
    BY <1>2, <2>3, <2>4, <2>5, <2>6
  <2>7. CASE ~(j <= w - byes)
    <3> DEFINE d == j - (w - byes)
    <3>1. Q(j) = <<n, LoserSat(won[n], d)>> /\ d \in 1..2 /\ d <= byes BY <2>5, <2>7
    <3> HIDE DEF d
    <3> QED BY <1>2, <2>1, <2>3, <2>4, <3>1
  <2> QED BY <2>6, <2>7
<1>8. \A k, m \in 1..n : \A i, h \in 1..4 : F(k, i) = F(m, h) => k = m /\ i = h
  BY <1>2, SeatedFromOnce
<1>9. /\ \A m \in 1..n, h \in 1..4 : Taken(won, n, byes, w, mode, <<m, h>>)
      /\ \A j \in 1..w : Taken(won, n, byes, w, mode, <<0, j>>)
  BY <1>2, EveryPlaceTaken
<1> HIDE DEF F, Q
<1>10. \A p \in Places(cc, bb) :
          \/ \E k \in 1..n, i \in 1..4 :
                p = <<k, i>> /\ from[p] = F(k, i) /\ Holder(cc, bb, p) = Holder(c, b, F(k, i))
          \/ \E j \in 1..w :
                p = <<0, j>> /\ from[p] = Q(j) /\ Holder(cc, bb, p) = Holder(c, b, Q(j))
  <2> TAKE p \in Places(cc, bb)
  <2>1. ASSUME NEW k \in 1..n, NEW i \in 1..4, p = <<k, i>>
        PROVE  from[p] = F(k, i) /\ Holder(cc, bb, p) = Holder(c, b, F(k, i))
    <3>1. p[1] = k /\ p[2] = i /\ k # 0 BY <1>2, <2>1
    <3>2. Holder(cc, bb, p) = cc[k][i] BY <3>1 DEF Holder
    <3> QED BY <1>1, <3>1, <3>2
  <2>2. ASSUME NEW j \in 1..w, p = <<0, j>>
        PROVE  from[p] = Q(j) /\ Holder(cc, bb, p) = Holder(c, b, Q(j))
    <3>1. p[1] = 0 /\ p[2] = j BY <2>2
    <3>2. Holder(cc, bb, p) = bb[j] BY <3>1 DEF Holder
    <3> QED BY <1>1, <3>1, <3>2
  <2>3. \/ \E k \in 1..n, i \in 1..4 : p = <<k, i>>
        \/ \E j \in 1..w : p = <<0, j>>
    BY <1>3
  <2> HIDE DEF from
  <2> QED BY <2>1, <2>2, <2>3
<1>11. from \in [Places(cc, bb) -> Places(c, b)]
  <2>1. from = [p \in Places(cc, bb) |-> from[p]] OBVIOUS
  <2>2. \A p \in Places(cc, bb) : from[p] \in Places(c, b)
    <3> HIDE DEF from
    <3> QED BY <1>4, <1>10
  <2> HIDE DEF from
  <2> QED BY <2>1, <2>2
<1>12. ASSUME NEW k \in 1..n, NEW i \in 1..4 PROVE <<k, i>> \in Places(cc, bb) /\ from[<<k, i>>] = F(k, i)
  <2>1. <<k, i>> \in Places(cc, bb) /\ <<k, i>>[1] # 0 BY <1>2, <1>3
  <2> QED BY <2>1
<1>13. ASSUME NEW j \in 1..w PROVE <<0, j>> \in Places(cc, bb) /\ from[<<0, j>>] = Q(j)
  <2>1. <<0, j>> \in Places(cc, bb) BY <1>3
  <2> QED BY <2>1
<1> HIDE DEF from
<1>14. ASSUME NEW p \in Places(cc, bb), NEW q \in Places(cc, bb), from[p] = from[q]
       PROVE  p = q
  <2>1. CASE \E k \in 1..n, i \in 1..4 : p = <<k, i>> /\ from[p] = F(k, i)
    <3>1. PICK k \in 1..n, i \in 1..4 : p = <<k, i>> /\ from[p] = F(k, i) BY <2>1
    <3>2. CASE \E m \in 1..n, h \in 1..4 : q = <<m, h>> /\ from[q] = F(m, h)
      BY <1>8, <1>14, <3>1, <3>2
    <3>3. CASE \E j \in 1..w : q = <<0, j>> /\ from[q] = Q(j)
      BY <1>7, <1>14, <3>1, <3>3
    <3> QED BY <1>10, <3>2, <3>3
  <2>2. CASE \E j \in 1..w : p = <<0, j>> /\ from[p] = Q(j)
    <3>1. PICK j \in 1..w : p = <<0, j>> /\ from[p] = Q(j) BY <2>2
    <3>2. CASE \E m \in 1..n, h \in 1..4 : q = <<m, h>> /\ from[q] = F(m, h)
      BY <1>7, <1>14, <3>1, <3>2
    <3>3. CASE \E e \in 1..w : q = <<0, e>> /\ from[q] = Q(e)
      BY <1>6, <1>14, <3>1, <3>3
    <3> QED BY <1>10, <3>2, <3>3
  <2> QED BY <1>10, <2>1, <2>2
<1>15. Rearranges(from, c, b, cc, bb)
  BY <1>10, <1>11, <1>14 DEF Rearranges
<1>16. ASSUME NEW q \in Places(c, b) PROVE \E p \in Places(cc, bb) : from[p] = q
  <2>1. CASE \E m \in 1..n, h \in 1..4 : q = <<m, h>>
    <3>1. PICK m \in 1..n, h \in 1..4 : q = <<m, h>> BY <2>1
    <3>2. \/ \E k \in 1..n, i \in 1..4 : F(k, i) = q
          \/ \E j \in 1..w : Q(j) = q
      BY <1>9, <3>1 DEF Taken, F, Q
    <3> QED BY <1>12, <1>13, <3>2
  <2>2. CASE \E j \in 1..w : q = <<0, j>>
    <3>1. PICK e \in 1..w : q = <<0, e>> BY <2>2
    <3>2. \/ \E k \in 1..n, i \in 1..4 : F(k, i) = q
          \/ \E j \in 1..w : Q(j) = q
      BY <1>9, <3>1 DEF Taken, F, Q
    <3> QED BY <1>12, <1>13, <3>2
  <2>3. \/ \E m \in 1..n, h \in 1..4 : q = <<m, h>>
        \/ \E j \in 1..w : q = <<0, j>>
    BY <1>3
  <2> QED BY <2>1, <2>2, <2>3
<1>17. LayoutAndBenchOK(cc, bb) /\ People(cc, bb) = People(c, b)
  BY <1>1, <1>15, <1>16, MovedSound
<1> QED BY <1>1, <1>17 DEF cc, bb, n, w

-----------------------------------------------------------------------------
(* The equal-court-time pass.                                              *)

\* A strict order on S that tells any two apart.
Orders(R, S) ==
    /\ \A x \in S : <<x, x>> \notin R
    /\ \A x, y, z \in S : <<x, y>> \in R /\ <<y, z>> \in R => <<x, z>> \in R
    /\ \A x, y \in S : x = y \/ <<x, y>> \in R \/ <<y, x>> \in R

Before(R, S, x) == {y \in S : <<y, x>> \in R}

\* In a finite set that is ordered somebody is first, somebody second ...
LEMMA SomebodyIsNth ==
    ASSUME NEW S, IsFiniteSet(S), NEW R, Orders(R, S)
    PROVE  /\ \A x, y \in S : Cardinality(Before(R, S, x)) = Cardinality(Before(R, S, y)) => x = y
           /\ \A x \in S : Cardinality(Before(R, S, x)) \in 0..(Cardinality(S) - 1)
           /\ \A i \in 1..Cardinality(S) : \E x \in S : Cardinality(Before(R, S, x)) = i - 1
<1> DEFINE n == Cardinality(S)
           rank == [x \in S |-> Cardinality(Before(R, S, x))]
<1>1. n \in Nat
  BY FS_CardinalityType
<1>2. ASSUME NEW x \in S
      PROVE  /\ IsFiniteSet(Before(R, S, x)) /\ Cardinality(Before(R, S, x)) \in Nat
             /\ Cardinality(Before(R, S, x)) < n
  <2>1. Before(R, S, x) \in SUBSET S /\ Before(R, S, x) # S
    BY DEF Before, Orders
  <2>2. /\ IsFiniteSet(Before(R, S, x)) /\ Cardinality(Before(R, S, x)) <= n
        /\ Cardinality(Before(R, S, x)) # n
    BY <2>1, FS_Subset
  <2>3. Cardinality(Before(R, S, x)) \in Nat BY <2>2, FS_CardinalityType
  <2> QED BY <1>1, <2>2, <2>3
<1>3. ASSUME NEW x \in S, NEW y \in S, <<x, y>> \in R
      PROVE  Cardinality(Before(R, S, x)) < Cardinality(Before(R, S, y))
  <2>1. Before(R, S, x) \in SUBSET Before(R, S, y)
    BY <1>3 DEF Before, Orders
  <2>2. Before(R, S, x) # Before(R, S, y)
    BY <1>3 DEF Before, Orders
  <2>3. /\ Cardinality(Before(R, S, x)) <= Cardinality(Before(R, S, y))
        /\ Cardinality(Before(R, S, x)) # Cardinality(Before(R, S, y))
    BY <1>2, <2>1, <2>2, FS_Subset
  <2> QED BY <1>2, <2>3
<1>4. \A x, y \in S : Cardinality(Before(R, S, x)) = Cardinality(Before(R, S, y)) => x = y
  <2> TAKE x, y \in S
  <2>1. /\ <<x, y>> \in R => Cardinality(Before(R, S, x)) < Cardinality(Before(R, S, y))
        /\ <<y, x>> \in R => Cardinality(Before(R, S, y)) < Cardinality(Before(R, S, x))
    BY <1>3
  <2>2. Cardinality(Before(R, S, x)) \in Nat /\ Cardinality(Before(R, S, y)) \in Nat
    BY <1>2
  <2>3. x = y \/ <<x, y>> \in R \/ <<y, x>> \in R BY DEF Orders
  <2> QED BY <2>1, <2>2, <2>3
<1>5. \A x \in S : Cardinality(Before(R, S, x)) \in 0..(n - 1)
  BY <1>1, <1>2
<1>6. rank \in [S -> 0..(n - 1)] BY <1>5
<1>7. \A x, y \in S : rank[x] = rank[y] => x = y BY <1>4
<1> HIDE DEF rank, n
<1>8. rank \in Injection(S, 0..(n - 1))
  BY <1>6, <1>7 DEF Injection, IsInjective
<1>9. IsFiniteSet(0..(n - 1)) /\ Cardinality(0..(n - 1)) = n
  <2>1. IsFiniteSet(0..(n - 1)) /\ Cardinality(0..(n - 1)) = IF 0 > n - 1 THEN 0 ELSE n - 1 - 0 + 1
    <3> 0 \in Int /\ n - 1 \in Int BY <1>1
    <3> QED BY FS_Interval
  <2> QED BY <1>1, <2>1
<1>10. rank \in Surjection(S, 0..(n - 1))
  BY <1>8, <1>9, FS_Injection DEF n
<1>11. ASSUME NEW i \in 1..n PROVE \E x \in S : Cardinality(Before(R, S, x)) = i - 1
  <2>1. i - 1 \in 0..(n - 1) BY <1>1
  <2>2. \E x \in S : rank[x] = i - 1 BY <1>10, <2>1 DEF Surjection
  <2> QED BY <2>2 DEF rank
<1> QED BY <1>4, <1>5, <1>11 DEF n

\* The next round has as many courts, and the same people at its places.
KeepsEverybody(next, S, c, b) ==
    /\ next.courts \in Layouts(S) /\ Len(next.courts) = Len(c)
    /\ next.bench \in Seq(S)
    /\ LayoutAndBenchOK(next.courts, next.bench)
    /\ People(next.courts, next.bench) = People(c, b)

\* Whoever is in another's seat comes from the bench, and for everybody benched
\* somebody who has played less came on.
Trades(next, c, b, plays) ==
    /\ \A s \in SeatRefs(c) : next.courts[s[1]][s[2]] \in ToSet(b) \cup {c[s[1]][s[2]]}
    /\ \A p \in Seated(c) \cap ToSet(next.bench) :
           \E q \in Seated(next.courts) \cap ToSet(b) : OwedCourtTime(plays[q], plays[p])

\* Up to two of the bench change places with as many of the seats.
LEMMA TradeKeepsEverybody ==
    ASSUME NEW S, NEW c \in Layouts(S), NEW b \in Seq(S), LayoutAndBenchOK(c, b),
           NEW m \in 0..2, NEW busy \in [1..m -> SeatRefs(c)],
           NEW waiting \in [1..m -> ToSet(b)], IsInjective(busy), IsInjective(waiting),
           NEW plays
    PROVE  /\ KeepsEverybody(TradePlaces(Night(c, b), busy, waiting, plays), S, c, b)
           /\ Trades(TradePlaces(Night(c, b), busy, waiting, plays), c, b, plays)
<1> DEFINE At(s)      == c[s[1]][s[2]]
           Narrows(i) == OwedCourtTime(plays[waiting[i]], plays[At(busy[i])])
           traded     == {i \in 1..m : \A j \in 1..i : Narrows(j)}
           cameOn     == {waiting[i] : i \in traded}
           d          == Cardinality(traded)
           tookOff    == [i \in 1..d |-> At(busy[i])]
           Seat(s)    == IF \E i \in traded : busy[i] = s
                         THEN waiting[CHOOSE i \in traded : busy[i] = s]
                         ELSE At(s)
           seats      == [k \in DOMAIN c |-> <<Seat(<<k, 1>>), Seat(<<k, 2>>),
                                               Seat(<<k, 3>>), Seat(<<k, 4>>)>>]
           queue      == Without(b, cameOn) \o tookOff
           n          == Len(c)
<1>0. Night(c, b).courts = c /\ Night(c, b).bench = b
  BY NightIs
<1>1. TradePlaces(Night(c, b), busy, waiting, plays) = Night(seats, queue)
  <2>1. DOMAIN busy = 1..m OBVIOUS
  <2> QED BY <1>0, <2>1 DEF TradePlaces, Court
<1>2. d \in 0..m /\ traded = 1..d
  <2>1. traded = {} \/ traded = {1} \/ traded = 1..2
    <3>1. CASE m = 0 BY <3>1
    <3>2. CASE m = 1 BY <3>2
    <3>3. CASE m = 2
      <4>1. 1..m = {1, 2} /\ 1..1 = {1} /\ 1..2 = {1, 2} BY <3>3
      <4>2. traded \subseteq {1, 2} BY <4>1
      <4>3. 2 \in traded => 1 \in traded BY <4>1
      <4> HIDE DEF traded
      <4> QED BY <4>1, <4>2, <4>3
    <3> QED BY <3>1, <3>2, <3>3
  <2>2. traded \subseteq 1..m OBVIOUS
  <2> HIDE DEF traded
  <2>3. Cardinality({}) = 0 /\ Cardinality({1}) = 1 /\ Cardinality(1..2) = 2
    <3>1. Cardinality(1..2) = IF 1 > 2 THEN 0 ELSE 2 - 1 + 1
      <4> 1 \in Int /\ 2 \in Int OBVIOUS
      <4> QED BY FS_Interval
    <3>2. Cardinality(1..2) = 2 BY <3>1
    <3>3. Cardinality({}) = 0 BY FS_EmptySet
    <3>4. Cardinality({1}) = 1 BY FS_Singleton
    <3> QED BY <3>2, <3>3, <3>4
  <2>4. CASE traded = {} BY <2>3, <2>4
  <2>5. CASE traded = {1}
    <3>1. 1 \in 1..m BY <2>2, <2>5
    <3> QED BY <2>3, <2>5, <3>1
  <2>6. CASE traded = 1..2
    <3>1. 2 \in 1..m BY <2>2, <2>6
    <3> QED BY <2>3, <2>6, <3>1
  <2> QED BY <2>1, <2>4, <2>5, <2>6
<1>3. /\ n \in Nat /\ DOMAIN c = 1..n /\ SeatRefs(c) = (1..n) \X (1..4)
      /\ \A k \in 1..n : c[k] \in [1..4 -> S]
      /\ Seated(c) \subseteq S
  BY Seats
<1>4. \A s \in SeatRefs(c) : At(s) \in Seated(c) /\ At(s) \in S
  BY <1>3 DEF Seated
<1>5. ToSet(b) \subseteq S /\ Seated(c) \cap ToSet(b) = {} /\ IsInjective(b)
      /\ Blank \notin Seated(c) \cup ToSet(b)
      /\ \A s, t \in SeatRefs(c) : At(s) = At(t) => s = t
  BY DEF ToSet, LayoutAndBenchOK
<1>6. \A i \in 1..d : i \in 1..m /\ busy[i] \in SeatRefs(c) /\ waiting[i] \in ToSet(b)
  BY <1>2
<1>7. \A i, j \in 1..d : /\ busy[i] = busy[j] => i = j
                         /\ waiting[i] = waiting[j] => i = j
  BY <1>6 DEF IsInjective
<1>8. \A s : \/ \E i \in 1..d : busy[i] = s /\ Seat(s) = waiting[i]
             \/ (\A i \in 1..d : busy[i] # s) /\ Seat(s) = At(s)
  BY <1>2
<1>9. cameOn = {waiting[i] : i \in 1..d} /\ \A i \in 1..d : Narrows(i)
  <2>1. \A i \in 1..m : i \in 1..i OBVIOUS
  <2>2. \A i \in traded : Narrows(i)
    <3> HIDE DEF Narrows
    <3> QED BY <2>1
  <2> HIDE DEF traded, Narrows
  <2> QED BY <1>2, <2>2
<1> HIDE DEF traded, cameOn, d, Seat
<1>10. \A s \in SeatRefs(c) : Seat(s) \in S
  BY <1>4, <1>5, <1>6, <1>8
<1>11. ASSUME NEW s \in SeatRefs(c), NEW t \in SeatRefs(c), Seat(s) = Seat(t) PROVE s = t
  <2>1. CASE (\E i \in 1..d : busy[i] = s /\ Seat(s) = waiting[i])
             /\ (\E i \in 1..d : busy[i] = t /\ Seat(t) = waiting[i])
    BY <1>7, <1>11, <2>1
  <2>2. CASE (\E i \in 1..d : busy[i] = s /\ Seat(s) = waiting[i]) /\ Seat(t) = At(t)
    BY <1>4, <1>5, <1>6, <1>11, <2>2
  <2>3. CASE (\E i \in 1..d : busy[i] = t /\ Seat(t) = waiting[i]) /\ Seat(s) = At(s)
    BY <1>4, <1>5, <1>6, <1>11, <2>3
  <2>4. CASE Seat(s) = At(s) /\ Seat(t) = At(t)
    BY <1>5, <1>11, <2>4
  <2> QED BY <1>8, <2>1, <2>2, <2>3, <2>4
<1>12. seats \in [1..n -> [1..4 -> S]] /\ \A s \in SeatRefs(c) : seats[s[1]][s[2]] = Seat(s)
  <2>1. ASSUME NEW k \in 1..n
        PROVE  /\ seats[k] \in [1..4 -> S]
               /\ \A i \in 1..4 : seats[k][i] = Seat(<<k, i>>)
    <3>1. seats[k] = <<Seat(<<k, 1>>), Seat(<<k, 2>>), Seat(<<k, 3>>), Seat(<<k, 4>>)>>
      BY <1>3
    <3>2. \A i \in 1..4 : Seat(<<k, i>>) \in S BY <1>3, <1>10
    <3> HIDE DEF seats
    <3> QED BY <3>1, <3>2
  <2>2. seats = [k \in 1..n |-> seats[k]] BY <1>3
  <2> HIDE DEF seats
  <2>3. seats \in [1..n -> [1..4 -> S]] BY <2>1, <2>2
  <2>4. ASSUME NEW s \in SeatRefs(c) PROVE seats[s[1]][s[2]] = Seat(s)
    <3>1. s[1] \in 1..n /\ s[2] \in 1..4 /\ s = <<s[1], s[2]>> BY <1>3
    <3> QED BY <2>1, <3>1
  <2> QED BY <2>3, <2>4
<1> HIDE DEF seats
<1>13. seats \in Layouts(S) /\ Len(seats) = n
  <2> DEFINE V == [1..4 -> S]
  <2> HIDE DEF V
  <2>1. seats \in [1..n -> V] BY <1>12 DEF V
  <2>2. seats \in Seq(V) /\ Len(seats) = n BY <1>3, <2>1, QueueOf
  <2> QED BY <2>2 DEF V, Layouts
<1>14. SeatRefs(seats) = SeatRefs(c)
  BY <1>3, <1>13, Seats
<1>15. Seated(seats) = {Seat(s) : s \in SeatRefs(c)}
  BY <1>12, <1>14 DEF Seated
<1>16. tookOff \in Seq(S) /\ IsInjective(tookOff) /\ ToSet(tookOff) = {At(busy[i]) : i \in 1..d}
  <2>1. d \in Nat BY <1>2
  <2>2. tookOff \in [1..d -> S] BY <1>4, <1>6
  <2>3. tookOff \in Seq(S) /\ DOMAIN tookOff = 1..d BY <2>1, <2>2, QueueOf
  <2>4. \A i, j \in 1..d : tookOff[i] = tookOff[j] => i = j BY <1>5, <1>6, <1>7
  <2>5. \A i \in 1..d : tookOff[i] = At(busy[i]) OBVIOUS
  <2> HIDE DEF tookOff
  <2>6. IsInjective(tookOff) BY <2>3, <2>4 DEF IsInjective
  <2>7. ToSet(tookOff) = {At(busy[i]) : i \in 1..d}
    <3>1. \A x : x \in ToSet(tookOff) <=> \E i \in 1..d : x = tookOff[i] BY <2>3 DEF ToSet
    <3> QED BY <2>5, <3>1
  <2> QED BY <2>3, <2>6, <2>7
<1>17. Without(b, cameOn) \in Seq(S) /\ ToSet(Without(b, cameOn)) = ToSet(b) \ cameOn
       /\ IsInjective(Without(b, cameOn))
  BY <1>5, WithoutHolds
<1>18. ToSet(tookOff) \subseteq Seated(c)
  BY <1>4, <1>6, <1>16
<1> HIDE DEF tookOff
<1>19. /\ queue \in Seq(S) /\ IsInjective(queue)
       /\ ToSet(queue) = (ToSet(b) \ cameOn) \cup ToSet(tookOff)
  <2>1. ToSet(Without(b, cameOn)) \cap ToSet(tookOff) = {} BY <1>5, <1>17, <1>18
  <2> QED BY <1>16, <1>17, <2>1, ConcatHolds
<1> HIDE DEF queue
<1>20. Seated(seats) = (Seated(c) \ ToSet(tookOff)) \cup cameOn
  <2>1. ASSUME NEW s \in SeatRefs(c) PROVE Seat(s) \in (Seated(c) \ ToSet(tookOff)) \cup cameOn
    <3>1. CASE \E i \in 1..d : busy[i] = s /\ Seat(s) = waiting[i] BY <1>9, <3>1
    <3>2. CASE (\A i \in 1..d : busy[i] # s) /\ Seat(s) = At(s)
      <4>1. \A i \in 1..d : At(busy[i]) # At(s) BY <1>5, <1>6, <3>2
      <4> QED BY <1>4, <1>16, <3>2, <4>1
    <3> QED BY <1>8, <3>1, <3>2
  <2>2. ASSUME NEW i \in 1..d PROVE waiting[i] \in Seated(seats)
    <3>1. busy[i] \in SeatRefs(c) BY <1>6
    <3>2. Seat(busy[i]) = waiting[i] BY <1>7, <1>8
    <3> QED BY <1>15, <3>1, <3>2
  <2>3. ASSUME NEW s \in SeatRefs(c), At(s) \notin ToSet(tookOff) PROVE At(s) \in Seated(seats)
    <3>1. \A i \in 1..d : busy[i] # s BY <1>16, <2>3
    <3>2. Seat(s) = At(s) BY <1>8, <3>1
    <3> QED BY <1>15, <3>2
  <2>4. Seated(c) = {At(s) : s \in SeatRefs(c)} BY DEF Seated
  <2> QED BY <1>9, <1>15, <2>1, <2>2, <2>3, <2>4
<1>21. cameOn \subseteq ToSet(b)
  BY <1>6, <1>9
<1>22. LayoutAndBenchOK(seats, queue)
  <2>1. Blank \notin Seated(seats) \cup ToSet(queue) BY <1>5, <1>18, <1>19, <1>20, <1>21
  <2>2. Seated(seats) \cap ToSet(queue) = {} BY <1>5, <1>18, <1>19, <1>20, <1>21
  <2>3. \A s, t \in SeatRefs(seats) : seats[s[1]][s[2]] = seats[t[1]][t[2]] => s = t
    BY <1>11, <1>12, <1>14
  <2> QED BY <1>19, <2>1, <2>2, <2>3 DEF LayoutAndBenchOK
<1>23. People(seats, queue) = People(c, b)
  BY <1>18, <1>19, <1>20, <1>21 DEF People
<1>24. Night(seats, queue).courts = seats /\ Night(seats, queue).bench = queue
  BY <1>13, <1>19, NightIs
<1>25. ASSUME NEW s \in SeatRefs(c) PROVE seats[s[1]][s[2]] \in ToSet(b) \cup {c[s[1]][s[2]]}
  BY <1>6, <1>8, <1>12
<1>26. ASSUME NEW p \in Seated(c), p \in ToSet(queue)
       PROVE  \E q \in Seated(seats) \cap ToSet(b) : OwedCourtTime(plays[q], plays[p])
  <2>1. p \in ToSet(tookOff) BY <1>5, <1>19, <1>26
  <2>2. PICK i \in 1..d : p = At(busy[i]) BY <1>16, <2>1
  <2>3. OwedCourtTime(plays[waiting[i]], plays[p]) BY <1>9, <2>2
  <2>4. waiting[i] \in Seated(seats) \cap ToSet(b) BY <1>6, <1>9, <1>20
  <2> QED BY <2>3, <2>4
<1>27. Trades(Night(seats, queue), c, b, plays)
  BY <1>24, <1>25, <1>26 DEF Trades
<1> QED BY <1>1, <1>13, <1>19, <1>22, <1>23, <1>24, <1>27 DEF n, KeepsEverybody

\* The seats whose holders have played most are seats, each named once.
LEMMA BusiestSeats ==
    ASSUME NEW S, NEW c \in Layouts(S), Len(c) # 0, NEW plays \in [S -> Nat], NEW m \in 0..2
    PROVE  MostPlayed(c, plays, m) \in [1..m -> SeatRefs(c)] /\ IsInjective(MostPlayed(c, plays, m))
<1> DEFINE T == SeatRefs(c)
           Plays(s) == plays[c[s[1]][s[2]]]
           Busier(s, t) ==
               \/ Plays(s) > Plays(t)
               \/ Plays(s) = Plays(t) /\ s[1] > t[1]
               \/ Plays(s) = Plays(t) /\ s[1] = t[1] /\ s[2] < t[2]
           R == {z \in T \X T : Busier(z[1], z[2])}
           At(i) == CHOOSE x \in T : Cardinality({y \in T : Busier(y, x)}) = i - 1
           f == [i \in 1..m |-> At(i)]
<1>1. /\ Len(c) \in Nat /\ T = (1..Len(c)) \X (1..4)
      /\ \A s \in T : c[s[1]][s[2]] \in S
  BY Seats DEF Seated
<1>2. \A s \in T : Plays(s) \in Nat /\ s[1] \in Nat /\ s[2] \in Nat /\ s = <<s[1], s[2]>>
  BY <1>1
<1>3. IsFiniteSet(T) /\ Cardinality(T) >= 2 /\ Cardinality(T) \in Nat
  <2>1. IsFiniteSet(1..Len(c)) /\ Cardinality(1..Len(c)) = Len(c)
    <3>1. IsFiniteSet(1..Len(c)) /\ Cardinality(1..Len(c)) = IF 1 > Len(c) THEN 0 ELSE Len(c) - 1 + 1
      <4> 1 \in Int /\ Len(c) \in Int BY <1>1
      <4> QED BY FS_Interval
    <3> QED BY <1>1, <3>1
  <2>2. IsFiniteSet(1..4) /\ Cardinality(1..4) = 4
    <3>1. IsFiniteSet(1..4) /\ Cardinality(1..4) = IF 1 > 4 THEN 0 ELSE 4 - 1 + 1
      <4> 1 \in Int /\ 4 \in Int OBVIOUS
      <4> QED BY FS_Interval
    <3> QED BY <3>1
  <2>3. IsFiniteSet(T) /\ Cardinality(T) = Len(c) * 4
    BY <1>1, <2>1, <2>2, FS_Product
  <2> QED BY <1>1, <2>3
<1>4. \A x, y \in T : <<x, y>> \in R <=> Busier(x, y)
  OBVIOUS
<1> HIDE DEF R, T, Plays
<1>5. \A x \in T : ~Busier(x, x)
  BY <1>2
<1>6. \A x, y, z \in T : Busier(x, y) /\ Busier(y, z) => Busier(x, z)
  BY <1>2
<1>7. \A x, y \in T : x = y \/ Busier(x, y) \/ Busier(y, x)
  BY <1>2
<1> HIDE DEF Busier
<1>8. Orders(R, T)
  BY <1>4, <1>5, <1>6, <1>7 DEF Orders
<1>9. \A x \in T : Before(R, T, x) = {y \in T : Busier(y, x)}
  BY <1>4 DEF Before
<1>10. ASSUME NEW i \in 1..m
       PROVE  At(i) \in T /\ Cardinality({y \in T : Busier(y, At(i))}) = i - 1
  <2>1. i \in 1..Cardinality(T) BY <1>3
  <2>2. PICK x \in T : Cardinality(Before(R, T, x)) = i - 1
    BY <1>3, <1>8, <2>1, SomebodyIsNth
  <2>3. Cardinality({y \in T : Busier(y, x)}) = i - 1
    BY <1>9, <2>2
  <2> QED BY <2>3
<1>11. MostPlayed(c, plays, m) = f
  <2>1. MostPlayed(c, plays, m) = f \o <<>>
    BY DEF MostPlayed, Nth, At, T, Busier, Plays
  <2>2. f \in [1..m -> T] BY <1>10
  <2>3. f \in Seq(T)
    <3> HIDE DEF f
    <3> QED BY <2>2, QueueOf
  <2> HIDE DEF f
  <2> QED BY <2>1, <2>3, ConcatEmptySeq
<1>12. f \in [1..m -> T] BY <1>10
<1>13. ASSUME NEW i \in 1..m, NEW j \in 1..m, f[i] = f[j] PROVE i = j
  <2>1. At(i) = At(j) BY <1>13
  <2> HIDE DEF At
  <2>2. i - 1 = j - 1 BY <1>10, <2>1
  <2> QED BY <2>2
<1> HIDE DEF f
<1>14. IsInjective(f) BY <1>12, <1>13 DEF IsInjective
<1> QED BY <1>11, <1>12, <1>14 DEF T

\* Those of the queue who have played least are of the queue, each named once.
LEMMA RestedPlayers ==
    ASSUME NEW S, NEW b \in Seq(S), IsInjective(b), NEW plays \in [S -> Nat],
           NEW m \in 0..2, m <= Len(b)
    PROVE  LeastPlayed(b, plays, m) \in [1..m -> ToSet(b)] /\ IsInjective(LeastPlayed(b, plays, m))
<1> DEFINE T == DOMAIN b
           Rested(i, j) == \/ plays[b[i]] < plays[b[j]]
                           \/ plays[b[i]] = plays[b[j]] /\ i < j
           R == {z \in T \X T : Rested(z[1], z[2])}
           At(i) == CHOOSE x \in T : Cardinality({y \in T : Rested(y, x)}) = i - 1
           f == [i \in 1..m |-> b[At(i)]]
<1>1. Len(b) \in Nat /\ T = 1..Len(b) /\ \A i \in T : b[i] \in S /\ b[i] \in ToSet(b)
  BY DEF ToSet
<1>2. \A i \in T : plays[b[i]] \in Nat /\ i \in Nat
  BY <1>1
<1>3. IsFiniteSet(T) /\ Cardinality(T) = Len(b)
  <2>1. IsFiniteSet(1..Len(b)) /\ Cardinality(1..Len(b)) = IF 1 > Len(b) THEN 0 ELSE Len(b) - 1 + 1
    <3> 1 \in Int /\ Len(b) \in Int BY <1>1
    <3> QED BY FS_Interval
  <2> QED BY <1>1, <2>1
<1>4. \A x, y \in T : <<x, y>> \in R <=> Rested(x, y)
  OBVIOUS
<1> HIDE DEF R, T
<1>5. \A x \in T : ~Rested(x, x)
  BY <1>2
<1>6. \A x, y, z \in T : Rested(x, y) /\ Rested(y, z) => Rested(x, z)
  BY <1>2
<1>7. \A x, y \in T : x = y \/ Rested(x, y) \/ Rested(y, x)
  BY <1>2
<1> HIDE DEF Rested
<1>8. Orders(R, T)
  BY <1>4, <1>5, <1>6, <1>7 DEF Orders
<1>9. \A x \in T : Before(R, T, x) = {y \in T : Rested(y, x)}
  BY <1>4 DEF Before
<1>10. ASSUME NEW i \in 1..m
       PROVE  At(i) \in T /\ Cardinality({y \in T : Rested(y, At(i))}) = i - 1
  <2>1. i \in 1..Cardinality(T) BY <1>1, <1>3
  <2>2. PICK x \in T : Cardinality(Before(R, T, x)) = i - 1
    BY <1>3, <1>8, <2>1, SomebodyIsNth
  <2>3. Cardinality({y \in T : Rested(y, x)}) = i - 1
    BY <1>9, <2>2
  <2> QED BY <2>3
<1>11. LeastPlayed(b, plays, m) = f
  <2>1. LeastPlayed(b, plays, m) = f \o <<>>
    BY DEF LeastPlayed, Nth, At, T, Rested
  <2>2. f \in [1..m -> S] BY <1>1, <1>10
  <2>3. f \in Seq(S)
    <3> HIDE DEF f
    <3> QED BY <2>2, QueueOf
  <2> HIDE DEF f
  <2> QED BY <2>1, <2>3, ConcatEmptySeq
<1>12. f \in [1..m -> ToSet(b)] BY <1>1, <1>10
<1>13. ASSUME NEW i \in 1..m, NEW j \in 1..m, f[i] = f[j] PROVE i = j
  <2>1. b[At(i)] = b[At(j)] /\ At(i) \in T /\ At(j) \in T BY <1>10, <1>13
  <2>2. At(i) = At(j)
    <3> HIDE DEF At
    <3> QED BY <2>1 DEF IsInjective, T
  <2> HIDE DEF At
  <2>3. i - 1 = j - 1 BY <1>10, <2>2
  <2> QED BY <2>3
<1> HIDE DEF f
<1>14. IsInjective(f) BY <1>12, <1>13 DEF IsInjective
<1> QED BY <1>11, <1>12, <1>14

\* The equal-court-time pass only ever trades places of the movement's.
LEMMA FairRoundTrades ==
    ASSUME NEW S, NEW c \in Layouts(S), NEW b \in Seq(S), NEW won, NEW mode,
           NEW plays \in [S -> Nat], Len(c) # 0, LayoutAndBenchOK(c, b)
    PROVE  LET next == NextRound(c, won, b, mode)
               fair == NextRoundFair(c, won, b, mode, plays)
           IN  /\ KeepsEverybody(fair, S, c, b)
               /\ Trades(fair, next.courts, next.bench, plays)
<1> DEFINE next == NextRound(c, won, b, mode)
           cc == next.courts
           bb == next.bench
           m  == Least(2, Len(bb))
           busy == MostPlayed(cc, plays, m)
           waiting == LeastPlayed(bb, plays, m)
<1>1. /\ cc \in Layouts(S) /\ Len(cc) = Len(c) /\ bb \in Seq(S)
      /\ LayoutAndBenchOK(cc, bb) /\ People(cc, bb) = People(c, b)
  BY MovementSeatsEverybodyOnce
<1>2. NextRoundFair(c, won, b, mode, plays) = next \/
      NextRoundFair(c, won, b, mode, plays) = TradePlaces(next, busy, waiting, plays)
  BY DEF NextRoundFair, EvenOut
<1>3. next = Night(cc, bb)
  <2>1. \E x, y : next = Night(x, y)
    BY DEF NextRound
  <2>2. PICK x, y : next = Night(x, y) BY <2>1
  <2>3. next = [courts |-> x \o <<>>, bench |-> y \o <<>>] BY <2>2 DEF Night
  <2>4. next = [courts |-> cc, bench |-> bb] BY <2>3
  <2>5. cc \o <<>> = cc /\ bb \o <<>> = bb BY <1>1, ConcatEmptySeq DEF Layouts
  <2> HIDE DEF next
  <2> QED BY <2>4, <2>5 DEF Night
<1>4. m \in 0..2 /\ m <= Len(bb)
  <2> Byes(bb) \in 0..2 /\ Byes(bb) <= Len(bb) BY <1>1, ByesIs
  <2> QED BY DEF Byes
<1> HIDE DEF next, cc, bb, m
<1>5. busy \in [1..m -> SeatRefs(cc)] /\ IsInjective(busy)
  BY <1>1, <1>4, BusiestSeats
<1>6. IsInjective(bb) BY <1>1 DEF LayoutAndBenchOK
<1>7. waiting \in [1..m -> ToSet(bb)] /\ IsInjective(waiting)
  BY <1>1, <1>4, <1>6, RestedPlayers
<1> HIDE DEF busy, waiting
<1>8. /\ KeepsEverybody(TradePlaces(Night(cc, bb), busy, waiting, plays), S, cc, bb)
      /\ Trades(TradePlaces(Night(cc, bb), busy, waiting, plays), cc, bb, plays)
  BY <1>1, <1>4, <1>5, <1>7, TradeKeepsEverybody
<1>9. KeepsEverybody(next, S, c, b)
  BY <1>1 DEF KeepsEverybody, cc, bb
<1>10. KeepsEverybody(TradePlaces(next, busy, waiting, plays), S, c, b)
  BY <1>1, <1>3, <1>8 DEF KeepsEverybody
<1>11. Trades(next, cc, bb, plays)
  <2>1. next.courts = cc /\ next.bench = bb BY DEF cc, bb
  <2>2. Seated(cc) \cap ToSet(bb) = {} BY <1>1 DEF LayoutAndBenchOK
  <2> QED BY <2>1, <2>2 DEF Trades
<1> DEFINE fair == NextRoundFair(c, won, b, mode, plays)
<1>12. fair = next \/ fair = TradePlaces(Night(cc, bb), busy, waiting, plays)
  BY <1>2, <1>3
<1>13. KeepsEverybody(fair, S, c, b)
  BY <1>2, <1>9, <1>10
<1>14. Trades(fair, cc, bb, plays)
  <2> HIDE DEF fair
  <2> QED BY <1>8, <1>11, <1>12
<1> QED BY <1>13, <1>14 DEF fair, cc, bb, next

\* The movement and the equal-court-time pass together give everybody one
\* place again (engine.NextRoundFair).
THEOREM FairRoundSeatsEverybodyOnce ==
    ASSUME NEW S, NEW c \in Layouts(S), NEW b \in Seq(S), NEW won, NEW mode,
           NEW plays \in [S -> Nat], Len(c) # 0, LayoutAndBenchOK(c, b)
    PROVE  KeepsEverybody(NextRoundFair(c, won, b, mode, plays), S, c, b)
BY FairRoundTrades

\* A layout the engine accepts is never handed back as it was: whoever won on
\* court 1 changes seats there, and nobody trades back into their seat
\* (engine.NextRoundFair, sameLayout).
THEOREM LegalLayoutsMove ==
    ASSUME NEW S, NEW c \in Layouts(S), NEW b \in Seq(S), NEW won, NEW mode,
           NEW plays \in [S -> Nat], Len(c) # 0, LayoutAndBenchOK(c, b)
    PROVE  NextRoundFair(c, won, b, mode, plays).courts # c
<1> DEFINE cc == NextRound(c, won, b, mode).courts
           bb == NextRound(c, won, b, mode).bench
           fair == NextRoundFair(c, won, b, mode, plays)
           x  == WinnerSat(won[1], 1)
           w  == c[1][x]
<1>1. /\ cc \in Layouts(S) /\ Len(cc) = Len(c) /\ LayoutAndBenchOK(cc, bb)
  BY MovementSeatsEverybodyOnce
<1>2. cc[1][2] = Holder(c, b, SeatedFrom(won, Len(c), Byes(b), mode, 1, 2))
  <2>1. 1 \in 1..Len(c) /\ 2 \in 1..4 BY Seats
  <2> QED BY <2>1, NextSeats
<1>3. cc[1][2] = w
  BY <1>2 DEF SeatedFrom, Holder
<1>4. Trades(fair, cc, bb, plays)
  BY FairRoundTrades
<1>5. x \in 1..4 /\ x # 2
  BY DEF WinnerSat
<1> HIDE DEF cc, bb, fair, x
<1>6. <<1, x>> \in SeatRefs(cc) /\ <<1, 2>> \in SeatRefs(cc) /\ cc[1][2] \in Seated(cc)
  <2>1. 1 \in 1..Len(cc) BY <1>1, Seats
  <2>2. SeatRefs(cc) = (1..Len(cc)) \X (1..4) BY <1>1, Seats
  <2>3. cc[1][2] \in Seated(cc)
    <3>1. \A k \in 1..Len(cc), i \in 1..4 : cc[k][i] \in Seated(cc) BY <1>1, Seats
    <3> QED BY <2>1, <3>1
  <2> QED BY <1>5, <2>1, <2>2, <2>3
<1>7. cc[1][x] # w
  <2>1. \A s, t \in SeatRefs(cc) : cc[s[1]][s[2]] = cc[t[1]][t[2]] => s = t
    BY <1>1 DEF LayoutAndBenchOK
  <2>2. cc[1][x] = cc[1][2] => <<1, x>> = <<1, 2>>
    BY <1>6, <2>1
  <2> QED BY <1>3, <1>5, <2>2
<1>8. w \notin ToSet(bb)
  BY <1>1, <1>3, <1>6 DEF LayoutAndBenchOK
<1>9. fair.courts[1][x] \in ToSet(bb) \cup {cc[1][x]}
  BY <1>4, <1>6 DEF Trades
<1>10. fair.courts[1][x] # c[1][x]
  BY <1>7, <1>8, <1>9 DEF w
<1> QED BY <1>10 DEF fair

-----------------------------------------------------------------------------
(* Where the rule sends people.                                            *)

\* The courts for which the winners and the losers of court k are bound.
WinnersTo(k) == IF k = 1 THEN 1 ELSE k - 1
LosersTo(k, n, mode) ==
    IF mode = "stay" /\ n > 1 THEN IF k = 1 THEN n ELSE k ELSE Least(k + 1, n)

LEMMA RuleOfPlaces ==
    ASSUME NEW won, NEW n \in Nat \ {0}, NEW byes \in 0..2, NEW mode,
           NEW m \in 1..n, NEW i \in 1..4, NEW k \in 1..n, NEW j \in 1..2
    PROVE  /\ SeatedFrom(won, n, byes, mode, m, i) = <<k, WinnerSat(won[k], j)>> => m = WinnersTo(k)
           /\ SeatedFrom(won, n, byes, mode, m, i) = <<k, LoserSat(won[k], j)>>
                 => m = LosersTo(k, n, mode)
<1> DEFINE h == IF i <= 2 THEN 1 ELSE 2
           l == LosersFrom(m, n, mode)
           F == SeatedFrom(won, n, byes, mode, m, i)
<1>1. h \in 1..2 /\ (m # 1 => l \in 1..(n - 1))
  <2>1. \A x \in 2..n : LosersFrom(x, n, mode) \in 1..(n - 1)
    BY LosersComeFrom
  <2>2. m # 1 => m \in 2..n OBVIOUS
  <2> QED BY <2>1, <2>2
<1>2. \A x : \A d, e \in 1..2 : WinnerSat(x, d) # LoserSat(x, e)
  BY AllSat
<1>3. F = IF i = 1 \/ i = 3
          THEN IF m < n THEN <<m + 1, WinnerSat(won[m + 1], h)>>
               ELSE IF h <= byes THEN <<0, h>> ELSE <<n, LoserSat(won[n], h)>>
          ELSE IF m = 1 THEN <<1, WinnerSat(won[1], h)>>
               ELSE <<l, LoserSat(won[l], h)>>
  BY DEF SeatedFrom
<1>4. m # 1 => l = IF mode = "stay" THEN IF m = n THEN 1 ELSE m ELSE m - 1
  BY DEF LosersFrom
<1> HIDE DEF F, h, l
<1>5. \/ m < n /\ F = <<m + 1, WinnerSat(won[m + 1], h)>>
      \/ m = n /\ F = <<0, h>>
      \/ m = n /\ F = <<n, LoserSat(won[n], h)>>
      \/ m = 1 /\ F = <<1, WinnerSat(won[1], h)>>
      \/ m # 1 /\ F = <<l, LoserSat(won[l], h)>>
  BY <1>3
<1>6. ASSUME F = <<k, WinnerSat(won[k], j)>> PROVE m = WinnersTo(k)
  BY <1>1, <1>2, <1>5, <1>6 DEF WinnersTo
<1>7. ASSUME F = <<k, LoserSat(won[k], j)>> PROVE m = LosersTo(k, n, mode)
  <2>1. (m = n /\ k = n) \/ (m # 1 /\ k = l)
    BY <1>1, <1>2, <1>5, <1>7
  <2> QED BY <1>1, <1>4, <2>1 DEF LosersTo, Least
<1> QED BY <1>6, <1>7 DEF F

\* Places of partners.
Mates(p, q) == p[1] = q[1] /\ (p[2] <= 2 <=> q[2] <= 2)

LEMMA MatesPart ==
    ASSUME NEW won, NEW n \in Nat \ {0}, NEW mode, NEW m \in 1..n, NEW i \in {1, 3}
    PROVE  ~Mates(SeatedFrom(won, n, 0, mode, m, i), SeatedFrom(won, n, 0, mode, m, i + 1))
<1> DEFINE h == IF i <= 2 THEN 1 ELSE 2
           l == LosersFrom(m, n, mode)
           F == SeatedFrom(won, n, 0, mode, m, i)
           G == SeatedFrom(won, n, 0, mode, m, i + 1)
<1>1. h \in 1..2 /\ (m # 1 => l \in 1..(n - 1))
  <2>1. \A x \in 2..n : LosersFrom(x, n, mode) \in 1..(n - 1)
    BY LosersComeFrom
  <2>2. m # 1 => m \in 2..n OBVIOUS
  <2> QED BY <2>1, <2>2
<1>2. F = IF m < n THEN <<m + 1, WinnerSat(won[m + 1], h)>> ELSE <<n, LoserSat(won[n], h)>>
  BY <1>1 DEF SeatedFrom
<1>3. G = IF m = 1 THEN <<1, WinnerSat(won[1], h)>> ELSE <<l, LoserSat(won[l], h)>>
  <2>1. i + 1 \in {2, 4} /\ (IF i + 1 <= 2 THEN 1 ELSE 2) = h OBVIOUS
  <2> HIDE DEF h
  <2> QED BY <2>1 DEF SeatedFrom
<1>4. m # 1 => l # m + 1
  BY DEF LosersFrom
<1>5. \A x : (WinnerSat(x, h) <= 2) # (LoserSat(x, h) <= 2)
  BY <1>1 DEF WinnerSat, LoserSat
<1> HIDE DEF F, G, h, l
<1>6. ASSUME m < n /\ m = 1 PROVE ~Mates(F, G)
  BY <1>2, <1>3, <1>6 DEF Mates
<1>7. ASSUME m < n /\ m # 1 PROVE ~Mates(F, G)
  BY <1>1, <1>2, <1>3, <1>4, <1>7 DEF Mates
<1>8. ASSUME m = n /\ m = 1 PROVE ~Mates(F, G)
  <2>1. F = <<1, LoserSat(won[1], h)>> /\ G = <<1, WinnerSat(won[1], h)>>
    BY <1>2, <1>3, <1>8
  <2> QED BY <1>5, <2>1 DEF Mates
<1>9. ASSUME m = n /\ m # 1 PROVE ~Mates(F, G)
  <2>1. F[1] = n /\ G[1] = l /\ l # n
    BY <1>1, <1>2, <1>3, <1>9
  <2> QED BY <2>1 DEF Mates
<1>10. ~Mates(F, G) BY <1>6, <1>7, <1>8, <1>9
<1> QED BY <1>10 DEF F, G

\* The bottom court's losers who give way to the bench.
SteppedOff(c, won, b) == {Losers(c[Len(c)], won[Len(c)])[j] : j \in 1..Byes(b)}

LEMMA WhoStepsOff ==
    ASSUME NEW S, NEW c \in Layouts(S), NEW b \in Seq(S), NEW won, NEW mode,
           Len(c) # 0, LayoutAndBenchOK(c, b)
    PROVE  Seated(c) \cap ToSet(NextRound(c, won, b, mode).bench) \subseteq SteppedOff(c, won, b)
<1> DEFINE n == Len(c)
           w == Len(b)
           byes == Byes(b)
           bb == NextRound(c, won, b, mode).bench
<1>1. /\ bb \in Seq(S) /\ Len(bb) = w
      /\ \A j \in 1..w : bb[j] = Holder(c, b, QueuedFrom(won, n, byes, w, j))
  BY NextSeats
<1>2. n \in Nat \ {0} /\ w \in Nat /\ byes \in 0..2 /\ byes <= w /\ DOMAIN b = 1..w
  BY ByesIs, Seats
<1>3. Seated(c) \cap ToSet(b) = {}
  BY DEF LayoutAndBenchOK
<1>4. SteppedOff(c, won, b) = {Losers(c[n], won[n])[j] : j \in 1..byes}
  BY DEF SteppedOff
<1> HIDE DEF n, w, byes, bb
<1>5. ASSUME NEW p \in Seated(c), p \in ToSet(bb) PROVE p \in SteppedOff(c, won, b)
  <2>1. PICK j \in 1..w : p = Holder(c, b, QueuedFrom(won, n, byes, w, j))
    <3>1. DOMAIN bb = 1..w BY <1>1
    <3> QED BY <1>1, <1>5, <3>1 DEF ToSet
  <2>2. CASE j <= w - byes
    <3>1. QueuedFrom(won, n, byes, w, j) = <<0, j + byes>> /\ j + byes \in 1..w
      BY <1>2, <2>2 DEF QueuedFrom
    <3>2. p = b[j + byes] BY <2>1, <3>1 DEF Holder
    <3>3. p \in ToSet(b) BY <1>2, <3>1, <3>2 DEF ToSet
    <3> QED BY <1>3, <1>5, <3>3
  <2>3. CASE ~(j <= w - byes)
    <3> DEFINE d == j - (w - byes)
    <3>1. QueuedFrom(won, n, byes, w, j) = <<n, LoserSat(won[n], d)>> /\ d \in 1..byes /\ d \in 1..2
      BY <1>2, <2>3 DEF QueuedFrom
    <3> HIDE DEF d
    <3>2. p = c[n][LoserSat(won[n], d)] BY <1>2, <2>1, <3>1 DEF Holder
    <3>3. p = Losers(c[n], won[n])[d] BY <3>1, <3>2, WhoSat
    <3> QED BY <1>4, <3>1, <3>3
  <2> QED BY <2>2, <2>3
<1> QED BY <1>5 DEF bb

\* Whoever plays on went where the rule says.
FollowsRule(courts, c, won, b, mode) ==
    \A k \in 1..Len(c), j \in 1..2, m \in 1..Len(c), i \in 1..4 :
        /\ courts[m][i] = Winners(c[k], won[k])[j] => m = WinnersTo(k)
        /\ courts[m][i] = Losers(c[k], won[k])[j] =>
              m = LosersTo(k, Len(c), mode) \/ courts[m][i] \in SteppedOff(c, won, b)

\* Somebody of the last round sits where the movement put them, or stepped off.
LEMMA SitsWhereMoved ==
    ASSUME NEW S, NEW c \in Layouts(S), NEW b \in Seq(S), NEW won, NEW mode,
           NEW plays \in [S -> Nat], Len(c) # 0, LayoutAndBenchOK(c, b),
           NEW k \in 1..Len(c), NEW x \in 1..4, NEW m \in 1..Len(c), NEW i \in 1..4,
           NextRoundFair(c, won, b, mode, plays).courts[m][i] = c[k][x],
           c[k][x] \notin SteppedOff(c, won, b)
    PROVE  SeatedFrom(won, Len(c), Byes(b), mode, m, i) = <<k, x>>
<1> DEFINE n == Len(c)
           w == Len(b)
           byes == Byes(b)
           cc == NextRound(c, won, b, mode).courts
           bb == NextRound(c, won, b, mode).bench
           fair == NextRoundFair(c, won, b, mode, plays)
           f == SeatedFrom(won, n, byes, mode, m, i)
<1>1. /\ cc \in Layouts(S) /\ Len(cc) = n
      /\ \A y \in 1..n, z \in 1..4 : cc[y][z] = Holder(c, b, SeatedFrom(won, n, byes, mode, y, z))
  BY NextSeats
<1>2. n \in Nat \ {0} /\ w \in Nat /\ byes \in 0..2 /\ byes <= w /\ DOMAIN b = 1..w
      /\ SeatRefs(c) = (1..n) \X (1..4)
  BY ByesIs, Seats
<1>3. c[k][x] \in Seated(c) /\ c[k][x] \notin ToSet(bb)
  BY Seats, WhoStepsOff
<1>4. fair.courts[m][i] \in ToSet(bb) \cup {cc[m][i]}
  <2>1. Trades(fair, cc, bb, plays) BY FairRoundTrades
  <2>2. <<m, i>> \in SeatRefs(cc)
    <3> SeatRefs(cc) = (1..n) \X (1..4) BY <1>1, Seats
    <3> QED OBVIOUS
  <2> HIDE DEF fair, cc, bb
  <2>3. fair.courts[<<m, i>>[1]][<<m, i>>[2]] \in ToSet(bb) \cup {cc[<<m, i>>[1]][<<m, i>>[2]]}
    BY <2>1, <2>2 DEF Trades
  <2> QED BY <2>3
<1>5. cc[m][i] = c[k][x]
  BY <1>3, <1>4
<1>6. Holder(c, b, f) = Holder(c, b, <<k, x>>)
  <2>1. Holder(c, b, f) = c[k][x] BY <1>1, <1>5
  <2>2. Holder(c, b, <<k, x>>) = c[k][x] BY <1>2 DEF Holder
  <2> QED BY <2>1, <2>2
<1> HIDE DEF n, w, byes
<1>7. f \in ((1..n) \X (1..4)) \cup ({0} \X (1..w))
  BY <1>2, FilledFromPlaces DEF n
<1> HIDE DEF f
<1>8. f \in Places(c, b) /\ <<k, x>> \in Places(c, b)
  <2>1. <<k, x>> \in (1..n) \X (1..4) BY DEF n
  <2> QED BY <1>2, <1>7, <2>1 DEF Places
<1>9. Sound(c, b)
  BY SoundMeans
<1>10. f = <<k, x>>
  BY <1>6, <1>8, <1>9 DEF Sound
<1> QED BY <1>10 DEF f, n, byes

\* Winners go up one court, losers down one or nowhere, and the equal-court-time
\* pass moves nobody who plays on (engine.NextRound, NextRoundFair).
THEOREM MovementFollowsTheRule ==
    ASSUME NEW S, NEW c \in Layouts(S), NEW b \in Seq(S), NEW won, NEW mode,
           NEW plays \in [S -> Nat], Len(c) # 0, LayoutAndBenchOK(c, b)
    PROVE  FollowsRule(NextRoundFair(c, won, b, mode, plays).courts, c, won, b, mode)
<1> DEFINE n == Len(c)
           fair == NextRoundFair(c, won, b, mode, plays).courts
           F(m, i) == SeatedFrom(won, n, Byes(b), mode, m, i)
<1>1. n \in Nat \ {0} /\ Byes(b) \in 0..2
  BY ByesIs, Seats
<1>2. ASSUME NEW k \in 1..n, NEW x \in 1..4, NEW m \in 1..n, NEW i \in 1..4,
             fair[m][i] = c[k][x], c[k][x] \notin SteppedOff(c, won, b)
      PROVE  F(m, i) = <<k, x>>
  <2>1. NextRoundFair(c, won, b, mode, plays).courts[m][i] = c[k][x]
    BY <1>2 DEF fair
  <2>2. k \in 1..Len(c) /\ m \in 1..Len(c)
    BY <1>2 DEF n
  <2> HIDE DEF fair, n, F
  <2>3. SeatedFrom(won, Len(c), Byes(b), mode, m, i) = <<k, x>>
    BY <1>2, <2>1, <2>2, SitsWhereMoved, SMTT(60)
  <2> QED BY <2>3 DEF F, n
<1>3. \A k \in 1..n, x \in 1..4 :
         Sound(c, b) /\ <<k, x>> \in Places(c, b) /\ Holder(c, b, <<k, x>>) = c[k][x]
  <2>1. Sound(c, b) BY SoundMeans
  <2>2. SeatRefs(c) = (1..n) \X (1..4) BY Seats
  <2> HIDE DEF n
  <2>3. TAKE k \in 1..n, x \in 1..4
  <2>4. k # 0 BY <1>1
  <2>5. <<k, x>> \in Places(c, b) BY <2>2 DEF Places
  <2> QED BY <2>1, <2>4, <2>5 DEF Holder
<1> HIDE DEF fair, n
<1>4. ASSUME NEW k \in 1..n, NEW j \in 1..2 PROVE c[k][WinnerSat(won[k], j)] \notin SteppedOff(c, won, b)
  <2> SUFFICES ASSUME c[k][WinnerSat(won[k], j)] \in SteppedOff(c, won, b) PROVE FALSE
    OBVIOUS
  <2>1. PICK d \in 1..Byes(b) : c[k][WinnerSat(won[k], j)] = Losers(c[n], won[n])[d]
    BY DEF SteppedOff, n
  <2>2. d \in 1..2 /\ n \in 1..n BY <1>1
  <2>3. Losers(c[n], won[n])[d] = c[n][LoserSat(won[n], d)]
        /\ LoserSat(won[n], d) \in 1..4 /\ WinnerSat(won[k], j) \in 1..4
    BY <2>2, WhoSat
  <2>4. Holder(c, b, <<k, WinnerSat(won[k], j)>>) = Holder(c, b, <<n, LoserSat(won[n], d)>>)
    BY <1>3, <2>1, <2>2, <2>3
  <2>5. <<k, WinnerSat(won[k], j)>> = <<n, LoserSat(won[n], d)>>
    BY <1>3, <2>2, <2>3, <2>4 DEF Sound
  <2>6. k = n /\ WinnerSat(won[n], j) = LoserSat(won[n], d) BY <2>5
  <2> QED BY <2>2, <2>6, AllSat
<1>5. ASSUME NEW k \in 1..n, NEW j \in 1..2, NEW m \in 1..n, NEW i \in 1..4,
             fair[m][i] = Winners(c[k], won[k])[j]
      PROVE  m = WinnersTo(k)
  <2>1. fair[m][i] = c[k][WinnerSat(won[k], j)] /\ WinnerSat(won[k], j) \in 1..4
    BY <1>5, WhoSat
  <2>2. F(m, i) = <<k, WinnerSat(won[k], j)>>
    BY <1>2, <1>4, <2>1
  <2> QED BY <1>1, <2>2, RuleOfPlaces
<1>6. ASSUME NEW k \in 1..n, NEW j \in 1..2, NEW m \in 1..n, NEW i \in 1..4,
             fair[m][i] = Losers(c[k], won[k])[j]
      PROVE  m = LosersTo(k, n, mode) \/ fair[m][i] \in SteppedOff(c, won, b)
  <2>1. fair[m][i] = c[k][LoserSat(won[k], j)] /\ LoserSat(won[k], j) \in 1..4
    BY <1>6, WhoSat
  <2>2. fair[m][i] \in SteppedOff(c, won, b) \/ F(m, i) = <<k, LoserSat(won[k], j)>>
    BY <1>2, <2>1
  <2> QED BY <1>1, <2>2, RuleOfPlaces
<1> QED BY <1>5, <1>6 DEF FollowsRule, fair, n

\* Partners of one court.
PairAt(courts, k, x) == {courts[k][x], courts[k][x + 1]}
Pairs(courts) == {PairAt(courts, k, x) : k \in 1..Len(courts), x \in {1, 3}}

NobodyWaits(b) == Len(b) = 0

\* While nobody waits, everybody has a new partner (engine.NextRound).
THEOREM EverybodyHasANewPartner ==
    ASSUME NEW S, NEW c \in Layouts(S), NEW b \in Seq(S), NobodyWaits(b),
           NEW won, NEW mode, NEW plays, Len(c) # 0, LayoutAndBenchOK(c, b)
    PROVE  LET fair == NextRoundFair(c, won, b, mode, plays)
           IN  /\ Pairs(c) \cap Pairs(fair.courts) = {}
               /\ fair.bench = <<>>
<1> DEFINE n  == Len(c)
           w  == Len(b)
           byes == Byes(b)
           cc == NextRound(c, won, b, mode).courts
           bb == NextRound(c, won, b, mode).bench
<1>0. byes = 0 /\ w = 0 /\ DOMAIN b = {}
  BY DEF NobodyWaits, Byes, Least
<1>1. /\ cc \in Layouts(S) /\ Len(cc) = n /\ bb \in Seq(S) /\ Len(bb) = w
      /\ \A m \in 1..n, i \in 1..4 :
            cc[m][i] = Holder(c, b, SeatedFrom(won, n, byes, mode, m, i))
  BY NextSeats
<1> DEFINE F(m, i) == SeatedFrom(won, n, byes, mode, m, i)
<1>2. /\ NextRoundFair(c, won, b, mode, plays).courts = cc
      /\ NextRoundFair(c, won, b, mode, plays).bench = <<>>
  <2>1. bb = <<>> BY <1>0, <1>1
  <2> QED BY <2>1 DEF NextRoundFair
<1>3. n \in Nat \ {0} /\ SeatRefs(c) = (1..n) \X (1..4) /\ Sound(c, b)
  BY <1>0, Seats, SoundMeans
<1> HIDE DEF cc, bb, n, w, byes
<1>4. Places(c, b) = (1..n) \X (1..4)
  BY <1>0, <1>3 DEF Places
<1>5. \A m \in 1..n, i \in 1..4 : F(m, i) \in Places(c, b)
  <2>1. ASSUME NEW m \in 1..n, NEW i \in 1..4
        PROVE  F(m, i) \in ((1..n) \X (1..4)) \cup ({0} \X (1..w))
    <3>1. w \in Nat /\ byes \in 0..2 /\ byes <= w BY <1>0
    <3> HIDE DEF F
    <3>2. SeatedFrom(won, n, byes, mode, m, i) \in ((1..n) \X (1..4)) \cup ({0} \X (1..w))
      BY <1>3, <3>1, FilledFromPlaces
    <3> QED BY <3>2 DEF F
  <2>2. ((1..n) \X (1..4)) \cup ({0} \X (1..w)) = Places(c, b)
    BY <1>0, <1>4
  <2> HIDE DEF F
  <2> QED BY <2>1, <2>2
<1>6. \A k \in 1..n, x \in 1..4 : c[k][x] = Holder(c, b, <<k, x>>) /\ <<k, x>> \in Places(c, b)
  BY <1>3, <1>4 DEF Holder
<1>7. \A p, q \in Places(c, b) : Holder(c, b, p) = Holder(c, b, q) => p = q
  BY <1>3 DEF Sound
<1>8. ASSUME NEW k \in 1..n, NEW x \in {1, 3}, NEW m \in 1..n, NEW i \in {1, 3},
             PairAt(c, k, x) = PairAt(cc, m, i)
      PROVE  FALSE
  <2>1. x \in 1..4 /\ x + 1 \in 1..4 /\ i \in 1..4 /\ i + 1 \in 1..4
    OBVIOUS
  <2>2. ~Mates(F(m, i), F(m, i + 1))
    <3>1. ~Mates(SeatedFrom(won, n, 0, mode, m, i), SeatedFrom(won, n, 0, mode, m, i + 1))
      BY <1>3, MatesPart
    <3> QED BY <1>0, <3>1
  <2>3. Mates(<<k, x>>, <<k, x + 1>>) /\ Mates(<<k, x + 1>>, <<k, x>>)
    BY DEF Mates
  <2> HIDE DEF F
  <2>4. \/ c[k][x] = cc[m][i] /\ c[k][x + 1] = cc[m][i + 1]
        \/ c[k][x] = cc[m][i + 1] /\ c[k][x + 1] = cc[m][i]
    BY <1>8 DEF PairAt
  <2>5. /\ c[k][x] = Holder(c, b, <<k, x>>) /\ c[k][x + 1] = Holder(c, b, <<k, x + 1>>)
        /\ cc[m][i] = Holder(c, b, F(m, i)) /\ cc[m][i + 1] = Holder(c, b, F(m, i + 1))
        /\ {<<k, x>>, <<k, x + 1>>, F(m, i), F(m, i + 1)} \subseteq Places(c, b)
    <3>1. c[k][x] = Holder(c, b, <<k, x>>) /\ <<k, x>> \in Places(c, b)
      BY <1>6, <2>1
    <3>2. c[k][x + 1] = Holder(c, b, <<k, x + 1>>) /\ <<k, x + 1>> \in Places(c, b)
      BY <1>6, <2>1
    <3>3. \A z \in 1..4 : cc[m][z] = Holder(c, b, F(m, z)) /\ F(m, z) \in Places(c, b)
      BY <1>1, <1>5 DEF F
    <3>4. /\ cc[m][i] = Holder(c, b, F(m, i)) /\ F(m, i) \in Places(c, b)
          /\ cc[m][i + 1] = Holder(c, b, F(m, i + 1)) /\ F(m, i + 1) \in Places(c, b)
      BY <2>1, <3>3
    <3> QED BY <3>1, <3>2, <3>4
  <2>6. \/ <<k, x>> = F(m, i) /\ <<k, x + 1>> = F(m, i + 1)
        \/ <<k, x>> = F(m, i + 1) /\ <<k, x + 1>> = F(m, i)
    BY <1>7, <2>4, <2>5
  <2> QED BY <2>2, <2>3, <2>6
<1>9. ASSUME NEW p \in Pairs(c) \cap Pairs(cc) PROVE FALSE
  <2>1. PICK k \in 1..n, x \in {1, 3} : p = PairAt(c, k, x)
    BY DEF Pairs, n
  <2>2. PICK m \in 1..n, i \in {1, 3} : p = PairAt(cc, m, i)
    BY <1>1 DEF Pairs
  <2> QED BY <1>8, <2>1, <2>2
<1> QED BY <1>2, <1>9

\* Nobody who keeps their place in the movement is benched unless somebody who
\* had played strictly less, and was to wait, comes on (engine.NextRoundFair).
BenchedForTheRested(fair, c, won, b, plays) ==
    \A p \in (Seated(c) \cap ToSet(fair.bench)) \ SteppedOff(c, won, b) :
      \E q \in Seated(fair.courts) :
         plays[q] < plays[p] /\ q \notin Seated(c) \ SteppedOff(c, won, b)

THEOREM BenchedOnlyForWhoPlayedLess ==
    ASSUME NEW S, NEW c \in Layouts(S), NEW b \in Seq(S), NEW won, NEW mode,
           NEW plays \in [S -> Nat], Len(c) # 0, LayoutAndBenchOK(c, b)
    PROVE  BenchedForTheRested(NextRoundFair(c, won, b, mode, plays), c, won, b, plays)
<1> DEFINE next == NextRound(c, won, b, mode)
           fair == NextRoundFair(c, won, b, mode, plays)
<1>1. Trades(fair, next.courts, next.bench, plays)
  BY FairRoundTrades
<1>2. Seated(c) \cap ToSet(next.bench) \subseteq SteppedOff(c, won, b)
  BY WhoStepsOff
<1>3. Seated(c) \subseteq Seated(next.courts) \cup ToSet(next.bench)
  BY MovementSeatsEverybodyOnce DEF People
<1> HIDE DEF next, fair
<1>4. ASSUME NEW p \in (Seated(c) \cap ToSet(fair.bench)) \ SteppedOff(c, won, b)
      PROVE  \E q \in Seated(fair.courts) :
                plays[q] < plays[p] /\ q \notin Seated(c) \ SteppedOff(c, won, b)
  <2>1. p \in Seated(next.courts) \cap ToSet(fair.bench)
    BY <1>2, <1>3
  <2>2. PICK q \in Seated(fair.courts) \cap ToSet(next.bench) : OwedCourtTime(plays[q], plays[p])
    BY <1>1, <2>1 DEF Trades
  <2>3. q \notin Seated(c) \ SteppedOff(c, won, b)
    BY <1>2
  <2> QED BY <2>2, <2>3 DEF OwedCourtTime
<1> QED BY <1>4 DEF BenchedForTheRested, fair

-----------------------------------------------------------------------------
(* Those who left.                                                         *)

\* Seats without anybody who is there, and what fills them.
Vacant(c, left) == {s \in SeatRefs(c) : c[s[1]][s[2]] \in left \cup {Blank}}

BottomUp(s, t) == s[1] > t[1] \/ (s[1] = t[1] /\ s[2] < t[2])

Turn(c, left, s) == 1 + Cardinality({t \in Vacant(c, left) : BottomUp(t, s)})

Takes(c, b, left) == Least(Cardinality(Vacant(c, left)), Len(b))

Refilled(c, b, left) ==
    LET Seat(s) == IF s \in Vacant(c, left) /\ Turn(c, left, s) <= Takes(c, b, left)
                   THEN b[Turn(c, left, s)]
                   ELSE c[s[1]][s[2]]
    IN  [k \in DOMAIN c |-> Court(LAMBDA i : Seat(<<k, i>>))]

Waiting(c, b, left) == SubSeq(b, Takes(c, b, left) + 1, Len(b))

\* Everybody of the people who is not of left has one place, and nobody else.
Accommodates(c, b, people, left) ==
    /\ LayoutAndBenchOK(c, b)
    /\ People(c, b) \subseteq people /\ people \ left \subseteq People(c, b)

LEMMA SeatsFinite ==
    ASSUME NEW S, NEW c \in Layouts(S)
    PROVE  IsFiniteSet(SeatRefs(c))
<1>1. Len(c) \in Nat /\ SeatRefs(c) = (1..Len(c)) \X (1..4)
  BY Seats
<1>2. IsFiniteSet(1..Len(c)) /\ IsFiniteSet(1..4)
  <2> 1 \in Int /\ 4 \in Int /\ Len(c) \in Int BY <1>1
  <2> QED BY FS_Interval
<1> QED BY <1>1, <1>2, FS_Product

\* The vacant seats take their turns: one each, from the first to the last.
LEMMA TurnIsOnce ==
    ASSUME NEW S, NEW c \in Layouts(S), NEW left
    PROVE  LET v == Vacant(c, left)
           IN  /\ IsFiniteSet(v) /\ Cardinality(v) \in Nat /\ v \subseteq SeatRefs(c)
               /\ \A s \in v : Turn(c, left, s) \in 1..Cardinality(v)
               /\ \A s, t \in v : Turn(c, left, s) = Turn(c, left, t) => s = t
               /\ \A i \in 1..Cardinality(v) : \E s \in v : Turn(c, left, s) = i
<1> DEFINE v == Vacant(c, left)
           R == {z \in v \X v : BottomUp(z[1], z[2])}
           N == Cardinality(v)
<1>1. v \subseteq SeatRefs(c) /\ SeatRefs(c) = (1..Len(c)) \X (1..4) /\ Len(c) \in Nat
  BY Seats DEF Vacant
<1>2. IsFiniteSet(v) /\ N \in Nat
  BY <1>1, SeatsFinite, FS_Subset, FS_CardinalityType
<1>3. \A s \in v : s[1] \in Nat /\ s[2] \in Nat /\ s = <<s[1], s[2]>>
  BY <1>1
<1>4. \A x, y \in v : <<x, y>> \in R <=> BottomUp(x, y)
  OBVIOUS
<1>5. \A x \in v : Turn(c, left, x) = 1 + Cardinality({t \in v : BottomUp(t, x)})
  BY DEF Turn
<1> HIDE DEF R, v, N
<1>6. Orders(R, v)
  <2>1. \A x \in v : ~BottomUp(x, x) BY <1>3 DEF BottomUp
  <2>2. \A x, y, z \in v : BottomUp(x, y) /\ BottomUp(y, z) => BottomUp(x, z)
    BY <1>3 DEF BottomUp
  <2>3. \A x, y \in v : x = y \/ BottomUp(x, y) \/ BottomUp(y, x)
    BY <1>3 DEF BottomUp
  <2> QED BY <1>4, <2>1, <2>2, <2>3 DEF Orders
<1>7. ASSUME NEW x \in v
      PROVE  /\ Turn(c, left, x) = 1 + Cardinality(Before(R, v, x))
             /\ Cardinality(Before(R, v, x)) \in 0..(N - 1)
  <2>1. Before(R, v, x) = {t \in v : BottomUp(t, x)} BY <1>4 DEF Before
  <2>2. Cardinality(Before(R, v, x)) \in 0..(N - 1)
    BY <1>2, <1>6, SomebodyIsNth DEF N
  <2> QED BY <1>5, <2>1, <2>2
<1>8. ASSUME NEW x \in v PROVE Turn(c, left, x) \in 1..N
  BY <1>2, <1>7
<1>9. ASSUME NEW x \in v, NEW y \in v, Turn(c, left, x) = Turn(c, left, y) PROVE x = y
  <2>1. Cardinality(Before(R, v, x)) = Cardinality(Before(R, v, y)) BY <1>2, <1>7, <1>9
  <2> QED BY <1>2, <1>6, <2>1, SomebodyIsNth
<1>10. ASSUME NEW i \in 1..N PROVE \E x \in v : Turn(c, left, x) = i
  <2>1. PICK x \in v : Cardinality(Before(R, v, x)) = i - 1
    BY <1>2, <1>6, SomebodyIsNth DEF N
  <2> QED BY <1>7, <2>1
<1> QED BY <1>1, <1>2, <1>8, <1>9, <1>10 DEF v, N

\* The queue steps up to the vacant seats.
LEMMA RefillKeeps ==
    ASSUME NEW S, NEW c \in Layouts(S), NEW b \in Seq(S), LayoutAndBenchOK(c, b),
           NEW left, ToSet(b) \cap left = {}
    PROVE  LET cc == Refilled(c, b, left)
               bb == Waiting(c, b, left)
           IN  /\ cc \in Layouts(S) /\ Len(cc) = Len(c) /\ bb \in Seq(S)
               /\ Accommodates(cc, bb, People(c, b), left)
               /\ ToSet(bb) \subseteq ToSet(b)
               /\ Takes(c, b, left) = Cardinality(Vacant(c, left))
                     => Seated(cc) \cap left = {}
<1> DEFINE n == Len(c)
           w == Len(b)
           v == Vacant(c, left)
           N == Cardinality(v)
           take == Takes(c, b, left)
           T(s) == Turn(c, left, s)
           Up(s) == s \in v /\ T(s) <= take
           Seat(s) == IF Up(s) THEN b[T(s)] ELSE c[s[1]][s[2]]
           cc == Refilled(c, b, left)
           bb == Waiting(c, b, left)
           from == [p \in Places(cc, bb) |->
                       IF p[1] = 0 THEN <<0, p[2] + take>>
                       ELSE IF Up(p) THEN <<0, T(p)>> ELSE p]
<1>1. /\ n \in Nat /\ DOMAIN c = 1..n /\ SeatRefs(c) = (1..n) \X (1..4)
      /\ \A k \in 1..n : c[k] \in [1..4 -> S]
      /\ w \in Nat /\ DOMAIN b = 1..w /\ \A j \in 1..w : b[j] \in S /\ b[j] \in ToSet(b)
  BY Seats DEF ToSet
<1>2. /\ N \in Nat /\ v \subseteq SeatRefs(c)
      /\ \A s \in v : T(s) \in 1..N
      /\ \A s, t \in v : T(s) = T(t) => s = t
      /\ \A i \in 1..N : \E s \in v : T(s) = i
  BY TurnIsOnce
<1>3. take \in 0..w /\ take <= N
  <2> DEFINE m == Cardinality(Vacant(c, left))
  <2>1. take = IF m < w THEN m ELSE w BY DEF Takes, Least
  <2>2. m \in Nat BY <1>2
  <2> HIDE DEF m, w, take
  <2> QED BY <1>1, <2>1, <2>2 DEF m
<1>4. cc = [k \in 1..n |-> <<Seat(<<k, 1>>), Seat(<<k, 2>>), Seat(<<k, 3>>), Seat(<<k, 4>>)>>]
  BY <1>1 DEF Refilled, Court
<1>5. bb = SubSeq(b, take + 1, w)
  BY DEF Waiting
<1>6. \A s \in SeatRefs(c) : c[s[1]][s[2]] \in left \cup {Blank} <=> s \in v
  BY DEF Vacant
<1> HIDE DEF v, N, take, T, cc, bb, n, w
<1>7. ASSUME NEW s \in SeatRefs(c) PROVE Seat(s) \in S
  <2>1. s[1] \in 1..n /\ s[2] \in 1..4 BY <1>1
  <2>2. c[s[1]][s[2]] \in S BY <1>1, <2>1
  <2>3. Up(s) => T(s) \in 1..w BY <1>1, <1>2, <1>3
  <2> QED BY <1>1, <2>2, <2>3
<1> HIDE DEF Seat
<1>8. /\ cc \in [1..n -> [1..4 -> S]]
      /\ \A k \in 1..n, i \in 1..4 : cc[k][i] = Seat(<<k, i>>)
  <2>1. ASSUME NEW k \in 1..n
        PROVE  /\ cc[k] \in [1..4 -> S]
               /\ \A i \in 1..4 : cc[k][i] = Seat(<<k, i>>)
    <3>1. cc[k] = <<Seat(<<k, 1>>), Seat(<<k, 2>>), Seat(<<k, 3>>), Seat(<<k, 4>>)>>
      BY <1>4
    <3>2. \A i \in 1..4 : Seat(<<k, i>>) \in S BY <1>1, <1>7
    <3> QED BY <3>1, <3>2
  <2>2. cc = [k \in 1..n |-> cc[k]] BY <1>4
  <2> QED BY <2>1, <2>2
<1>9. cc \in Layouts(S) /\ Len(cc) = n
  <2> DEFINE V == [1..4 -> S]
  <2> HIDE DEF V
  <2>1. cc \in [1..n -> V] BY <1>8 DEF V
  <2>2. cc \in Seq(V) /\ Len(cc) = n BY <1>1, <2>1, QueueOf
  <2> QED BY <2>2 DEF V, Layouts
<1>10. /\ bb \in Seq(S) /\ DOMAIN bb = 1..(w - take)
       /\ \A j \in 1..(w - take) : bb[j] = b[j + take]
  <2> DEFINE f == take + 1
  <2>1. f \in Nat \ {0} /\ w \in Nat /\ w <= Len(b) BY <1>1, <1>3 DEF w
  <2>2. w - f + 1 = w - take /\ \A j \in Nat : f + j - 1 = j + take BY <1>1, <1>3
  <2>3. bb = SubSeq(b, f, w) BY <1>5
  <2> HIDE DEF f
  <2>4. /\ bb \in Seq(S) /\ DOMAIN bb = 1..(w - f + 1)
        /\ \A j \in 1..(w - f + 1) : bb[j] = b[f + j - 1]
    BY <2>1, <2>3, SubSeqHolds
  <2> QED BY <2>2, <2>4
<1>11. /\ Places(cc, bb) = ((1..n) \X (1..4)) \cup ({0} \X (1..(w - take)))
       /\ Places(c, b) = ((1..n) \X (1..4)) \cup ({0} \X (1..w))
  <2>1. SeatRefs(cc) = (1..n) \X (1..4) BY <1>9, Seats
  <2> QED BY <1>1, <1>10, <2>1 DEF Places
<1>12. ASSUME NEW k \in 1..n, NEW i \in 1..4
       PROVE  LET p == <<k, i>>
              IN  /\ p \in Places(cc, bb) /\ p \in SeatRefs(c)
                  /\ Holder(cc, bb, p) = Seat(p)
                  /\ from[p] = (IF Up(p) THEN <<0, T(p)>> ELSE p)
                  /\ from[p] \in Places(c, b)
                  /\ Holder(c, b, from[p]) = Seat(p)
  <2> DEFINE p == <<k, i>>
  <2>1. p \in Places(cc, bb) /\ p \in SeatRefs(c) /\ p[1] = k /\ p[2] = i /\ k # 0
    BY <1>1, <1>11
  <2>2. Holder(cc, bb, p) = Seat(p) BY <1>8, <2>1 DEF Holder
  <2>3. from[p] = (IF Up(p) THEN <<0, T(p)>> ELSE p) BY <2>1
  <2>4. CASE Up(p)
    <3>1. T(p) \in 1..w
      <4> HIDE DEF p
      <4> QED BY <1>1, <1>2, <1>3, <2>4
    <3>2. from[p] = <<0, T(p)>> /\ <<0, T(p)>> \in Places(c, b) BY <1>11, <2>3, <2>4, <3>1
    <3>3. Holder(c, b, <<0, T(p)>>) = b[T(p)] BY DEF Holder
    <3>4. Seat(p) = b[T(p)] BY <2>4 DEF Seat
    <3> HIDE DEF from, p
    <3> QED BY <2>1, <2>2, <2>3, <3>2, <3>3, <3>4 DEF p
  <2>5. CASE ~Up(p)
    <3>1. from[p] = p /\ p \in Places(c, b) BY <1>11, <2>3, <2>5
    <3>2. Holder(c, b, p) = c[k][i] BY <2>1 DEF Holder
    <3>3. Seat(p) = c[k][i] BY <2>1, <2>5 DEF Seat
    <3> HIDE DEF from, p
    <3> QED BY <2>1, <2>2, <2>3, <3>1, <3>2, <3>3 DEF p
  <2> QED BY <2>4, <2>5
<1>13. ASSUME NEW j \in 1..(w - take)
       PROVE  /\ <<0, j>> \in Places(cc, bb)
              /\ from[<<0, j>>] = <<0, j + take>>
              /\ <<0, j + take>> \in Places(c, b)
              /\ Holder(cc, bb, <<0, j>>) = Holder(c, b, <<0, j + take>>)
  <2>1. <<0, j>> \in Places(cc, bb) /\ j + take \in 1..w BY <1>1, <1>3, <1>11
  <2>2. from[<<0, j>>] = <<0, j + take>> BY <2>1
  <2>3. <<0, j + take>> \in Places(c, b) BY <1>11, <2>1
  <2>4. Holder(cc, bb, <<0, j>>) = bb[j] BY DEF Holder
  <2>5. Holder(c, b, <<0, j + take>>) = b[j + take] BY DEF Holder
  <2> QED BY <1>10, <2>1, <2>2, <2>3, <2>4, <2>5
<1>14. \A p \in Places(cc, bb) : \/ \E k \in 1..n, i \in 1..4 : p = <<k, i>>
                                 \/ \E j \in 1..(w - take) : p = <<0, j>>
  BY <1>11
<1>15. DOMAIN from = Places(cc, bb) /\ from = [p \in Places(cc, bb) |-> from[p]]
  OBVIOUS
<1> HIDE DEF from
<1>16. from \in [Places(cc, bb) -> Places(c, b)]
  <2>1. ASSUME NEW p \in Places(cc, bb) PROVE from[p] \in Places(c, b)
    <3>1. CASE \E k \in 1..n, i \in 1..4 : p = <<k, i>> BY <1>12, <3>1
    <3>2. CASE \E j \in 1..(w - take) : p = <<0, j>> BY <1>13, <3>2
    <3> QED BY <1>14, <3>1, <3>2
  <2> QED BY <1>15, <2>1
<1>17. ASSUME NEW p \in Places(cc, bb), NEW q \in Places(cc, bb), from[p] = from[q]
       PROVE  p = q
  <2>1. ASSUME NEW k \in 1..n, NEW i \in 1..4, NEW l \in 1..n, NEW h \in 1..4,
               p = <<k, i>>, q = <<l, h>>
        PROVE  p = q
    <3>1. k # 0 /\ l # 0 BY <1>1
    <3>2. /\ from[p] = (IF Up(p) THEN <<0, T(p)>> ELSE <<k, i>>)
          /\ from[q] = (IF Up(q) THEN <<0, T(q)>> ELSE <<l, h>>)
      BY <1>12, <2>1
    <3>3. CASE Up(p) /\ Up(q)
      <4>1. <<0, T(p)>> = <<0, T(q)>> BY <1>17, <3>2, <3>3, Zenon
      <4> QED BY <1>2, <3>3, <4>1
    <3>4. CASE ~Up(p) /\ ~Up(q) BY <1>17, <2>1, <3>2, <3>4
    <3>5. CASE Up(p) /\ ~Up(q)
      <4>1. <<0, T(p)>> = <<l, h>> BY <1>17, <3>2, <3>5, Zenon
      <4> QED BY <3>1, <4>1
    <3>6. CASE ~Up(p) /\ Up(q)
      <4>1. <<k, i>> = <<0, T(q)>> BY <1>17, <3>2, <3>6, Zenon
      <4> QED BY <3>1, <4>1
    <3> QED BY <3>3, <3>4, <3>5, <3>6
  <2>2. ASSUME NEW x \in Places(cc, bb), NEW k \in 1..n, NEW i \in 1..4, NEW j \in 1..(w - take),
               x = <<k, i>>
        PROVE  from[x] # from[<<0, j>>]
    <3>1. k # 0 BY <1>1
    <3>2. from[x] = (IF Up(x) THEN <<0, T(x)>> ELSE <<k, i>>)
      BY <1>12, <2>2
    <3>3. from[<<0, j>>] = <<0, j + take>> BY <1>13
    <3>4. Up(x) => T(x) \in Nat /\ T(x) <= take BY <1>2
    <3>5. ~(j + take <= take) BY <1>1, <1>3
    <3> QED BY <3>1, <3>2, <3>3, <3>4, <3>5
  <2>3. ASSUME NEW j \in 1..(w - take), NEW e \in 1..(w - take), p = <<0, j>>, q = <<0, e>>
        PROVE  p = q
    <3>1. <<0, j + take>> = <<0, e + take>> BY <1>13, <1>17, <2>3
    <3>2. j + take = e + take BY <3>1
    <3>3. j = e BY <1>3, <3>2
    <3> QED BY <2>3, <3>3
  <2> QED BY <1>14, <1>17, <2>1, <2>2, <2>3
<1>18. Rearranges(from, c, b, cc, bb)
  <2>1. ASSUME NEW p \in Places(cc, bb)
        PROVE  Holder(cc, bb, p) = Holder(c, b, from[p])
    <3>1. CASE \E k \in 1..n, i \in 1..4 : p = <<k, i>> BY <1>12, <3>1
    <3>2. CASE \E j \in 1..(w - take) : p = <<0, j>> BY <1>13, <3>2
    <3> QED BY <1>14, <3>1, <3>2
  <2> QED BY <1>16, <1>17, <2>1 DEF Rearranges
<1>19. LayoutAndBenchOK(cc, bb) /\ People(cc, bb) \subseteq People(c, b)
  BY <1>9, <1>10, <1>18, MovedSound
<1>20. ASSUME NEW x \in People(c, b) \ left PROVE x \in People(cc, bb)
  <2>1. \A s \in SeatRefs(c) : Seat(s) \in Seated(cc)
    <3> SUFFICES ASSUME NEW s \in SeatRefs(c) PROVE Seat(s) \in Seated(cc) OBVIOUS
    <3>1. s[1] \in 1..n /\ s[2] \in 1..4 /\ s = <<s[1], s[2]>> BY <1>1
    <3>2. cc[s[1]][s[2]] = Seat(s) BY <1>8, <3>1
    <3>3. s \in SeatRefs(cc) BY <1>1, <1>9, Seats
    <3> QED BY <3>2, <3>3 DEF Seated
  <2>2. CASE x \in Seated(c)
    <3>1. PICK s \in SeatRefs(c) : x = c[s[1]][s[2]] BY <2>2 DEF Seated
    <3>2. x # Blank BY <2>2 DEF LayoutAndBenchOK
    <3>3. s \notin v BY <1>6, <1>20, <3>1, <3>2
    <3>4. Seat(s) = x BY <3>1, <3>3 DEF Seat
    <3> QED BY <2>1, <3>4 DEF People
  <2>3. CASE x \in ToSet(b)
    <3>1. PICK j \in 1..w : x = b[j] BY <1>1, <2>3 DEF ToSet
    <3>2. CASE j <= take
      <4>1. j \in 1..N BY <1>2, <1>3, <3>2
      <4>2. PICK s \in v : T(s) = j BY <1>2, <4>1
      <4>3. Seat(s) = b[j] /\ s \in SeatRefs(c) BY <1>2, <3>2, <4>2 DEF Seat
      <4> QED BY <2>1, <3>1, <4>3 DEF People
    <3>3. CASE ~(j <= take)
      <4>1. j - take \in 1..(w - take) /\ (j - take) + take = j BY <1>1, <1>3, <3>3
      <4>2. bb[j - take] = x /\ j - take \in DOMAIN bb BY <1>10, <3>1, <4>1
      <4> QED BY <4>2 DEF People, ToSet
    <3> QED BY <3>2, <3>3
  <2> QED BY <2>2, <2>3 DEF People
<1>21. ToSet(bb) \subseteq ToSet(b)
  <2>1. \A j \in 1..(w - take) : j + take \in 1..w BY <1>1, <1>3
  <2> QED BY <1>1, <1>10, <2>1 DEF ToSet
<1>22. ASSUME take = N PROVE Seated(cc) \cap left = {}
  <2>1. ASSUME NEW s \in SeatRefs(c) PROVE Seat(s) \notin left
    <3>1. CASE s \in v
      <4>1. T(s) \in 1..w /\ T(s) <= take BY <1>1, <1>2, <1>3, <1>22, <3>1
      <4>2. Seat(s) = b[T(s)] BY <3>1, <4>1 DEF Seat
      <4> QED BY <1>1, <4>1, <4>2
    <3>2. CASE s \notin v BY <1>6, <3>2 DEF Seat
    <3> QED BY <3>1, <3>2
  <2>2. ASSUME NEW s \in SeatRefs(cc) PROVE cc[s[1]][s[2]] \notin left
    <3>1. s \in SeatRefs(c) /\ s[1] \in 1..n /\ s[2] \in 1..4 /\ s = <<s[1], s[2]>>
      BY <1>1, <1>9, Seats
    <3>2. cc[s[1]][s[2]] = Seat(s) BY <1>8, <3>1
    <3> QED BY <2>1, <3>1, <3>2
  <2> QED BY <2>2 DEF Seated
<1> QED BY <1>9, <1>10, <1>19, <1>20, <1>21, <1>22 DEF Accommodates, n, cc, bb, take, N, v

\* One pass: the seats are refilled, or what is left of the bottom court
\* queues.
Filled(n, left) ==
    LET full == Night(Refilled(n.courts, n.bench, left), n.bench).courts
        rest == Waiting(n.courts, n.bench, left)
    IN  IF Takes(n.courts, n.bench, left) = Cardinality(Vacant(n.courts, left))
        THEN Night(full, rest)
        ELSE IF Len(full) > 1 THEN
             Night(Front(full), Without(Last(full), left \cup {Blank}) \o rest)
        ELSE Night(<<>>, Without(full[1], left \cup {Blank}) \o rest)

\* The nights a settling goes through: everybody of the people who is not of
\* left has one place, and nobody of left queues.
Settling(S, people, left) ==
    {n \in [courts : Layouts(S), bench : Seq(S)] :
        /\ Accommodates(n.courts, n.bench, people, left)
        /\ ToSet(n.bench) \cap left = {}}

\* The bottom court closes, and those of it who are here queue first.
LEMMA CloseBottom ==
    ASSUME NEW S, NEW c \in Layouts(S), NEW b \in Seq(S), LayoutAndBenchOK(c, b),
           Len(c) # 0, NEW left, ToSet(b) \cap left = {}
    PROVE  LET up    == SubSeq(c, 1, Len(c) - 1)
               queue == Without(c[Len(c)], left \cup {Blank}) \o b
           IN  /\ up \in Layouts(S) /\ Len(up) = Len(c) - 1 /\ queue \in Seq(S)
               /\ Accommodates(up, queue, People(c, b), left)
               /\ ToSet(queue) \cap left = {}
<1> DEFINE n  == Len(c)
           up == SubSeq(c, 1, n - 1)
           last == c[n]
           stay == Without(last, left \cup {Blank})
           queue == stay \o b
           V == [1..4 -> S]
<1>1. /\ n \in Nat \ {0} /\ SeatRefs(c) = (1..n) \X (1..4) /\ n \in 1..n
      /\ \A k \in 1..n : c[k] \in [1..4 -> S]
      /\ \A k \in 1..n, i \in 1..4 : c[k][i] \in Seated(c)
  BY Seats
<1>2. /\ Blank \notin Seated(c) \cup ToSet(b) /\ Seated(c) \cap ToSet(b) = {} /\ IsInjective(b)
      /\ \A s, t \in SeatRefs(c) : c[s[1]][s[2]] = c[t[1]][t[2]] => s = t
  BY DEF LayoutAndBenchOK
<1>3. /\ up \in Seq(V) /\ Len(up) = n - 1 /\ DOMAIN up = 1..(n - 1)
      /\ \A k \in 1..(n - 1) : up[k] = c[k]
  <2> DEFINE m == n - 1
  <2>1. c \in Seq(V) /\ 1 \in Nat \ {0} /\ m \in Nat /\ m <= Len(c) BY <1>1 DEF Layouts
  <2> HIDE DEF m, V
  <2>2. m - 1 + 1 = m /\ (IF 1 <= m THEN m - 1 + 1 ELSE 0) = m /\ \A k \in 1..m : 1 + k - 1 = k
    BY <2>1
  <2> DEFINE u == SubSeq(c, 1, m)
  <2>3. /\ u \in Seq(V) /\ Len(u) = IF 1 <= m THEN m - 1 + 1 ELSE 0
        /\ DOMAIN u = 1..(m - 1 + 1)
        /\ \A k \in 1..(m - 1 + 1) : u[k] = c[1 + k - 1]
    BY <2>1, SubSeqHolds
  <2> HIDE DEF u
  <2>4. /\ u \in Seq(V) /\ Len(u) = m /\ DOMAIN u = 1..m
        /\ \A k \in 1..m : u[k] = c[k]
    BY <2>2, <2>3
  <2> QED BY <2>4 DEF u, m
<1>4. /\ last \in Seq(S) /\ IsInjective(last) /\ ToSet(last) = {c[n][i] : i \in 1..4}
      /\ DOMAIN last = 1..4
  <2>1. last \in [1..4 -> S] BY <1>1
  <2>2. last \in Seq(S) /\ DOMAIN last = 1..4 BY <2>1, QueueOf
  <2>3. ASSUME NEW i \in 1..4, NEW j \in 1..4, last[i] = last[j] PROVE i = j
    <3>1. <<n, i>> \in SeatRefs(c) /\ <<n, j>> \in SeatRefs(c) BY <1>1
    <3>2. <<n, i>> = <<n, j>> BY <1>2, <2>3, <3>1
    <3> QED BY <3>2
  <2> QED BY <2>2, <2>3 DEF IsInjective, ToSet
<1> HIDE DEF last, up, n
<1>5. /\ stay \in Seq(S) /\ IsInjective(stay)
      /\ ToSet(stay) = ToSet(last) \ (left \cup {Blank})
  BY <1>4, WithoutHolds
<1>6. ToSet(last) \subseteq Seated(c)
  BY <1>1, <1>4
<1> HIDE DEF stay
<1>7. /\ queue \in Seq(S) /\ IsInjective(queue)
      /\ ToSet(queue) = ToSet(stay) \cup ToSet(b)
  <2>1. ToSet(stay) \cap ToSet(b) = {} BY <1>2, <1>5, <1>6
  <2> QED BY <1>2, <1>5, <2>1, ConcatHolds
<1> HIDE DEF queue
<1>8. up \in Layouts(S) BY <1>3 DEF Layouts
<1>9. SeatRefs(up) = (1..(n - 1)) \X (1..4)
  BY <1>3, <1>8, Seats
<1>10. \A s \in SeatRefs(up) : s \in SeatRefs(c) /\ s[1] # n /\ up[s[1]][s[2]] = c[s[1]][s[2]]
  BY <1>1, <1>3, <1>9
<1>11. Seated(up) \subseteq Seated(c) \ ToSet(last)
  <2>1. ASSUME NEW s \in SeatRefs(up), NEW i \in 1..4 PROVE up[s[1]][s[2]] # c[n][i]
    <3> DEFINE t == <<n, i>>
    <3>1. t \in SeatRefs(c) /\ t[1] = n /\ t[2] = i BY <1>1
    <3> HIDE DEF t
    <3> QED BY <1>2, <1>10, <3>1
  <2> QED BY <1>4, <1>10, <2>1 DEF Seated
<1>12. Seated(c) \subseteq Seated(up) \cup ToSet(last)
  <2> SUFFICES ASSUME NEW s \in SeatRefs(c) PROVE c[s[1]][s[2]] \in Seated(up) \cup ToSet(last)
    BY DEF Seated
  <2>1. s[1] \in 1..n /\ s[2] \in 1..4 BY <1>1
  <2>2. CASE s[1] = n BY <1>4, <2>1, <2>2
  <2>3. CASE s[1] # n
    <3>1. s \in SeatRefs(up) BY <1>1, <1>9, <2>1, <2>3
    <3> QED BY <1>10, <3>1 DEF Seated
  <2> QED BY <2>2, <2>3
<1>13. LayoutAndBenchOK(up, queue)
  <2>1. Blank \notin Seated(up) \cup ToSet(queue) BY <1>2, <1>5, <1>6, <1>7, <1>11
  <2>2. Seated(up) \cap ToSet(queue) = {} BY <1>2, <1>5, <1>7, <1>11
  <2>3. \A s, t \in SeatRefs(up) : up[s[1]][s[2]] = up[t[1]][t[2]] => s = t BY <1>2, <1>10
  <2> QED BY <1>7, <2>1, <2>2, <2>3 DEF LayoutAndBenchOK
<1>14. /\ People(up, queue) \subseteq People(c, b)
       /\ People(c, b) \ left \subseteq People(up, queue)
  BY <1>2, <1>5, <1>6, <1>7, <1>11, <1>12 DEF People
<1>15. ToSet(queue) \cap left = {}
  BY <1>5, <1>7
<1> QED BY <1>3, <1>7, <1>8, <1>13, <1>14, <1>15 DEF Accommodates, n, up, last, stay, queue

\* A pass keeps everybody who is here, and either fills the seats or closes
\* a court.
LEMMA FillSettles ==
    ASSUME NEW S, NEW people, NEW left, NEW n \in Settling(S, people, left),
           Vacant(n.courts, left) # {}
    PROVE  /\ Filled(n, left) \in Settling(S, people, left)
           /\ \/ Vacant(Filled(n, left).courts, left) = {}
                 /\ Len(Filled(n, left).courts) = Len(n.courts)
              \/ Len(Filled(n, left).courts) = Len(n.courts) - 1
<1> DEFINE c == n.courts
           b == n.bench
           cc == Refilled(c, b, left)
           bb == Waiting(c, b, left)
           take == Takes(c, b, left)
           v == Vacant(c, left)
<1>1. /\ c \in Layouts(S) /\ b \in Seq(S) /\ LayoutAndBenchOK(c, b) /\ ToSet(b) \cap left = {}
      /\ Accommodates(c, b, people, left)
  BY DEF Settling, Accommodates
<1> HIDE DEF c, b
<1>2. /\ cc \in Layouts(S) /\ Len(cc) = Len(c) /\ bb \in Seq(S)
      /\ Accommodates(cc, bb, People(c, b), left)
      /\ ToSet(bb) \subseteq ToSet(b)
      /\ take = Cardinality(v) => Seated(cc) \cap left = {}
  BY <1>1, RefillKeeps
<1>3. Filled(n, left) = IF take = Cardinality(v) THEN Night(cc, bb)
                        ELSE IF Len(cc) > 1 THEN
                             Night(Front(cc), Without(Last(cc), left \cup {Blank}) \o bb)
                        ELSE Night(<<>>, Without(cc[1], left \cup {Blank}) \o bb)
  <2>1. Night(cc, b).courts = cc BY <1>1, <1>2, NightIs
  <2>2. Filled(n, left) = LET full == Night(cc, b).courts
                          IN  IF take = Cardinality(v) THEN Night(full, bb)
                              ELSE IF Len(full) > 1 THEN
                                   Night(Front(full), Without(Last(full), left \cup {Blank}) \o bb)
                              ELSE Night(<<>>, Without(full[1], left \cup {Blank}) \o bb)
    BY DEF Filled, c, b
  <2> HIDE DEF cc, bb, take, v
  <2> QED BY <2>1, <2>2
<1>4. Len(c) \in Nat \ {0}
  <2>1. Len(c) \in Nat /\ SeatRefs(c) = (1..Len(c)) \X (1..4) BY <1>1, Seats
  <2>2. SeatRefs(c) # {} BY DEF Vacant, c
  <2>3. Len(c) # 0 BY <2>1, <2>2
  <2> QED BY <2>1, <2>3
<1>5. Accommodates(cc, bb, people, left) /\ ToSet(bb) \cap left = {}
  BY <1>1, <1>2 DEF Accommodates
<1> HIDE DEF cc, bb, take, v
<1>6. ASSUME NEW x \in Layouts(S), NEW y \in Seq(S), Accommodates(x, y, people, left),
             ToSet(y) \cap left = {}
      PROVE  /\ Night(x, y) \in Settling(S, people, left)
             /\ Night(x, y).courts = x
  <2>1. Night(x, y).courts = x /\ Night(x, y).bench = y BY NightIs
  <2>2. Night(x, y) = [courts |-> x, bench |-> y]
    <3>1. x \o <<>> = x /\ y \o <<>> = y BY ConcatEmptySeq DEF Layouts
    <3> QED BY <3>1 DEF Night
  <2>3. Night(x, y) \in [courts : Layouts(S), bench : Seq(S)] BY <2>2
  <2> QED BY <1>6, <2>1, <2>3 DEF Settling
<1>7. CASE take = Cardinality(v)
  <2>1. Filled(n, left) = Night(cc, bb) BY <1>3, <1>7
  <2>2. Vacant(cc, left) = {}
    <3>1. Blank \notin Seated(cc) BY <1>5 DEF Accommodates, LayoutAndBenchOK
    <3>2. \A s \in SeatRefs(cc) : cc[s[1]][s[2]] \in Seated(cc) BY DEF Seated
    <3> QED BY <1>2, <1>7, <3>1, <3>2 DEF Vacant
  <2> QED BY <1>2, <1>5, <1>6, <2>1, <2>2 DEF c
<1>8. CASE take # Cardinality(v)
  <2> DEFINE up == SubSeq(cc, 1, Len(cc) - 1)
             queue == Without(cc[Len(cc)], left \cup {Blank}) \o bb
  <2>1. /\ up \in Layouts(S) /\ Len(up) = Len(cc) - 1 /\ queue \in Seq(S)
        /\ Accommodates(up, queue, People(cc, bb), left)
        /\ ToSet(queue) \cap left = {}
    <3>1. LayoutAndBenchOK(cc, bb) BY <1>5 DEF Accommodates
    <3>2. Len(cc) # 0 BY <1>2, <1>4
    <3> QED BY <1>2, <1>5, <3>1, <3>2, CloseBottom
  <2>2. Accommodates(up, queue, people, left)
    <3> HIDE DEF up, queue
    <3> QED BY <1>5, <2>1 DEF Accommodates
  <2>3. Filled(n, left) = Night(up, queue)
    <3>1. CASE Len(cc) > 1 BY <1>3, <1>8, <3>1 DEF Front, Last
    <3>2. CASE ~(Len(cc) > 1)
      <4>1. Len(cc) = 1 BY <1>2, <1>4, <3>2
      <4>2. up = <<>> BY <4>1
      <4>3. queue = Without(cc[1], left \cup {Blank}) \o bb BY <4>1
      <4> HIDE DEF up, queue
      <4> QED BY <1>3, <1>8, <3>2, <4>2, <4>3
    <3> QED BY <3>1, <3>2
  <2> HIDE DEF up, queue
  <2> QED BY <1>2, <1>6, <2>1, <2>2, <2>3 DEF c
<1> QED BY <1>7, <1>8

\* The passes of a settling, from the first night on.
Goes(n, left) == IF Vacant(n.courts, left) = {} THEN n ELSE Filled(n, left)

Passes(first, left, N) ==
    CHOOSE f : f = [i \in 0..N |-> IF i = 0 THEN first
                                   ELSE IF Vacant(f[i - 1].courts, left) = {} THEN f[i - 1]
                                   ELSE Filled(f[i - 1], left)]

GoesDown(V, n, left) ==
    /\ Goes(n, left) \in V
    /\ Len(n.courts) \in Nat /\ Len(Goes(n, left).courts) \in Nat
    /\ \/ Vacant(Goes(n, left).courts, left) = {}
          /\ Len(Goes(n, left).courts) = Len(n.courts)
       \/ Len(Goes(n, left).courts) = Len(n.courts) - 1

LEMMA GoesSettles ==
    ASSUME NEW S, NEW people, NEW left, NEW n \in Settling(S, people, left)
    PROVE  GoesDown(Settling(S, people, left), n, left)
<1>1. Goes(n, left) \in Settling(S, people, left)
  BY FillSettles DEF Goes
<1>2. ASSUME NEW m \in Settling(S, people, left) PROVE Len(m.courts) \in Nat
  <2>1. m.courts \in Layouts(S) BY DEF Settling
  <2> QED BY <2>1, Seats
<1>3. \/ Vacant(Goes(n, left).courts, left) = {} /\ Len(Goes(n, left).courts) = Len(n.courts)
      \/ Len(Goes(n, left).courts) = Len(n.courts) - 1
  BY FillSettles DEF Goes
<1> QED BY <1>1, <1>2, <1>3 DEF GoesDown

\* A run of N steps of next from a.
Run(f, V, a, N, next) ==
    /\ f \in [0..N -> V] /\ f[0] = a
    /\ \A i \in 1..N : f[i] = next[f[i - 1]]

HasRun(V, a, N, next) == \E f : Run(f, V, a, N, next)

LEMMA RunOf ==
    ASSUME NEW V, NEW a \in V, NEW N \in Nat, NEW next \in [V -> V]
    PROVE  HasRun(V, a, N, next)
<1> DEFINE step == [i \in 1..N |-> next]
<1>1. step \in [1..N -> [V -> V]]
  OBVIOUS
<1>2. \A i \in 1..N : step[i] = next
  OBVIOUS
<1> HIDE DEF step
<1>3. PICK f \in [0..N -> V] : f[0] = a /\ \A i \in 1..N : f[i] = step[i][f[i - 1]]
  BY <1>1, StepByStep
<1> QED BY <1>2, <1>3 DEF HasRun, Run

\* Each pass stays among these nights and closes a court if there is still a
\* vacancy.
Shrinks(V, left) == \A n \in V : GoesDown(V, n, left)

LEMMA SettlingShrinks ==
    ASSUME NEW S, NEW people, NEW left
    PROVE  Shrinks(Settling(S, people, left), left)
  BY GoesSettles DEF Shrinks

GoesRun(g, V, first, N, left) ==
    /\ g \in [0..N -> V] /\ g[0] = first
    /\ \A i \in 1..N : g[i] = Goes(g[i - 1], left)

LEMMA PassesRun ==
    ASSUME NEW left, NEW V, Shrinks(V, left), NEW first \in V, NEW N \in Nat
    PROVE  \E g : GoesRun(g, V, first, N, left)
<1> DEFINE next == [n \in V |-> Goes(n, left)]
<1>1. next \in [V -> V]
  BY DEF Shrinks, GoesDown
<1>2. \A n \in V : next[n] = Goes(n, left)
  OBVIOUS
<1> HIDE DEF next
<1>3. HasRun(V, first, N, next)
  BY <1>1, RunOf
<1>4. PICK g : Run(g, V, first, N, next)
  BY <1>3 DEF HasRun
<1>5. ASSUME NEW i \in 1..N PROVE g[i] = Goes(g[i - 1], left)
  <2>1. i - 1 \in 0..N
    OBVIOUS
  <2> QED BY <1>2, <1>4, <2>1 DEF Run
<1> QED BY <1>4, <1>5 DEF Run, GoesRun

Settles(last, V, N, left) ==
    /\ last \in V
    /\ Len(last.courts) \in Nat /\ Len(last.courts) <= N
    /\ Vacant(last.courts, left) = {} \/ Len(last.courts) = 0

\* As many passes as there are courts are enough.
LEMMA PassesSettle ==
    ASSUME NEW left, NEW V, Shrinks(V, left),
           NEW first \in V, NEW N \in Nat, N = Len(first.courts)
    PROVE  Settles(Passes(first, left, N)[N], V, N, left)
<1> DEFINE Eq(f) == f = [i \in 0..N |-> IF i = 0 THEN first
                                        ELSE IF Vacant(f[i - 1].courts, left) = {} THEN f[i - 1]
                                        ELSE Filled(f[i - 1], left)]
<1>1. ASSUME NEW n \in V
      PROVE  /\ Goes(n, left) \in V
             /\ Len(n.courts) \in Nat /\ Len(Goes(n, left).courts) \in Nat
             /\ \/ Vacant(Goes(n, left).courts, left) = {}
                   /\ Len(Goes(n, left).courts) = Len(n.courts)
                \/ Len(Goes(n, left).courts) = Len(n.courts) - 1
  BY DEF Shrinks, GoesDown
<1>3. PICK g : GoesRun(g, V, first, N, left)
  BY PassesRun
<1>4. g \in [0..N -> V] /\ g[0] = first /\ \A i \in 1..N : g[i] = Goes(g[i - 1], left)
  BY <1>3 DEF GoesRun
<1>5. Eq(g)
  <2> DEFINE h == [i \in 0..N |-> IF i = 0 THEN first
                                  ELSE IF Vacant(g[i - 1].courts, left) = {} THEN g[i - 1]
                                  ELSE Filled(g[i - 1], left)]
  <2>1. ASSUME NEW i \in 0..N PROVE g[i] = h[i]
    <3>1. CASE i = 0 BY <1>4, <3>1
    <3>2. CASE i # 0
      <4>1. i \in 1..N /\ i - 1 \in 0..N BY <3>2
      <4>2. h[i] = Goes(g[i - 1], left) BY <3>2 DEF Goes
      <4> QED BY <1>4, <4>1, <4>2
    <3> QED BY <3>1, <3>2
  <2>2. g = [i \in 0..N |-> g[i]] BY <1>4
  <2>3. h = [i \in 0..N |-> h[i]] OBVIOUS
  <2>4. g = h
    <3> HIDE DEF h
    <3> QED BY <2>1, <2>2, <2>3
  <2> QED BY <2>4
<1>6. PICK night : Eq(night) /\ night = Passes(first, left, N)
  <2>1. Passes(first, left, N) = CHOOSE f : Eq(f) BY DEF Passes
  <2> HIDE DEF Eq
  <2> QED BY <1>5, <2>1
<1>7. night[0] = first
  BY <1>6
<1>8. ASSUME NEW i \in 1..N PROVE night[i] = Goes(night[i - 1], left)
  <2>1. i \in 0..N /\ i # 0 OBVIOUS
  <2>2. night[i] = IF i = 0 THEN first
                   ELSE IF Vacant(night[i - 1].courts, left) = {} THEN night[i - 1]
                   ELSE Filled(night[i - 1], left)
    BY <1>6, <2>1, Zenon
  <2> QED BY <2>1, <2>2 DEF Goes
<1> DEFINE Upto(i) == /\ night[i] \in V
                      /\ Len(night[i].courts) \in Nat /\ Len(night[i].courts) <= N
                      /\ Vacant(night[i].courts, left) = {} \/ Len(night[i].courts) <= N - i
           T == {i \in Nat : i <= N => Upto(i)}
<1> HIDE DEF Upto
<1>9. 0 \in T
  <2>1. Upto(0) BY <1>1, <1>7 DEF Upto
  <2> QED BY <2>1
<1>10. ASSUME NEW i \in Nat, i \in T PROVE i + 1 \in T
  <2> SUFFICES ASSUME i + 1 <= N PROVE Upto(i + 1) BY <1>10
  <2>1. Upto(i) BY <1>10
  <2>2. i + 1 \in 1..N /\ (i + 1) - 1 = i OBVIOUS
  <2> DEFINE n == night[i]
             m == night[i + 1]
  <2>3. m = Goes(n, left) BY <1>8, <2>2
  <2>4. n \in V /\ Len(n.courts) <= N
        /\ (Vacant(n.courts, left) = {} \/ Len(n.courts) <= N - i)
    BY <2>1 DEF Upto
  <2> HIDE DEF n, m
  <2>5. /\ m \in V /\ Len(n.courts) \in Nat /\ Len(m.courts) \in Nat
        /\ \/ Vacant(m.courts, left) = {} /\ Len(m.courts) = Len(n.courts)
           \/ Len(m.courts) = Len(n.courts) - 1
    BY <1>1, <2>3, <2>4
  <2>6. Vacant(n.courts, left) = {} => m = n BY <2>3 DEF Goes
  <2> DEFINE x == Len(m.courts)
             y == Len(n.courts)
  <2>7. x <= N
    <3>1. x \in Nat /\ y \in Nat /\ y <= N /\ (x = y \/ x = y - 1) BY <2>4, <2>5
    <3> HIDE DEF x, y
    <3> QED BY <3>1
  <2>8. Vacant(m.courts, left) = {} \/ x <= N - (i + 1)
    <3>1. CASE Vacant(n.courts, left) = {} BY <2>6, <3>1
    <3>2. CASE Vacant(n.courts, left) # {}
      <4>1. y <= N - i /\ x \in Nat /\ y \in Nat BY <2>4, <2>5, <3>2
      <4>2. Vacant(m.courts, left) = {} \/ x = y - 1 BY <2>5
      <4> HIDE DEF x, y
      <4> QED BY <4>1, <4>2
    <3> QED BY <3>1, <3>2
  <2> QED BY <2>5, <2>7, <2>8 DEF Upto, m
<1>11. \A i \in Nat : i \in T
  <2> HIDE DEF T
  <2> QED BY <1>9, <1>10, Climb
<1>12. Upto(N) /\ N - N = 0
  BY <1>11
<1>13. /\ night[N] \in V
       /\ Len(night[N].courts) \in Nat /\ Len(night[N].courts) <= N
       /\ Vacant(night[N].courts, left) = {} \/ Len(night[N].courts) = 0
  BY <1>12 DEF Upto
<1> QED BY <1>6, <1>13 DEF Settles

\* Everybody who did not leave has one place, and nobody who left has any,
\* however many left and wherever they sat (settleDepartures).
THEOREM DeparturesLeaveTheRest ==
    ASSUME NEW S, NEW c \in Layouts(S), NEW b \in Seq(S), LayoutAndBenchOK(c, b), NEW left
    PROVE  LET next == SettleDepartures(c, b, left)
           IN  /\ next.courts \in Layouts(S) /\ Len(next.courts) <= Len(c)
               /\ next.bench \in Seq(S)
               /\ LayoutAndBenchOK(next.courts, next.bench)
               /\ People(next.courts, next.bench) = People(c, b) \ left
<1>0. Len(c) \in Nat BY Seats
<1>1. CASE left = {}
  <2>1. SettleDepartures(c, b, left) = Night(c, b) BY <1>1 DEF SettleDepartures
  <2>2. Night(c, b).courts = c /\ Night(c, b).bench = b BY NightIs
  <2> QED BY <1>0, <1>1, <2>1, <2>2
<1>2. CASE left # {}
  <2> DEFINE first == Night(c, Without(b, left))
             last == Passes(first, left, Len(c))[Len(c)]
  <2>1. SettleDepartures(c, b, left) = last
    BY <1>2 DEF SettleDepartures, Vacant, BottomUp, Turn, Takes, Refilled, Waiting, Filled, Passes
  <2>2. first \in Settling(S, People(c, b), left) /\ first.courts = c
    <3> DEFINE q == Without(b, left)
    <3>1. q \in Seq(S) /\ ToSet(q) = ToSet(b) \ left /\ (IsInjective(b) => IsInjective(q))
      BY WithoutHolds
    <3> HIDE DEF q
    <3>2. LayoutAndBenchOK(c, q) BY <3>1 DEF LayoutAndBenchOK
    <3>3. People(c, q) \subseteq People(c, b) /\ People(c, b) \ left \subseteq People(c, q)
      BY <3>1 DEF People
    <3>4. Night(c, q).courts = c /\ Night(c, q).bench = q BY <3>1, NightIs
    <3>5. Night(c, q) = [courts |-> c, bench |-> q]
      <4>1. c \o <<>> = c /\ q \o <<>> = q BY <3>1, ConcatEmptySeq DEF Layouts
      <4> QED BY <4>1 DEF Night
    <3>6. Night(c, q) \in [courts : Layouts(S), bench : Seq(S)] BY <3>1, <3>5
    <3>7. Night(c, q) \in Settling(S, People(c, b), left)
      BY <3>1, <3>2, <3>3, <3>4, <3>6 DEF Settling, Accommodates
    <3> QED BY <3>4, <3>7 DEF q
  <2> DEFINE people == People(c, b)
  <2>3. first \in Settling(S, people, left) /\ Len(c) = Len(first.courts) BY <2>2
  <2> HIDE DEF first, people
  <2>4. /\ last \in Settling(S, people, left)
        /\ Len(last.courts) \in Nat /\ Len(last.courts) <= Len(c)
        /\ Vacant(last.courts, left) = {} \/ Len(last.courts) = 0
    
    <3> DEFINE V == Settling(S, people, left)
    <3>1. Shrinks(V, left) BY SettlingShrinks
    <3>2. first \in V BY <2>3
    <3> HIDE DEF V
    <3>3. Settles(last, V, Len(c), left)
      BY <1>0, <2>3, <3>1, <3>2, PassesSettle
    <3> QED BY <3>3 DEF V, Settles
  <2> HIDE DEF last
  <2>5. /\ last.courts \in Layouts(S) /\ last.bench \in Seq(S)
        /\ Accommodates(last.courts, last.bench, people, left) /\ ToSet(last.bench) \cap left = {}
    BY <2>4 DEF Settling
  <2>6. Seated(last.courts) \cap left = {}
    <3>1. CASE Len(last.courts) = 0
      <4>1. SeatRefs(last.courts) = (1..Len(last.courts)) \X (1..4) BY <2>5, Seats
      <4>2. SeatRefs(last.courts) = {} BY <3>1, <4>1
      <4> QED BY <4>2 DEF Seated
    <3>2. CASE Vacant(last.courts, left) = {}
      BY <3>2 DEF Vacant, Seated
    <3> QED BY <2>4, <3>1, <3>2
  <2>7. People(last.courts, last.bench) = people \ left
    BY <2>5, <2>6 DEF Accommodates, People
  <2> QED BY <2>1, <2>4, <2>5, <2>7 DEF Accommodates, people
<1> QED BY <1>1, <1>2

\* A night without vacancies goes through its passes as it is.
LEMMA PassesStay ==
    ASSUME NEW left, NEW first, Vacant(first.courts, left) = {}, NEW N \in Nat
    PROVE  Passes(first, left, N)[N] = first
<1> DEFINE Eq(f) == f = [i \in 0..N |-> IF i = 0 THEN first
                                        ELSE IF Vacant(f[i - 1].courts, left) = {} THEN f[i - 1]
                                        ELSE Filled(f[i - 1], left)]
           g == [i \in 0..N |-> first]
<1>1. Eq(g)
  <2> DEFINE h == [i \in 0..N |-> IF i = 0 THEN first
                                  ELSE IF Vacant(g[i - 1].courts, left) = {} THEN g[i - 1]
                                  ELSE Filled(g[i - 1], left)]
  <2>1. ASSUME NEW i \in 0..N PROVE h[i] = first
    <3>1. CASE i = 0 BY <3>1
    <3>2. CASE i # 0
      <4>1. i - 1 \in 0..N BY <3>2
      <4>2. g[i - 1] = first BY <4>1
      <4> QED BY <3>2, <4>2
    <3> QED BY <3>1, <3>2
  <2>2. h = [i \in 0..N |-> h[i]] OBVIOUS
  <2>3. g = h
    <3> HIDE DEF h
    <3> QED BY <2>1, <2>2
  <2> QED BY <2>3
<1> HIDE DEF g
<1>2. PICK night : Eq(night) /\ night = Passes(first, left, N)
  BY <1>1 DEF Passes
<1>3. night[0] = first
  BY <1>2
<1>4. ASSUME NEW i \in 1..N, night[i - 1] = first PROVE night[i] = first
  <2>1. i \in 0..N /\ i # 0 OBVIOUS
  <2>2. night[i] = IF i = 0 THEN first
                   ELSE IF Vacant(night[i - 1].courts, left) = {} THEN night[i - 1]
                   ELSE Filled(night[i - 1], left)
    BY <1>2, <2>1, Zenon
  <2> QED BY <1>4, <2>1, <2>2
<1> HIDE DEF Eq
<1> DEFINE T == {i \in Nat : i <= N => night[i] = first}
<1>5. 0 \in T
  BY <1>3
<1>6. ASSUME NEW i \in Nat, i \in T PROVE i + 1 \in T
  <2> SUFFICES ASSUME i + 1 <= N PROVE night[i + 1] = first OBVIOUS
  <2>1. i + 1 \in 1..N /\ (i + 1) - 1 = i OBVIOUS
  <2> QED BY <1>4, <1>6, <2>1
<1>7. \A i \in Nat : i \in T
  <2> HIDE DEF T
  <2> QED BY <1>5, <1>6, Climb
<1> QED BY <1>2, <1>7

\* While nobody who is seated left, the courts stand as they are.
Untouched(next, S, c, b) ==
    next.courts = c /\ next.bench \in Seq(S) /\ ToSet(next.bench) \subseteq ToSet(b)

LEMMA NobodyToSettle ==
    ASSUME NEW S, NEW c \in Layouts(S), NEW b \in Seq(S), NEW left,
           Seated(c) \cap (left \cup {Blank}) = {}
    PROVE  Untouched(SettleDepartures(c, b, left), S, c, b)
<1>0. Len(c) \in Nat BY Seats
<1>1. CASE left = {}
  <2>1. SettleDepartures(c, b, left) = Night(c, b) BY <1>1 DEF SettleDepartures
  <2>2. Night(c, b).courts = c /\ Night(c, b).bench = b BY NightIs
  <2> QED BY <2>1, <2>2 DEF Untouched
<1>2. CASE left # {}
  <2> DEFINE q == Without(b, left)
             first == Night(c, q)
             last == Passes(first, left, Len(c))[Len(c)]
  <2>1. SettleDepartures(c, b, left) = last
    BY <1>2 DEF SettleDepartures, Vacant, BottomUp, Turn, Takes, Refilled, Waiting, Filled, Passes
  <2>2. q \in Seq(S) /\ ToSet(q) \subseteq ToSet(b)
    BY WithoutHolds
  <2> HIDE DEF q
  <2>3. first.courts = c /\ first.bench = q
    BY <2>2, NightIs
  <2>4. Vacant(c, left) = {}
    BY DEF Vacant, Seated
  <2> HIDE DEF first
  <2>5. last = first
    BY <1>0, <2>3, <2>4, PassesStay
  <2> HIDE DEF last
  <2> QED BY <2>1, <2>2, <2>3, <2>5 DEF Untouched
<1> QED BY <1>1, <1>2

-----------------------------------------------------------------------------
(* Those who wait, four at a time.                                         *)

OpenedAt(i) == IF i = 2 THEN 3 ELSE IF i = 3 THEN 2 ELSE i

\* How many courts open.
More(n, w, maxCourts) ==
    IF maxCourts = 0 \/ w \div 4 <= maxCourts - n THEN w \div 4
    ELSE IF maxCourts - n > 0 THEN maxCourts - n ELSE 0

LEMMA MoreIs ==
    ASSUME NEW n \in Nat, NEW w \in Nat, NEW maxCourts \in Nat
    PROVE  LET more == More(n, w, maxCourts)
           IN  /\ more \in Nat /\ 4 * more <= w
               /\ maxCourts > 0 /\ n <= maxCourts => n + more <= maxCourts
               /\ w - 4 * more >= 4 => maxCourts > 0 /\ n + more >= maxCourts
<1> DEFINE fill == w \div 4
<1>1. fill \in Nat /\ 4 * fill <= w /\ w < 4 * fill + 4
  OBVIOUS
<1> HIDE DEF fill
<1>2. More(n, w, maxCourts) = IF maxCourts = 0 \/ fill <= maxCourts - n THEN fill
                              ELSE IF maxCourts - n > 0 THEN maxCourts - n ELSE 0
  BY DEF More, fill
<1> QED BY <1>1, <1>2

\* The courts that open, and who still waits.
Opened(b, more) == [k \in 1..more |-> OpenCourt(SubSeq(b, 4*k - 3, 4*k))]

LEMMA OpenedSeats ==
    ASSUME NEW S, NEW b \in Seq(S), NEW more \in Nat, 4 * more <= Len(b)
    PROVE  /\ Opened(b, more) \in Layouts(S) /\ Len(Opened(b, more)) = more
           /\ \A k \in 1..more, i \in 1..4 :
                 Opened(b, more)[k][i] = b[4*k - 4 + OpenedAt(i)]
<1> DEFINE q(k) == SubSeq(b, 4*k - 3, 4*k)
<1>0. Len(b) \in Nat /\ DOMAIN b = 1..Len(b)
  OBVIOUS
<1>1. ASSUME NEW k \in 1..more
      PROVE  \A i \in 1..4 : q(k)[i] = b[4*k - 4 + i] /\ q(k)[i] \in S
  <2> DEFINE f == 4*k - 3
             t == 4*k
  <2>1. /\ f \in Nat \ {0} /\ t \in Nat /\ t <= Len(b) /\ t - f + 1 = 4
        /\ \A i \in 1..4 : f + i - 1 = 4*k - 4 + i /\ f + i - 1 \in 1..Len(b)
    BY <1>0
  <2> HIDE DEF f, t
  <2>2. \A i \in 1..4 : SubSeq(b, f, t)[i] = b[f + i - 1]
    BY <2>1, SubSeqHolds
  <2>3. \A i \in 1..4 : b[f + i - 1] \in S
    BY <1>0, <2>1
  <2> QED BY <2>1, <2>2, <2>3 DEF f, t
<1>2. ASSUME NEW k \in 1..more
      PROVE  /\ OpenCourt(q(k)) \in [1..4 -> S]
             /\ \A i \in 1..4 : OpenCourt(q(k))[i] = b[4*k - 4 + OpenedAt(i)]
  <2>1. \A i \in 1..4 : q(k)[i] = b[4*k - 4 + i] /\ q(k)[i] \in S
    BY <1>1
  <2> HIDE DEF q
  <2>2. OpenCourt(q(k)) \in [1..4 -> S]
    BY <2>1 DEF OpenCourt
  <2>3. \A i \in 1..4 : OpenCourt(q(k))[i] = q(k)[OpenedAt(i)] /\ OpenedAt(i) \in 1..4
    BY DEF OpenCourt, OpenedAt
  <2> QED BY <2>1, <2>2, <2>3
<1>3. /\ DOMAIN Opened(b, more) = 1..more
      /\ \A k \in 1..more : Opened(b, more)[k] = OpenCourt(q(k))
  BY DEF Opened
<1> HIDE DEF q
<1>4. Opened(b, more) \in [1..more -> [1..4 -> S]]
  BY <1>2 DEF Opened, q
<1>5. Opened(b, more) \in Layouts(S) /\ Len(Opened(b, more)) = more
  BY <1>4 DEF Layouts
<1> QED BY <1>2, <1>3, <1>5

LEMMA FourEach ==
    ASSUME NEW k \in Int, NEW l \in Int, NEW i \in 1..4, NEW j \in 1..4,
           4*k - 4 + i = 4*l - 4 + j
    PROVE  k = l /\ i = j
  OBVIOUS

LEMMA ConcatAt ==
    ASSUME NEW T, NEW s \in Seq(T), NEW t \in Seq(T)
    PROVE  /\ s \o t \in Seq(T) /\ Len(s \o t) = Len(s) + Len(t)
           /\ \A k \in 1..Len(s) : (s \o t)[k] = s[k]
           /\ \A k \in 1..Len(t) : (s \o t)[Len(s) + k] = t[k]
<1>1. Len(s) \in Nat /\ Len(t) \in Nat /\ DOMAIN s = 1..Len(s) /\ DOMAIN t = 1..Len(t)
  OBVIOUS
<1>2. s \o t \in Seq(T) /\ Len(s \o t) = Len(s) + Len(t)
  OBVIOUS
<1>3. ASSUME NEW k \in 1..Len(s) PROVE (s \o t)[k] = s[k]
  OBVIOUS
<1>4. ASSUME NEW k \in 1..Len(t) PROVE (s \o t)[Len(s) + k] = t[k]
  <2>1. Len(s) + k \in 1..(Len(s) + Len(t)) /\ ~(Len(s) + k <= Len(s)) /\ Len(s) + k - Len(s) = k
    BY <1>1
  <2> QED BY <1>1, <2>1
<1> QED BY <1>2, <1>3, <1>4

\* Everybody but the first m of a queue.
LEMMA AfterHolds ==
    ASSUME NEW S, NEW s \in Seq(S), NEW m \in Nat, m <= Len(s)
    PROVE  LET t == SubSeq(s, m + 1, Len(s))
           IN  /\ t \in Seq(S) /\ Len(t) = Len(s) - m /\ DOMAIN t = 1..(Len(s) - m)
               /\ \A j \in 1..(Len(s) - m) : t[j] = s[m + j]
<1> DEFINE w == Len(s)
           f == m + 1
<1>1. w \in Nat
  OBVIOUS
<1>2. w <= Len(s)
  BY <1>1
<1> HIDE DEF w
<1>3. f \in Nat \ {0} /\ w - f + 1 = w - m /\ (IF f <= w THEN w - f + 1 ELSE 0) = w - m
  BY <1>1, m <= w DEF w
<1>4. \A j \in 1..(w - m) : f + j - 1 = m + j
  BY <1>1
<1> HIDE DEF f
<1>5. /\ SubSeq(s, f, w) \in Seq(S)
      /\ Len(SubSeq(s, f, w)) = IF f <= w THEN w - f + 1 ELSE 0
      /\ DOMAIN SubSeq(s, f, w) = 1..(w - f + 1)
      /\ \A j \in 1..(w - f + 1) : SubSeq(s, f, w)[j] = s[f + j - 1]
  BY <1>1, <1>2, <1>3, SubSeqHolds
<1>6. /\ SubSeq(s, f, w) \in Seq(S) /\ Len(SubSeq(s, f, w)) = w - m
      /\ DOMAIN SubSeq(s, f, w) = 1..(w - m)
      /\ \A j \in 1..(w - m) : SubSeq(s, f, w)[j] = s[m + j]
  BY <1>3, <1>4, <1>5
<1> QED BY <1>6 DEF f, w

\* Everybody keeps one place; no more courts than the venue has, and none
\* shut while four wait.
Grown(next, S, c, b, maxCourts) ==
    /\ next.courts \in Layouts(S) /\ next.bench \in Seq(S)
    /\ LayoutAndBenchOK(next.courts, next.bench)
    /\ People(next.courts, next.bench) = People(c, b)
    /\ maxCourts > 0 /\ Len(c) <= maxCourts => Len(next.courts) <= maxCourts
    /\ Len(next.bench) >= 4 => maxCourts > 0 /\ Len(next.courts) >= maxCourts
    /\ Len(c) <= Len(next.courts) /\ \A k \in 1..Len(c) : next.courts[k] = c[k]
    /\ ToSet(next.bench) \subseteq ToSet(b)

LEMMA GrowthSeatsEverybodyOnce ==
    ASSUME NEW S, NEW c \in Layouts(S), NEW b \in Seq(S), NEW maxCourts \in Nat,
           LayoutAndBenchOK(c, b)
    PROVE  Grown(GrowCourts(c, b, maxCourts), S, c, b, maxCourts)
<1> DEFINE n == Len(c)
           w == Len(b)
           more == More(n, w, maxCourts)
           new == Opened(b, more)
           cc == c \o new
           bb == SubSeq(b, 4*more + 1, w)
           from == [p \in Places(cc, bb) |->
                       IF p[1] = 0 THEN <<0, 4*more + p[2]>>
                       ELSE IF p[1] <= n THEN p
                       ELSE <<0, 4*(p[1] - n) - 4 + OpenedAt(p[2])>>]
<1>1. /\ n \in Nat /\ w \in Nat /\ DOMAIN b = 1..w /\ DOMAIN c = 1..n
      /\ SeatRefs(c) = (1..n) \X (1..4)
  BY Seats
<1>2. GrowCourts(c, b, maxCourts) = Night(cc, bb)
  BY DEF GrowCourts, More, Opened
<1>3. /\ more \in Nat /\ 4 * more <= w
      /\ maxCourts > 0 /\ n <= maxCourts => n + more <= maxCourts
      /\ w - 4 * more >= 4 => maxCourts > 0 /\ n + more >= maxCourts
  <2> HIDE DEF n, w
  <2> QED BY <1>1, MoreIs
<1> HIDE DEF more
<1>4. /\ new \in Layouts(S) /\ Len(new) = more
      /\ \A k \in 1..more, i \in 1..4 : new[k][i] = b[4*k - 4 + OpenedAt(i)]
  BY <1>3, OpenedSeats
<1> HIDE DEF new
<1>5. /\ cc \in Layouts(S) /\ Len(cc) = n + more
      /\ \A k \in 1..n : cc[k] = c[k]
      /\ \A k \in 1..more : cc[n + k] = new[k]
  <2> DEFINE V == [1..4 -> S]
  <2>1. c \in Seq(V) /\ new \in Seq(V) BY <1>4 DEF Layouts
  <2> HIDE DEF V
  <2>2. /\ c \o new \in Seq(V) /\ Len(c \o new) = Len(c) + Len(new)
        /\ \A k \in 1..Len(c) : (c \o new)[k] = c[k]
        /\ \A k \in 1..Len(new) : (c \o new)[Len(c) + k] = new[k]
    BY <2>1, ConcatAt
  <2>3. Layouts(S) = Seq(V) BY DEF Layouts, V
  <2> QED BY <1>4, <2>2, <2>3
<1>6. /\ bb \in Seq(S) /\ Len(bb) = w - 4*more /\ DOMAIN bb = 1..(w - 4*more)
      /\ \A j \in 1..(w - 4*more) : bb[j] = b[4*more + j]
  <2> DEFINE m == 4*more
  <2>1. m \in Nat /\ m <= Len(b) BY <1>3
  <2> HIDE DEF m
  <2> QED BY <2>1, AfterHolds DEF m
<1> HIDE DEF n, w, cc, bb
<1>7. SeatRefs(cc) = (1..(n + more)) \X (1..4)
  BY <1>5, Seats
<1>8. ASSUME NEW p \in Places(cc, bb)
      PROVE  \/ /\ p[1] = 0 /\ p[2] \in 1..(w - 4*more) /\ p = <<0, p[2]>>
                /\ from[p] = <<0, 4*more + p[2]>>
             \/ /\ p[1] \in 1..n /\ p[2] \in 1..4 /\ p = <<p[1], p[2]>> /\ from[p] = p
             \/ /\ p[1] \in (n + 1)..(n + more) /\ p[2] \in 1..4 /\ p = <<p[1], p[2]>>
                /\ from[p] = <<0, 4*(p[1] - n) - 4 + OpenedAt(p[2])>>
  <2>1. CASE p \in {0} \X DOMAIN bb BY <1>6, <2>1
  <2>2. CASE p \in SeatRefs(cc)
    <3>1. p[1] \in 1..(n + more) /\ p[2] \in 1..4 /\ p = <<p[1], p[2]>> BY <1>7, <2>2
    <3>2. p[1] # 0 BY <1>1, <1>3, <3>1
    <3>3. CASE p[1] <= n
      <4>1. from[p] = p BY <3>2, <3>3
      <4>2. p[1] \in 1..n BY <1>1, <3>1, <3>3
      <4> QED BY <3>1, <4>1, <4>2
    <3>4. CASE ~(p[1] <= n)
      <4>1. from[p] = <<0, 4*(p[1] - n) - 4 + OpenedAt(p[2])>> BY <3>2, <3>4
      <4>2. p[1] \in (n + 1)..(n + more) BY <1>1, <1>3, <3>1, <3>4
      <4> QED BY <3>1, <4>1, <4>2
    <3> QED BY <3>3, <3>4
  <2> QED BY <2>1, <2>2 DEF Places
<1>9. from \in [Places(cc, bb) -> Places(c, b)]
  <2>1. ASSUME NEW p \in Places(cc, bb) PROVE from[p] \in Places(c, b)
    <3>1. CASE p[1] = 0 /\ p[2] \in 1..(w - 4*more) /\ from[p] = <<0, 4*more + p[2]>>
      <4>1. 4*more + p[2] \in 1..w BY <1>1, <1>3, <3>1
      <4> QED BY <1>1, <3>1, <4>1 DEF Places
    <3>2. CASE p[1] \in 1..n /\ p[2] \in 1..4 /\ p = <<p[1], p[2]>> /\ from[p] = p
      BY <1>1, <3>2 DEF Places
    <3>3. CASE /\ p[1] \in (n + 1)..(n + more) /\ p[2] \in 1..4
               /\ from[p] = <<0, 4*(p[1] - n) - 4 + OpenedAt(p[2])>>
      <4>1. OpenedAt(p[2]) \in 1..4 BY <3>3 DEF OpenedAt
      <4>2. 4*(p[1] - n) - 4 + OpenedAt(p[2]) \in 1..w BY <1>1, <1>3, <3>3, <4>1
      <4> QED BY <1>1, <3>3, <4>2 DEF Places
    <3> QED BY <1>8, <3>1, <3>2, <3>3
  <2> HIDE DEF from
  <2>2. from = [p \in Places(cc, bb) |-> from[p]] BY DEF from
  <2> QED BY <2>1, <2>2
<1>10. ASSUME NEW p \in Places(cc, bb), NEW q \in Places(cc, bb), from[p] = from[q]
       PROVE  p = q
  <2> DEFINE Queues(x) == /\ x[1] = 0 /\ x[2] \in 1..(w - 4*more) /\ x = <<0, x[2]>>
                          /\ from[x] = <<0, 4*more + x[2]>>
             Stays(x) == /\ x[1] \in 1..n /\ x[2] \in 1..4 /\ x = <<x[1], x[2]>> /\ from[x] = x
             Opens(x) == /\ x[1] \in (n + 1)..(n + more) /\ x[2] \in 1..4 /\ x = <<x[1], x[2]>>
                         /\ from[x] = <<0, 4*(x[1] - n) - 4 + OpenedAt(x[2])>>
  <2>1. (Queues(p) \/ Stays(p) \/ Opens(p)) /\ (Queues(q) \/ Stays(q) \/ Opens(q))
    BY <1>8
  <2> HIDE DEF from
  <2>2. ASSUME NEW x, NEW y, Queues(x), Queues(y), from[x] = from[y] PROVE x = y
    <3>1. 4*more + x[2] = 4*more + y[2] BY <2>2
    <3> QED BY <1>1, <1>3, <2>2, <3>1
  <2>3. ASSUME NEW x, NEW y, Stays(x), Queues(y) \/ Opens(y) PROVE from[x] # from[y]
    BY <1>1, <2>3
  <2>4. ASSUME NEW x, NEW y, Queues(x), Opens(y) PROVE from[x] # from[y]
    <3>1. OpenedAt(y[2]) \in 1..4 BY <2>4 DEF OpenedAt
    <3>2. 4*(y[1] - n) - 4 + OpenedAt(y[2]) <= 4*more BY <1>1, <1>3, <2>4, <3>1
    <3>3. 4*(y[1] - n) - 4 + OpenedAt(y[2]) # 4*more + x[2] BY <1>1, <1>3, <2>4, <3>1, <3>2
    <3> QED BY <2>4, <3>3
  <2>5. ASSUME NEW x, NEW y, Opens(x), Opens(y), from[x] = from[y] PROVE x = y
    <3>1. 4*(x[1] - n) - 4 + OpenedAt(x[2]) = 4*(y[1] - n) - 4 + OpenedAt(y[2]) BY <2>5
    <3>2. OpenedAt(x[2]) \in 1..4 /\ OpenedAt(y[2]) \in 1..4 BY <2>5 DEF OpenedAt
    <3>3. x[1] = y[1] /\ OpenedAt(x[2]) = OpenedAt(y[2])
      <4>1. x[1] \in Int /\ y[1] \in Int /\ x[1] - n \in Int /\ y[1] - n \in Int
        BY <1>1, <1>3, <2>5
      <4>2. x[1] - n = y[1] - n /\ OpenedAt(x[2]) = OpenedAt(y[2])
        <5> DEFINE k == x[1] - n
                   l == y[1] - n
                   i == OpenedAt(x[2])
                   j == OpenedAt(y[2])
        <5>1. k \in Int /\ l \in Int /\ i \in 1..4 /\ j \in 1..4 /\ 4*k - 4 + i = 4*l - 4 + j
          BY <3>1, <3>2, <4>1
        <5> HIDE DEF k, l, i, j
        <5>2. k = l /\ i = j BY <5>1, FourEach
        <5> QED BY <5>2 DEF k, l, i, j
      <4> QED BY <1>1, <4>1, <4>2
    <3>4. x[2] = y[2] BY <2>5, <3>3 DEF OpenedAt
    <3> QED BY <2>5, <3>3, <3>4
  <2>6. ASSUME NEW x, NEW y, Stays(x), Stays(y), from[x] = from[y] PROVE x = y
    BY <2>6
  <2> HIDE DEF Queues, Stays, Opens
  <2> QED BY <1>10, <2>1, <2>2, <2>3, <2>4, <2>5, <2>6
<1>11. ASSUME NEW p \in Places(cc, bb) PROVE Holder(cc, bb, p) = Holder(c, b, from[p])
  <2>1. CASE p[1] = 0 /\ p[2] \in 1..(w - 4*more) /\ from[p] = <<0, 4*more + p[2]>>
    BY <1>6, <2>1 DEF Holder
  <2>2. CASE p[1] \in 1..n /\ p[2] \in 1..4 /\ from[p] = p
    <3>1. p[1] # 0 BY <1>1, <2>2
    <3> QED BY <1>5, <2>2, <3>1 DEF Holder
  <2>3. CASE /\ p[1] \in (n + 1)..(n + more) /\ p[2] \in 1..4
             /\ from[p] = <<0, 4*(p[1] - n) - 4 + OpenedAt(p[2])>>
    <3>1. p[1] # 0 /\ p[1] - n \in 1..more /\ n + (p[1] - n) = p[1] BY <1>1, <1>3, <2>3
    <3>2. cc[p[1]] = new[p[1] - n] BY <1>5, <3>1
    <3>3. cc[p[1]][p[2]] = b[4*(p[1] - n) - 4 + OpenedAt(p[2])] BY <1>4, <2>3, <3>1, <3>2
    <3> HIDE DEF from
    <3> QED BY <2>3, <3>1, <3>3 DEF Holder
  <2> QED BY <1>8, <2>1, <2>2, <2>3
<1>12. ASSUME NEW q \in Places(c, b) PROVE \E p \in Places(cc, bb) : from[p] = q
  <2>1. CASE q \in SeatRefs(c)
    <3>1. q[1] \in 1..n /\ q[2] \in 1..4 /\ q = <<q[1], q[2]>> BY <1>1, <2>1
    <3>2. q[1] \in 1..(n + more) /\ q[1] # 0 /\ q[1] <= n BY <1>1, <1>3, <3>1
    <3>3. q \in SeatRefs(cc) BY <1>7, <3>1, <3>2
    <3>4. q \in Places(cc, bb) BY <3>3 DEF Places
    <3>5. from[q] = q BY <3>2, <3>4
    <3> QED BY <3>4, <3>5
  <2>2. CASE q \in {0} \X DOMAIN b
    <3>1. PICK j \in 1..w : q = <<0, j>> BY <1>1, <2>2
    <3>2. CASE j > 4*more
      <4>1. j - 4*more \in 1..(w - 4*more) /\ 4*more + (j - 4*more) = j BY <1>1, <1>3, <3>2
      <4> DEFINE p == <<0, j - 4*more>>
      <4>2. p \in Places(cc, bb) /\ p[1] = 0 /\ p[2] = j - 4*more BY <1>6, <4>1 DEF Places
      <4>3. from[p] = <<0, 4*more + p[2]>> BY <4>2
      <4> HIDE DEF from, p
      <4> QED BY <3>1, <4>1, <4>2, <4>3
    <3>3. CASE ~(j > 4*more)
      <4>1. PICK k \in 1..more, i \in 1..4 : j = 4*k - 4 + i
        <5> DEFINE k == (j + 3) \div 4
                   i == j + 4 - 4*k
        <5>1. k \in 1..more /\ i \in 1..4 /\ j = 4*k - 4 + i BY <1>1, <1>3, <3>3
        <5> QED BY <5>1
      <4> DEFINE p == <<n + k, OpenedAt(i)>>
      <4>2. /\ n + k \in 1..(n + more) /\ n + k # 0 /\ ~(n + k <= n)
            /\ (n + k) - n = k
        BY <1>1, <1>3
      <4>3. OpenedAt(i) \in 1..4 /\ OpenedAt(OpenedAt(i)) = i BY DEF OpenedAt
      <4>4. p \in Places(cc, bb) /\ p[1] = n + k /\ p[2] = OpenedAt(i)
        BY <1>7, <4>2, <4>3 DEF Places
      <4>5. from[p] = <<0, 4*(p[1] - n) - 4 + OpenedAt(p[2])>> BY <4>2, <4>4
      <4> HIDE DEF from, p
      <4>6. from[p] = <<0, 4*k - 4 + i>> BY <4>2, <4>3, <4>4, <4>5
      <4> QED BY <3>1, <4>1, <4>4, <4>6
    <3> QED BY <3>2, <3>3
  <2> QED BY <2>1, <2>2 DEF Places
<1>13. Rearranges(from, c, b, cc, bb)
  <2> HIDE DEF from
  <2> QED BY <1>9, <1>10, <1>11 DEF Rearranges
<1>14. /\ LayoutAndBenchOK(cc, bb) /\ People(cc, bb) = People(c, b)
  <2> HIDE DEF from
  <2> QED BY <1>5, <1>6, <1>12, <1>13, MovedSound
<1>15. Night(cc, bb).courts = cc /\ Night(cc, bb).bench = bb
  BY <1>5, <1>6, NightIs
<1>16. /\ maxCourts > 0 /\ Len(c) <= maxCourts => Len(cc) <= maxCourts
       /\ Len(bb) >= 4 => maxCourts > 0 /\ Len(cc) >= maxCourts
  BY <1>3, <1>5, <1>6 DEF n
<1> DEFINE next == GrowCourts(c, b, maxCourts)
<1>17. next.courts = cc /\ next.bench = bb
  BY <1>2, <1>15
<1>18. Len(c) <= Len(cc) /\ \A k \in 1..Len(c) : cc[k] = c[k]
  BY <1>1, <1>3, <1>5 DEF n
<1>19. ToSet(bb) \subseteq ToSet(b)
  <2>1. \A j \in 1..(w - 4*more) : 4*more + j \in 1..w BY <1>1, <1>3
  <2> QED BY <1>1, <1>6, <2>1 DEF ToSet
<1> HIDE DEF next
<1> QED BY <1>5, <1>6, <1>14, <1>16, <1>17, <1>18, <1>19 DEF Grown, next

-----------------------------------------------------------------------------
(* Those who were replaced.                                                *)

\* Nobody holds two seats; no two of those seated share a name.
NoSeatTwice(cc) == \A s, t \in SeatRefs(cc) : cc[s[1]][s[2]] = cc[t[1]][t[2]] => s = t
NamedApart(name, c) == \A p, q \in Seated(c) : name[p] = name[q] => p = q
Renames(name, c, cc) == \A k \in 1..Len(c), i \in 1..4 : cc[k][i] = name[c[k][i]]

\* The same seats under other names.
LEMMA Renamed ==
    ASSUME NEW S, NEW c \in Layouts(S), NEW cc \in Layouts(S), Len(cc) = Len(c), NEW name,
           Renames(name, c, cc)
    PROVE  /\ Seated(cc) = {name[p] : p \in Seated(c)}
           /\ NoSeatTwice(c) /\ NamedApart(name, c) => NoSeatTwice(cc)
<1>1. /\ SeatRefs(cc) = (1..Len(c)) \X (1..4) /\ SeatRefs(c) = (1..Len(c)) \X (1..4)
  BY Seats
<1>2. \A s \in SeatRefs(c) : cc[s[1]][s[2]] = name[c[s[1]][s[2]]] /\ c[s[1]][s[2]] \in Seated(c)
  BY <1>1 DEF Seated, Renames
<1>3. Seated(cc) \subseteq {name[p] : p \in Seated(c)}
  BY <1>1, <1>2 DEF Seated
<1>4. {name[p] : p \in Seated(c)} \subseteq Seated(cc)
  BY <1>1, <1>2 DEF Seated
<1>5. ASSUME NoSeatTwice(c), NamedApart(name, c),
             NEW s \in SeatRefs(cc), NEW t \in SeatRefs(cc), cc[s[1]][s[2]] = cc[t[1]][t[2]]
      PROVE  s = t
  <2>1. c[s[1]][s[2]] = c[t[1]][t[2]] BY <1>1, <1>2, <1>5 DEF NamedApart
  <2> QED BY <1>1, <1>5, <2>1 DEF NoSeatTwice
<1> QED BY <1>3, <1>4, <1>5 DEF NoSeatTwice

\* One hop along the substitutions.
Hop(id, takeover, gone) == IF id \in gone \cap DOMAIN takeover THEN takeover[id] ELSE id

\* Following the substitutions never leaves a set that no substitution leaves.
LEMMA ResolveStays ==
    ASSUME NEW V, NEW takeover, NEW gone, Cardinality(DOMAIN takeover) \in Nat,
           \A v \in V : Hop(v, takeover, gone) \in V, NEW id \in V
    PROVE  Resolve(id, takeover, gone) \in V
<1> DEFINE N == Cardinality(DOMAIN takeover) + 1
           Eq(f) == f = [h \in 0..N |->
                            IF h = 0 THEN id
                            ELSE IF f[h - 1] \in gone \cap DOMAIN takeover
                                 THEN takeover[f[h - 1]]
                                 ELSE f[h - 1]]
           next == [v \in V |-> Hop(v, takeover, gone)]
<1>1. next \in [V -> V] /\ \A v \in V : next[v] = Hop(v, takeover, gone)
  OBVIOUS
<1>2. N \in Nat /\ Resolve(id, takeover, gone) = (CHOOSE f : Eq(f))[N]
  BY DEF Resolve
<1> HIDE DEF N, next
<1>3. HasRun(V, id, N, next)
  BY <1>1, <1>2, RunOf
<1>4. PICK g : Run(g, V, id, N, next)
  BY <1>3 DEF HasRun
<1>5. g \in [0..N -> V] /\ g[0] = id /\ \A i \in 1..N : g[i] = next[g[i - 1]]
  BY <1>4 DEF Run
<1>6. Eq(g)
  <2> DEFINE h == [i \in 0..N |-> IF i = 0 THEN id
                                  ELSE IF g[i - 1] \in gone \cap DOMAIN takeover
                                       THEN takeover[g[i - 1]]
                                       ELSE g[i - 1]]
  <2>1. ASSUME NEW i \in 0..N PROVE g[i] = h[i]
    <3>1. CASE i = 0 BY <1>5, <3>1
    <3>2. CASE i # 0
      <4>1. i \in 1..N /\ i - 1 \in 0..N BY <1>2, <3>2
      <4>2. h[i] = Hop(g[i - 1], takeover, gone) BY <3>2 DEF Hop
      <4> QED BY <1>1, <1>5, <4>1, <4>2
    <3> QED BY <3>1, <3>2
  <2>2. g = [i \in 0..N |-> g[i]] BY <1>5
  <2>3. h = [i \in 0..N |-> h[i]] OBVIOUS
  <2>4. g = h
    <3> HIDE DEF h
    <3> QED BY <2>1, <2>2, <2>3
  <2> QED BY <2>4
<1>7. PICK hop : Eq(hop) /\ Resolve(id, takeover, gone) = hop[N]
  <2> HIDE DEF Eq
  <2> QED BY <1>2, <1>6
<1>8. hop[0] = id
  BY <1>2, <1>7
<1>9. ASSUME NEW i \in 1..N PROVE hop[i] = Hop(hop[i - 1], takeover, gone)
  <2>1. i \in 0..N /\ i # 0 BY <1>2
  <2>2. hop[i] = IF i = 0 THEN id
                 ELSE IF hop[i - 1] \in gone \cap DOMAIN takeover
                      THEN takeover[hop[i - 1]] ELSE hop[i - 1]
    BY <1>7, <2>1, Zenon
  <2> QED BY <2>1, <2>2 DEF Hop
<1> HIDE DEF Eq
<1> DEFINE T == {i \in Nat : i <= N => hop[i] \in V}
<1>10. 0 \in T
  BY <1>8
<1>11. ASSUME NEW i \in Nat, i \in T PROVE i + 1 \in T
  <2> SUFFICES ASSUME i + 1 <= N PROVE hop[i + 1] \in V OBVIOUS
  <2>1. hop[i] \in V BY <1>2, <1>11
  <2>2. i + 1 \in 1..N /\ (i + 1) - 1 = i BY <1>2
  <2> QED BY <1>9, <2>1, <2>2
<1>12. \A i \in Nat : i \in T
  <2> HIDE DEF T
  <2> QED BY <1>10, <1>11, Climb
<1> QED BY <1>2, <1>7, <1>12

\* Layouts that agree on every seat.
LEMMA SameLayout ==
    ASSUME NEW S, NEW c \in Layouts(S), NEW cc \in Layouts(S), Len(cc) = Len(c),
           \A k \in 1..Len(c), i \in 1..4 : cc[k][i] = c[k][i]
    PROVE  cc = c
<1> DEFINE V == [1..4 -> S]
<1>1. c \in Seq(V) /\ cc \in Seq(V)
  BY DEF Layouts
<1>2. ASSUME NEW k \in 1..Len(c) PROVE cc[k] = c[k]
  <2>1. c[k] \in [1..4 -> S] /\ cc[k] \in [1..4 -> S] BY Seats
  <2> QED BY <2>1
<1> HIDE DEF V
<1> QED BY <1>1, <1>2

\* Where the substitutions lead keeps every two of the seats apart.
Apart(c, takeover, gone) ==
    \A p, q \in Seated(c) : Resolve(p, takeover, gone) = Resolve(q, takeover, gone) => p = q

LEMMA TakeoverSeatsEverybodyOnce ==
    ASSUME NEW S, Blank \notin S, NEW c \in Layouts(S), NEW b \in Seq(S), LayoutAndBenchOK(c, b),
           NEW takeover, NEW gone, Cardinality(DOMAIN takeover) \in Nat,
           \A p \in S : Hop(p, takeover, gone) \in S, Apart(c, takeover, gone),
           NEW V, Seated(c) \subseteq V, \A v \in V : Hop(v, takeover, gone) \in V
    PROVE  LET here == ApplyTakeover(c, b, takeover, gone)
           IN  /\ here.courts \in Layouts(S) /\ Len(here.courts) = Len(c) /\ here.bench \in Seq(S)
               /\ LayoutAndBenchOK(here.courts, here.bench)
               /\ Seated(here.courts) \subseteq V
               /\ Seated(c) \cap gone = {} => here.courts = c
<1> DEFINE name == [p \in S |-> Resolve(p, takeover, gone)]
           seats == [k \in DOMAIN c |-> Court(LAMBDA i : Resolve(c[k][i], takeover, gone))]
           queue == [i \in DOMAIN b |-> Resolve(b[i], takeover, gone)]
           q == Without(DedupeIDs(queue), Seated(seats))
<1>1. CASE DOMAIN takeover = {}
  <2>1. ApplyTakeover(c, b, takeover, gone) = Night(c, b) BY <1>1 DEF ApplyTakeover
  <2>2. Night(c, b).courts = c /\ Night(c, b).bench = b BY NightIs
  <2> QED BY <2>1, <2>2
<1>2. CASE DOMAIN takeover # {}
  <2>1. ApplyTakeover(c, b, takeover, gone) = Night(seats, q) BY <1>2 DEF ApplyTakeover
  <2>2. ASSUME NEW p \in S PROVE Resolve(p, takeover, gone) \in S BY ResolveStays
  <2>3. ASSUME NEW p \in V PROVE Resolve(p, takeover, gone) \in V BY ResolveStays
  <2>4. Len(c) \in Nat /\ DOMAIN c = 1..Len(c)
        /\ \A k \in 1..Len(c), i \in 1..4 : c[k][i] \in S
    BY Seats
  <2>5. ASSUME NEW k \in DOMAIN c
        PROVE  /\ seats[k] \in [1..4 -> S]
               /\ \A i \in 1..4 : seats[k][i] = Resolve(c[k][i], takeover, gone)
    <3> DEFINE R(i) == Resolve(c[k][i], takeover, gone)
    <3>1. \A i \in 1..4 : R(i) \in S BY <2>2, <2>4
    <3>2. seats[k] = <<R(1), R(2), R(3), R(4)>> BY DEF Court
    <3> HIDE DEF R, seats
    <3>3. seats[k] \in [1..4 -> S] /\ \A i \in 1..4 : seats[k][i] = R(i) BY <3>1, <3>2
    <3> QED BY <3>3 DEF R
  <2>6. seats \in Layouts(S) /\ Len(seats) = Len(c)
    <3>1. DOMAIN seats = 1..Len(c) BY <2>4
    <3>2. seats = [k \in 1..Len(c) |-> seats[k]] BY <2>4
    <3> HIDE DEF seats
    <3>3. seats \in [1..Len(c) -> [1..4 -> S]] BY <2>4, <2>5, <3>2
    <3> QED BY <2>4, <3>3 DEF Layouts
  <2> HIDE DEF seats
  <2>7. Renames(name, c, seats) BY <2>4, <2>5 DEF Renames
  <2>8. Seated(c) \subseteq S /\ NamedApart(name, c)
    BY Seats DEF Apart, NamedApart
  <2>9. NoSeatTwice(c)
    BY DEF LayoutAndBenchOK, NoSeatTwice
  <2>10. Seated(seats) = {name[p] : p \in Seated(c)} /\ NoSeatTwice(seats)
    <3> HIDE DEF name
    <3> QED BY <2>6, <2>7, <2>8, <2>9, Renamed
  <2>11. Seated(seats) \subseteq V
    BY <2>3, <2>8, <2>10
  <2>12. queue \in Seq(S)
    <3>1. Len(b) \in Nat /\ DOMAIN b = 1..Len(b) /\ \A i \in 1..Len(b) : b[i] \in S OBVIOUS
    <3>2. queue \in [1..Len(b) -> S] BY <2>2, <3>1
    <3> QED BY <3>1, <3>2
  <2> HIDE DEF queue
  <2>13. DedupeIDs(queue) \in Seq(S) /\ IsInjective(DedupeIDs(queue)) BY <2>12, DedupeHolds
  <2>14. q \in Seq(S) /\ ToSet(q) \cap Seated(seats) = {} /\ IsInjective(q)
    BY <2>13, WithoutHolds
  <2> HIDE DEF q
  <2>15. Seated(seats) \subseteq S /\ ToSet(q) \subseteq S BY <2>6, <2>14, Seats DEF ToSet
  <2>16. LayoutAndBenchOK(seats, q) BY <2>10, <2>14, <2>15 DEF LayoutAndBenchOK, NoSeatTwice
  <2>17. Night(seats, q).courts = seats /\ Night(seats, q).bench = q BY <2>6, <2>14, NightIs
  <2>18. Seated(c) \cap gone = {} => seats = c
    <3> SUFFICES ASSUME Seated(c) \cap gone = {} PROVE seats = c
      OBVIOUS
    <3>1. ASSUME NEW p \in Seated(c) PROVE Resolve(p, takeover, gone) = p
      <4>1. \A v \in {p} : Hop(v, takeover, gone) \in {p} BY DEF Hop
      <4>2. Resolve(p, takeover, gone) \in {p} BY <4>1, ResolveStays
      <4> QED BY <4>2
    <3>2. \A k \in 1..Len(c), i \in 1..4 : seats[k][i] = c[k][i]
      BY <2>4, <2>5, <3>1, Seats
    <3> QED BY <2>6, <3>2, SameLayout
  <2> DEFINE here == ApplyTakeover(c, b, takeover, gone)
  <2>19. here.courts = seats /\ here.bench = q BY <2>1, <2>17
  <2> HIDE DEF here
  <2> QED BY <2>6, <2>11, <2>14, <2>16, <2>18, <2>19 DEF here
<1> QED BY <1>1, <1>2

-----------------------------------------------------------------------------
(* The queue, brought in line with who is there.                           *)

LEMMA ReconciledQueue ==
    ASSUME NEW S, Blank \notin S, NEW c \in Layouts(S), NEW b \in Seq(S), LayoutAndBenchOK(c, b),
           NEW active \in Seq(S), IsInjective(active)
    PROVE  LET q == Reconcile(c, b, active)
           IN  /\ q \in Seq(S) /\ LayoutAndBenchOK(c, q)
               /\ People(c, q) = Seated(c) \cup ToSet(active)
<1> DEFINE kept == Within(b, ToSet(active))
           came == Without(active, Seated(c) \cup ToSet(b))
<1>1. kept \in Seq(S) /\ ToSet(kept) = ToSet(b) \cap ToSet(active) /\ IsInjective(kept)
  BY WithinHolds DEF LayoutAndBenchOK
<1>2. /\ came \in Seq(S) /\ ToSet(came) = ToSet(active) \ (Seated(c) \cup ToSet(b))
      /\ IsInjective(came)
  BY WithoutHolds
<1> HIDE DEF kept, came
<1>3. /\ kept \o came \in Seq(S)
      /\ ToSet(kept \o came) = ToSet(kept) \cup ToSet(came)
      /\ IsInjective(kept \o came)
  BY <1>1, <1>2, ConcatHolds
<1>4. Reconcile(c, b, active) = kept \o came
  BY DEF Reconcile, kept, came
<1> DEFINE q == kept \o came
<1>5. q \in Seq(S) /\ IsInjective(q) /\ ToSet(q) = ToSet(kept) \cup ToSet(came)
  BY <1>3
<1> HIDE DEF q
<1>6. ToSet(q) \subseteq S
  BY <1>5 DEF ToSet
<1>7. Seated(c) \cap ToSet(b) = {}
  BY DEF LayoutAndBenchOK
<1>8. ToSet(q) \cap Seated(c) = {} /\ ToSet(q) \cup Seated(c) = Seated(c) \cup ToSet(active)
  BY <1>1, <1>2, <1>5, <1>7
<1>9. LayoutAndBenchOK(c, q)
  BY <1>5, <1>6, <1>8 DEF LayoutAndBenchOK
<1>10. q = Reconcile(c, b, active)
  BY <1>4 DEF q
<1> QED BY <1>5, <1>8, <1>9, <1>10 DEF People

-----------------------------------------------------------------------------
(* The whole plan.                                                         *)

\* A next round that seats or queues exactly these people, once each, within
\* the venue's courts, and with no court shut while four wait.
Accommodated(next, S, people, maxCourts) ==
    /\ next.courts \in Layouts(S) /\ next.bench \in Seq(S)
    /\ LayoutAndBenchOK(next.courts, next.bench)
    /\ People(next.courts, next.bench) = people
    /\ maxCourts > 0 => Len(next.courts) <= maxCourts
    /\ Len(next.bench) >= 4 => maxCourts > 0 /\ Len(next.courts) >= maxCourts

LEMMA OpeningSeatsThoseWhoStay ==
    ASSUME NEW S, NEW moved, moved.courts \in Layouts(S), moved.bench \in Seq(S),
           LayoutAndBenchOK(moved.courts, moved.bench), NEW left, NEW maxCourts \in Nat,
           maxCourts > 0 => Len(moved.courts) <= maxCourts
    PROVE  Accommodated(Opening(moved, left, maxCourts), S,
                  People(moved.courts, moved.bench) \ left, maxCourts)
<1> DEFINE c == moved.courts
           b == moved.bench
           settled == SettleDepartures(c, b, left)
           cc == settled.courts
           bb == settled.bench
           next == GrowCourts(cc, bb, maxCourts)
<1>1. c \in Layouts(S) /\ b \in Seq(S) /\ LayoutAndBenchOK(c, b) /\ Len(c) \in Nat
      /\ (maxCourts > 0 => Len(c) <= maxCourts)
  BY Seats
<1> HIDE DEF c, b
<1>2. /\ cc \in Layouts(S) /\ Len(cc) <= Len(c) /\ bb \in Seq(S) /\ LayoutAndBenchOK(cc, bb)
      /\ People(cc, bb) = People(c, b) \ left
  BY <1>1, DeparturesLeaveTheRest
<1>3. Opening(moved, left, maxCourts) = next
  BY DEF Opening, c, b
<1> HIDE DEF settled, cc, bb
<1>4. Grown(next, S, cc, bb, maxCourts)
  BY <1>2, GrowthSeatsEverybodyOnce
<1>5. Len(cc) \in Nat
  BY <1>2, Seats
<1> HIDE DEF next
<1>6. maxCourts > 0 => Len(cc) <= maxCourts
  BY <1>1, <1>2, <1>5
<1>7. Accommodated(next, S, People(c, b) \ left, maxCourts)
  BY <1>2, <1>4, <1>6 DEF Grown, Accommodated
<1> QED BY <1>3, <1>7 DEF c, b

\* Round 1 is the queue of everybody, growing its courts.
LEMMA SeedIsGrowth ==
    ASSUME NEW S, NEW players \in Seq(S), NEW maxCourts \in Nat
    PROVE  SeedCourts(players, maxCourts) = GrowCourts(<<>>, players, maxCourts)
<1> DEFINE w == Len(players)
           more == More(0, w, maxCourts)
           new == Opened(players, more)
<1>1. w \in Nat /\ w \div 4 \in Nat
  OBVIOUS
<1>2. Len(<<>>) = 0
  OBVIOUS
<1>3. GrowCourts(<<>>, players, maxCourts)
        = Night(<<>> \o new, SubSeq(players, 4*more + 1, w))
  BY <1>2 DEF GrowCourts, More, Opened
<1>4. CourtsFor(w, maxCourts) = more
  <2> DEFINE fill == w \div 4
  <2>1. fill \in Nat BY <1>1
  <2>2. /\ CourtsFor(w, maxCourts) = IF maxCourts > 0 THEN IF fill < maxCourts THEN fill ELSE maxCourts
                                     ELSE fill
        /\ more = IF maxCourts = 0 \/ fill <= maxCourts - 0 THEN fill
                  ELSE IF maxCourts - 0 > 0 THEN maxCourts - 0 ELSE 0
    BY DEF CourtsFor, Least, More
  <2> HIDE DEF fill, more
  <2> QED BY <2>1, <2>2
<1>5. SeedCourts(players, maxCourts) = Night(new, SubSeq(players, 4*more + 1, w))
  <2> HIDE DEF more
  <2> QED BY <1>4 DEF SeedCourts, Opened
<1>6. <<>> \o new = new
  <2> 0 \in Nat OBVIOUS
  <2>1. more \in Nat /\ 4 * more <= w
    <3> HIDE DEF w
    <3> QED BY <1>1, MoreIs
  <2> HIDE DEF more
  <2>2. new \in Seq([1..4 -> S]) BY <2>1, OpenedSeats DEF Layouts
  <2> HIDE DEF new
  <2> QED BY <2>2, ConcatEmptySeq
<1> QED BY <1>3, <1>5, <1>6

\* Round 1 gives every player one place.
THEOREM RoundOneSeatsEverybodyOnce ==
    ASSUME NEW S, Blank \notin S, NEW players \in Seq(S), IsInjective(players),
           NEW maxCourts \in Nat
    PROVE  Accommodated(SeedCourts(players, maxCourts), S, ToSet(players), maxCourts)
<1> DEFINE e == <<>>
           next == SeedCourts(players, maxCourts)
<1>1. /\ e \in Layouts(S) /\ Len(e) = 0 /\ Seated(e) = {} /\ SeatRefs(e) = {}
  BY DEF Layouts, Seated, SeatRefs
<1>2. ToSet(players) \subseteq S
  BY DEF ToSet
<1>3. LayoutAndBenchOK(e, players) /\ People(e, players) = ToSet(players)
  <2> HIDE DEF e
  <2> QED BY <1>1, <1>2 DEF LayoutAndBenchOK, People
<1>4. next = GrowCourts(e, players, maxCourts)
  BY SeedIsGrowth
<1> HIDE DEF e, next
<1>5. Grown(next, S, e, players, maxCourts)
  BY <1>1, <1>3, <1>4, GrowthSeatsEverybodyOnce
<1>6. maxCourts > 0 => Len(e) <= maxCourts
  BY <1>1
<1>7. Accommodated(next, S, ToSet(players), maxCourts)
  BY <1>3, <1>5, <1>6 DEF Grown, Accommodated
<1> QED BY <1>7 DEF next

\* A queue without repeats is as long as the set of those in it.
LEMMA QueueCounts ==
    ASSUME NEW S, NEW q \in Seq(S), IsInjective(q)
    PROVE  Cardinality(ToSet(q)) = Len(q) /\ IsFiniteSet(ToSet(q))
<1>1. Len(q) \in Nat /\ DOMAIN q = 1..Len(q)
  OBVIOUS
<1>2. q \in Bijection(1..Len(q), ToSet(q))
  BY <1>1 DEF Bijection, Injection, Surjection, IsInjective, ToSet
<1>3. ExistsBijection(1..Len(q), ToSet(q))
  BY <1>2 DEF ExistsBijection
<1> QED BY <1>1, <1>3, FS_CountingElements, FS_NatBijection

\* A round opens at least one court for four people.
LEMMA CourtForFour ==
    ASSUME NEW S, NEW next, NEW people, NEW m \in Nat, Accommodated(next, S, people, m),
           Cardinality(people) >= 4
    PROVE  Len(next.courts) # 0
<1> SUFFICES ASSUME Len(next.courts) = 0 PROVE FALSE
  OBVIOUS
<1>1. /\ next.courts \in Layouts(S) /\ next.bench \in Seq(S)
      /\ LayoutAndBenchOK(next.courts, next.bench)
      /\ People(next.courts, next.bench) = people
      /\ Len(next.bench) >= 4 => m > 0 /\ Len(next.courts) >= m
  BY DEF Accommodated
<1>2. Seated(next.courts) = {}
  <2>1. SeatRefs(next.courts) = (1..0) \X (1..4) BY <1>1, Seats
  <2>2. SeatRefs(next.courts) = {} BY <2>1
  <2> QED BY <2>2 DEF Seated
<1>3. ToSet(next.bench) = people
  BY <1>1, <1>2 DEF People
<1>4. Len(next.bench) = Cardinality(people)
  BY <1>1, <1>3, QueueCounts DEF LayoutAndBenchOK
<1> QED BY <1>1, <1>4

\* The board before the plan and what was read with it: one place each; the
\* substitutions keep those seated apart; whoever is seated, or comes in for
\* somebody, is active or has gone.
Snapshot(seen, S) ==
    /\ seen.courts \in Layouts(S) /\ seen.bench \in Seq(S)
    /\ LayoutAndBenchOK(seen.courts, seen.bench)
    /\ "active" \in DOMAIN seen /\ seen.active \in Seq(S) /\ IsInjective(seen.active)
    /\ seen.games \in [S -> Nat]
    /\ Cardinality(DOMAIN seen.takeover) \in Nat
    /\ \A p \in S : Hop(p, seen.takeover, seen.gone) \in S
    /\ Apart(seen.courts, seen.takeover, seen.gone)
    /\ ToSet(seen.active) \cap seen.gone = {}
    /\ Seated(seen.courts) \subseteq ToSet(seen.active) \cup seen.gone
    /\ \A p \in ToSet(seen.active) \cup seen.gone :
           Hop(p, seen.takeover, seen.gone) \in ToSet(seen.active) \cup seen.gone

\* A night without courts goes on without courts.
LEMMA FairMovementKeepsEverybody ==
    ASSUME NEW S, NEW c \in Layouts(S), NEW b \in Seq(S), NEW won, NEW mode,
           NEW plays \in [S -> Nat], LayoutAndBenchOK(c, b)
    PROVE  KeepsEverybody(NextRoundFair(c, won, b, mode, plays), S, c, b)
<1>1. CASE Len(c) # 0
  BY <1>1, FairRoundSeatsEverybodyOnce
<1>2. CASE Len(c) = 0
  <2>1. NextRound(c, won, b, mode) = Night(c, b)
    BY <1>2 DEF NextRound
  <2>2. Night(c, b).courts = c /\ Night(c, b).bench = b
    BY NightIs
  <2>3. c = <<>>
    BY <1>2 DEF Layouts
  <2>4. NextRoundFair(c, won, b, mode, plays) = Night(c, b)
    BY <2>1, <2>2, <2>3 DEF NextRoundFair
  <2> QED BY <2>2, <2>4 DEF KeepsEverybody
<1> QED BY <1>1, <1>2

\* The next round seats or queues whoever is active, and nobody else, and the
\* advance never stops on a layout the engine hands back (AdvanceRotationSession).
THEOREM PlanSeatsWhoeverIsHere ==
    ASSUME NEW S, Blank \notin S, NEW seen, Snapshot(seen, S), NEW won, NEW mode,
           NEW maxCourts \in Nat, maxCourts > 0 => Len(seen.courts) <= maxCourts
    PROVE  /\ Accommodated(PlanNextRound(seen, won, mode, maxCourts), S,
                            ToSet(seen.active), maxCourts)
           /\ Len(seen.courts) # 0 => ~PlanNextRound(seen, won, mode, maxCourts).stuck
<1> DEFINE c == seen.courts
           b == DedupeIDs(seen.bench)
           gone == seen.gone
           active == seen.active
           V == ToSet(active) \cup gone
           here == ApplyTakeover(c, b, seen.takeover, gone)
           hc == here.courts
           hb == here.bench
           queue == Reconcile(hc, hb, active)
           plays == CountClosing(seen.games, Seated(hc))
           moved == NextRoundFair(hc, won, queue, mode, plays)
           next == Opening(moved, gone, maxCourts)
<1>1. c \in Layouts(S) /\ Len(c) \in Nat /\ b \in Seq(S) /\ LayoutAndBenchOK(c, b)
  <2>1. LayoutAndBenchOK(c, seen.bench) /\ seen.bench \in Seq(S) /\ c \in Layouts(S)
    BY DEF Snapshot
  <2>2. b \in Seq(S) /\ ToSet(b) = ToSet(seen.bench) \ {Blank} /\ IsInjective(b)
    BY <2>1, DedupeHolds
  <2> HIDE DEF b
  <2> QED BY <2>1, <2>2, Seats DEF LayoutAndBenchOK
<1>2. /\ Cardinality(DOMAIN seen.takeover) \in Nat
      /\ \A p \in S : Hop(p, seen.takeover, gone) \in S
      /\ Apart(c, seen.takeover, gone)
      /\ Seated(c) \subseteq V
      /\ \A v \in V : Hop(v, seen.takeover, gone) \in V
      /\ active \in Seq(S) /\ IsInjective(active) /\ ToSet(active) \cap gone = {}
      /\ seen.games \in [S -> Nat] /\ "active" \in DOMAIN seen
  BY DEF Snapshot
<1> HIDE DEF b, V
<1>3. /\ hc \in Layouts(S) /\ Len(hc) = Len(c) /\ hb \in Seq(S) /\ LayoutAndBenchOK(hc, hb)
      /\ Seated(hc) \subseteq V
  <2> HIDE DEF c, gone, active
  <2> QED BY <1>1, <1>2, TakeoverSeatsEverybodyOnce
<1>4. PlanNextRound(seen, won, mode, maxCourts).courts = next.courts
      /\ PlanNextRound(seen, won, mode, maxCourts).bench = next.bench
      /\ PlanNextRound(seen, won, mode, maxCourts).stuck = (moved.courts = hc)
  <2>1. PlanNextRound(seen, won, mode, maxCourts) = PlanFrom(here, seen, won, mode, maxCourts)
    BY DEF PlanNextRound, b
  <2>2. PlanFrom(here, seen, won, mode, maxCourts)
          = [courts |-> next.courts, bench |-> next.bench, stuck |-> moved.courts = hc]
    BY <1>2 DEF PlanFrom
  <2> HIDE DEF here, moved, next
  <2> QED BY <2>1, <2>2
<1> HIDE DEF here, hc, hb
<1>5. /\ queue \in Seq(S) /\ LayoutAndBenchOK(hc, queue)
      /\ People(hc, queue) = Seated(hc) \cup ToSet(active)
  <2> HIDE DEF c, gone, active
  <2> QED BY <1>2, <1>3, ReconciledQueue
<1>6. plays \in [S -> Nat]
  BY <1>2 DEF CountClosing
<1> HIDE DEF queue, plays
<1>7. /\ KeepsEverybody(moved, S, hc, queue)
      /\ Len(c) # 0 => moved.courts # hc
  BY <1>3, <1>5, <1>6, FairMovementKeepsEverybody, LegalLayoutsMove
<1> HIDE DEF moved
<1>8. /\ moved.courts \in Layouts(S) /\ moved.bench \in Seq(S)
      /\ LayoutAndBenchOK(moved.courts, moved.bench)
      /\ People(moved.courts, moved.bench) = Seated(hc) \cup ToSet(active)
      /\ maxCourts > 0 => Len(moved.courts) <= maxCourts
  BY <1>3, <1>5, <1>7 DEF KeepsEverybody
<1>9. Accommodated(next, S, People(moved.courts, moved.bench) \ gone, maxCourts)
  <2> HIDE DEF gone
  <2> QED BY <1>8, OpeningSeatsThoseWhoStay
<1>10. People(moved.courts, moved.bench) \ gone = ToSet(active)
  BY <1>2, <1>3, <1>8 DEF V
<1> HIDE DEF next
<1> QED BY <1>4, <1>7, <1>9, <1>10 DEF Accommodated

-----------------------------------------------------------------------------
(* A plan from reads that need not fit together.                           *)

\* The board, whoever it is of.
LEMMA BoardOf ==
    ASSUME NEW S, NEW H, NEW c \in Layouts(S), NEW b \in Seq(S), People(c, b) \subseteq H
    PROVE  c \in Layouts(H) /\ b \in Seq(H)
<1>1. Len(c) \in Nat /\ DOMAIN c = 1..Len(c) /\ \A k \in 1..Len(c) : c[k] \in [1..4 -> S]
  BY Seats
<1>2. \A k \in 1..Len(c), i \in 1..4 : c[k][i] \in H
  BY Seats DEF People
<1>3. c \in [1..Len(c) -> [1..4 -> H]]
  <2>1. \A k \in 1..Len(c) : c[k] \in [1..4 -> H] BY <1>1, <1>2
  <2>2. c = [k \in 1..Len(c) |-> c[k]] BY <1>1 DEF Layouts
  <2> QED BY <2>1, <2>2
<1>4. \A i \in 1..Len(b) : b[i] \in H
  BY DEF People, ToSet
<1>5. b \in Seq(H)
  <2>1. b = [i \in 1..Len(b) |-> b[i]] /\ Len(b) \in Nat OBVIOUS
  <2> QED BY <1>4, <2>1
<1> DEFINE V == [1..4 -> H]
<1>6. Layouts(H) = Seq(V)
  BY DEF Layouts
<1>7. c \in [1..Len(c) -> V]
  BY <1>3
<1> HIDE DEF V
<1>8. c \in Seq(V)
  BY <1>1, <1>7
<1> QED BY <1>5, <1>6, <1>8

\* Seats and queue after the substitutions, when nothing is known of who holds
\* them but that they are somebody.
LEMMA TakeoverKeepsTheShape ==
    ASSUME NEW S, NEW c \in Layouts(S), NEW b \in Seq(S), NEW takeover, NEW gone,
           Cardinality(DOMAIN takeover) \in Nat,
           \A p \in S : Hop(p, takeover, gone) \in S
    PROVE  LET here == ApplyTakeover(c, b, takeover, gone)
           IN  here.courts \in Layouts(S) /\ here.bench \in Seq(S)
<1> DEFINE seats == [k \in DOMAIN c |-> Court(LAMBDA i : Resolve(c[k][i], takeover, gone))]
           queue == [i \in DOMAIN b |-> Resolve(b[i], takeover, gone)]
           q == Without(DedupeIDs(queue), Seated(seats))
<1>1. CASE DOMAIN takeover = {}
  <2>1. ApplyTakeover(c, b, takeover, gone) = Night(c, b) BY <1>1 DEF ApplyTakeover
  <2>2. Night(c, b).courts = c /\ Night(c, b).bench = b BY NightIs
  <2> QED BY <2>1, <2>2
<1>2. CASE DOMAIN takeover # {}
  <2>1. ApplyTakeover(c, b, takeover, gone) = Night(seats, q) BY <1>2 DEF ApplyTakeover
  <2>2. ASSUME NEW p \in S PROVE Resolve(p, takeover, gone) \in S BY ResolveStays
  <2>3. Len(c) \in Nat /\ DOMAIN c = 1..Len(c)
        /\ \A k \in 1..Len(c), i \in 1..4 : c[k][i] \in S
    BY Seats
  <2>4. ASSUME NEW k \in DOMAIN c PROVE seats[k] \in [1..4 -> S]
    <3> DEFINE R(i) == Resolve(c[k][i], takeover, gone)
    <3>1. \A i \in 1..4 : R(i) \in S BY <2>2, <2>3
    <3>2. seats[k] = <<R(1), R(2), R(3), R(4)>> BY DEF Court
    <3> HIDE DEF R, seats
    <3> QED BY <3>1, <3>2
  <2>5. seats \in Layouts(S)
    <3>1. seats = [k \in 1..Len(c) |-> seats[k]] BY <2>3
    <3> HIDE DEF seats
    <3>2. seats \in [1..Len(c) -> [1..4 -> S]] BY <2>3, <2>4, <3>1
    <3> QED BY <2>3, <3>2 DEF Layouts
  <2> HIDE DEF seats
  <2>6. queue \in Seq(S)
    <3>1. Len(b) \in Nat /\ DOMAIN b = 1..Len(b) /\ \A i \in 1..Len(b) : b[i] \in S OBVIOUS
    <3>2. queue \in [1..Len(b) -> S] BY <2>2, <3>1
    <3> QED BY <3>1, <3>2
  <2> HIDE DEF queue
  <2>7. q \in Seq(S) BY <2>6, DedupeHolds, WithoutHolds
  <2> HIDE DEF q
  <2>8. Night(seats, q).courts = seats /\ Night(seats, q).bench = q BY <2>5, <2>7, NightIs
  <2> QED BY <2>1, <2>5, <2>7, <2>8
<1> QED BY <1>1, <1>2

\* Courts, queue, substitutions and roster that were each read at another
\* moment: nothing but that they name people of H.
AnyReads(seen, S, H) ==
    /\ seen.courts \in Layouts(H) /\ seen.bench \in Seq(H)
    /\ "active" \in DOMAIN seen => seen.active \in Seq(H)
    /\ seen.games \in [S -> Nat]
    /\ Cardinality(DOMAIN seen.takeover) \in Nat
    /\ \A p \in H : Hop(p, seen.takeover, seen.gone) \in H

\* What the movement hands on, when it hands on anything but what it was given.
LEMMA MovedMeansLegal ==
    ASSUME NEW S, NEW c \in Layouts(S), NEW b \in Seq(S), NEW won, NEW mode, NEW plays,
           NextRoundFair(c, won, b, mode, plays).courts # c
    PROVE  LayoutAndBenchOK(c, b)
<1> SUFFICES ASSUME ~LayoutAndBenchOK(c, b) PROVE FALSE
  OBVIOUS
<1>1. NextRound(c, won, b, mode) = Night(c, b)
  BY DEF NextRound
<1>2. Night(c, b).courts = c /\ Night(c, b).bench = b
  BY NightIs
<1>3. NextRoundFair(c, won, b, mode, plays) = Night(c, b)
  BY <1>1, <1>2 DEF NextRoundFair
<1> QED BY <1>2, <1>3

\* Whatever an advance read, however stale and however the reads disagree: a
\* plan that is not held gives each of its people one place, and has nobody in
\* it who was not in what was read, or had gone (the engine's check, NextRound;
\* settleDepartures).
THEOREM AnyPlanIsLegal ==
    ASSUME NEW S, Blank \notin S, NEW H \in SUBSET S, NEW seen, AnyReads(seen, S, H),
           NEW won, NEW mode, NEW maxCourts \in Nat,
           ~PlanNextRound(seen, won, mode, maxCourts).stuck
    PROVE  LET plan == PlanNextRound(seen, won, mode, maxCourts)
           IN  /\ plan.courts \in Layouts(H) /\ plan.bench \in Seq(H)
               /\ LayoutAndBenchOK(plan.courts, plan.bench)
               /\ People(plan.courts, plan.bench) \cap seen.gone = {}
<1> DEFINE b == DedupeIDs(seen.bench)
           here == ApplyTakeover(seen.courts, b, seen.takeover, seen.gone)
           hc == here.courts
           hb == here.bench
           queue == IF "active" \in DOMAIN seen THEN Reconcile(hc, hb, seen.active) ELSE hb
           plays == CountClosing(seen.games, Seated(hc))
           moved == NextRoundFair(hc, won, queue, mode, plays)
           mc == moved.courts
           mb == moved.bench
           settled == SettleDepartures(mc, mb, seen.gone)
           sc == settled.courts
           sb == settled.bench
           next == GrowCourts(sc, sb, maxCourts)
           plan == PlanNextRound(seen, won, mode, maxCourts)
<1>1. plan = [courts |-> next.courts, bench |-> next.bench, stuck |-> moved.courts = hc]
  BY DEF PlanNextRound, PlanFrom, Opening
<1>2. hc \in Layouts(H) /\ hb \in Seq(H)
  <2>1. b \in Seq(H) BY DedupeHolds DEF AnyReads
  <2> HIDE DEF b
  <2> QED BY <2>1, TakeoverKeepsTheShape DEF AnyReads
<1>3. queue \in Seq(H)
  <2> HIDE DEF hc, hb
  <2>1. CASE "active" \in DOMAIN seen
    <3> DEFINE kept == Within(hb, ToSet(seen.active))
               came == Without(seen.active, Seated(hc) \cup ToSet(hb))
    <3>1. kept \in Seq(H) BY <1>2, WithinHolds
    <3>2. came \in Seq(H) BY <2>1, WithoutHolds DEF AnyReads
    <3> HIDE DEF kept, came
    <3>3. kept \o came \in Seq(H) BY <3>1, <3>2
    <3> QED BY <2>1, <3>3 DEF Reconcile, kept, came
  <2> QED BY <1>2, <2>1
<1>4. plays \in [S -> Nat]
  BY DEF CountClosing, AnyReads
<1>5. moved.courts # hc
  <2>1. ~plan.stuck OBVIOUS
  <2> HIDE DEF plan, next, moved, hc
  <2>2. plan.stuck = (moved.courts = hc) BY <1>1
  <2> QED BY <2>1, <2>2
<1> HIDE DEF hc, hb, queue, plays, here
<1>6. hc \in Layouts(S) /\ queue \in Seq(S) /\ LayoutAndBenchOK(hc, queue)
  <2>1. hc \in Layouts(S) /\ queue \in Seq(S)
    <3>1. People(hc, queue) \subseteq S
      <4>1. Seated(hc) \subseteq H BY <1>2, Seats
      <4> QED BY <1>3, <4>1 DEF People, ToSet
    <3> QED BY <1>2, <1>3, <3>1, BoardOf
  <2> QED BY <1>5, <2>1, MovedMeansLegal
<1>7. People(hc, queue) \subseteq H
  <2>1. Seated(hc) \subseteq H BY <1>2, Seats
  <2> QED BY <1>3, <2>1 DEF People, ToSet
<1>8. KeepsEverybody(moved, S, hc, queue)
  BY <1>4, <1>6, FairMovementKeepsEverybody
<1> HIDE DEF moved
<1>9. /\ mc \in Layouts(S) /\ mb \in Seq(S) /\ LayoutAndBenchOK(mc, mb)
      /\ People(mc, mb) \subseteq H
  BY <1>7, <1>8 DEF KeepsEverybody
<1> HIDE DEF mc, mb
<1>10. /\ sc \in Layouts(S) /\ sb \in Seq(S) /\ LayoutAndBenchOK(sc, sb)
       /\ People(sc, sb) \subseteq H /\ People(sc, sb) \cap seen.gone = {}
  BY <1>9, DeparturesLeaveTheRest
<1> HIDE DEF settled, sc, sb
<1>11. Grown(next, S, sc, sb, maxCourts)
  BY <1>10, GrowthSeatsEverybodyOnce
<1> HIDE DEF next
<1>12. /\ next.courts \in Layouts(S) /\ next.bench \in Seq(S)
       /\ LayoutAndBenchOK(next.courts, next.bench)
       /\ People(next.courts, next.bench) \subseteq H
       /\ People(next.courts, next.bench) \cap seen.gone = {}
  BY <1>10, <1>11 DEF Grown
<1>13. next.courts \in Layouts(H) /\ next.bench \in Seq(H)
  BY <1>12, BoardOf
<1>14. plan.courts = next.courts /\ plan.bench = next.bench
  BY <1>1
<1> HIDE DEF plan
<1>15. plan.courts \in Layouts(H) /\ plan.bench \in Seq(H)
       /\ LayoutAndBenchOK(plan.courts, plan.bench)
       /\ People(plan.courts, plan.bench) \cap seen.gone = {}
  BY <1>12, <1>13, <1>14
<1> QED BY <1>15 DEF plan

\* The board and the queue fit together, and the substitutions keep those
\* seated apart: then the round is not held, whatever was read of the roster.
LEMMA PlansMove ==
    ASSUME NEW S, Blank \notin S, NEW seen, AnyReads(seen, S, S), Len(seen.courts) # 0,
           LayoutAndBenchOK(seen.courts, seen.bench),
           Apart(seen.courts, seen.takeover, seen.gone),
           "active" \in DOMAIN seen => IsInjective(seen.active),
           NEW won, NEW mode, NEW maxCourts
    PROVE  ~PlanNextRound(seen, won, mode, maxCourts).stuck
<1> DEFINE c == seen.courts
           b == DedupeIDs(seen.bench)
           here == ApplyTakeover(c, b, seen.takeover, seen.gone)
           hc == here.courts
           hb == here.bench
           queue == IF "active" \in DOMAIN seen THEN Reconcile(hc, hb, seen.active) ELSE hb
           plays == CountClosing(seen.games, Seated(hc))
           moved == NextRoundFair(hc, won, queue, mode, plays)
           next == Opening(moved, seen.gone, maxCourts)
<1>1. c \in Layouts(S) /\ b \in Seq(S) /\ LayoutAndBenchOK(c, b)
  <2>1. seen.bench \in Seq(S) /\ c \in Layouts(S)
    BY DEF AnyReads
  <2>2. b \in Seq(S) /\ ToSet(b) = ToSet(seen.bench) \ {Blank} /\ IsInjective(b)
    BY <2>1, DedupeHolds
  <2> HIDE DEF b
  <2> QED BY <2>1, <2>2 DEF LayoutAndBenchOK
<1> DEFINE takeover == seen.takeover
           gone == seen.gone
<1>2. /\ Cardinality(DOMAIN takeover) \in Nat /\ Apart(c, takeover, gone)
      /\ \A p \in S : Hop(p, takeover, gone) \in S
  BY DEF AnyReads
<1> HIDE DEF b
<1>3. hc \in Layouts(S) /\ Len(hc) = Len(c) /\ hb \in Seq(S) /\ LayoutAndBenchOK(hc, hb)
  <2>1. Seated(c) \subseteq S BY <1>1, Seats
  <2>2. here = ApplyTakeover(c, b, takeover, gone) OBVIOUS
  <2> HIDE DEF c, takeover, gone, here
  <2> QED BY <1>1, <1>2, <2>1, <2>2, TakeoverSeatsEverybodyOnce
<1>4. PlanNextRound(seen, won, mode, maxCourts).stuck = (moved.courts = hc)
  <2>1. PlanNextRound(seen, won, mode, maxCourts)
          = [courts |-> next.courts, bench |-> next.bench, stuck |-> moved.courts = hc]
    BY DEF PlanNextRound, PlanFrom, b
  <2> HIDE DEF here, moved, next
  <2> QED BY <2>1
<1> HIDE DEF here, hc, hb
<1>5. queue \in Seq(S) /\ LayoutAndBenchOK(hc, queue)
  <2>1. CASE "active" \in DOMAIN seen
    <3> DEFINE active == seen.active
    <3>1. active \in Seq(S) /\ IsInjective(active) BY <2>1 DEF AnyReads
    <3>2. queue = Reconcile(hc, hb, active) BY <2>1
    <3> HIDE DEF active, queue
    <3> QED BY <1>3, <3>1, <3>2, ReconciledQueue
  <2> QED BY <1>3, <2>1
<1>6. plays \in [S -> Nat]
  BY DEF CountClosing, AnyReads
<1> HIDE DEF queue, plays
<1>7. moved.courts # hc
  BY <1>3, <1>5, <1>6, LegalLayoutsMove
<1> HIDE DEF moved, hc
<1> QED BY <1>4, <1>7

\* Several who are not there queue at the back.
LEMMA QueueGrows ==
    ASSUME NEW S, Blank \notin S, NEW c \in Layouts(S), NEW b \in Seq(S), LayoutAndBenchOK(c, b),
           NEW ids \in Seq(S), IsInjective(ids), ToSet(ids) \cap People(c, b) = {}
    PROVE  /\ LayoutAndBenchOK(c, b \o ids)
           /\ People(c, b \o ids) = People(c, b) \cup ToSet(ids)
<1>1. /\ b \o ids \in Seq(S) /\ ToSet(b \o ids) = ToSet(b) \cup ToSet(ids)
      /\ IsInjective(b \o ids)
  BY ConcatHolds DEF LayoutAndBenchOK, People
<1>2. Blank \notin ToSet(ids)
  BY DEF ToSet
<1> DEFINE q == b \o ids
<1> HIDE DEF q
<1> QED BY <1>1, <1>2 DEF LayoutAndBenchOK, People

-----------------------------------------------------------------------------
(* A round nobody walked off in.                                           *)

\* The courts after the engine's movement of the board, with q for a queue,
\* and perhaps more courts below; nobody queues whom the movement did not.
OpensAs(next, S, c, q, active, won, mode, plays) ==
    LET moved == NextRoundFair(c, won, q, mode, plays)
    IN  /\ q \in Seq(S) /\ LayoutAndBenchOK(c, q) /\ ToSet(q) = active \ Seated(c)
        /\ Len(c) <= Len(next.courts)
        /\ \A k \in 1..Len(c) : next.courts[k] = moved.courts[k]
        /\ ToSet(next.bench) \subseteq ToSet(moved.bench)

OpensUndisturbed(next, S, c, active, won, mode, plays) ==
    \E q : OpensAs(next, S, c, q, active, won, mode, plays)

\* With nobody gone from the courts, substitutions, departures and new courts
\* leave the engine's movement as it is.
LEMMA PlanOfTheUndisturbed ==
    ASSUME NEW S, Blank \notin S, NEW seen, Snapshot(seen, S), NEW won, NEW mode,
           NEW maxCourts \in Nat, Seated(seen.courts) \cap seen.gone = {}
    PROVE  OpensUndisturbed(PlanNextRound(seen, won, mode, maxCourts), S, seen.courts,
                            ToSet(seen.active), won, mode,
                            CountClosing(seen.games, Seated(seen.courts)))
<1> DEFINE c == seen.courts
           b == DedupeIDs(seen.bench)
           gone == seen.gone
           active == seen.active
           V == ToSet(active) \cup gone
           here == ApplyTakeover(c, b, seen.takeover, gone)
           hb == here.bench
           queue == Reconcile(c, hb, active)
           plays == CountClosing(seen.games, Seated(c))
           moved == NextRoundFair(c, won, queue, mode, plays)
           settled == SettleDepartures(moved.courts, moved.bench, gone)
           next == GrowCourts(settled.courts, settled.bench, maxCourts)
<1>1. c \in Layouts(S) /\ Len(c) \in Nat /\ b \in Seq(S) /\ LayoutAndBenchOK(c, b)
  <2>1. LayoutAndBenchOK(c, seen.bench) /\ seen.bench \in Seq(S) /\ c \in Layouts(S)
    BY DEF Snapshot
  <2>2. b \in Seq(S) /\ ToSet(b) = ToSet(seen.bench) \ {Blank} /\ IsInjective(b)
    BY <2>1, DedupeHolds
  <2> HIDE DEF b
  <2> QED BY <2>1, <2>2, Seats DEF LayoutAndBenchOK
<1>2. /\ Cardinality(DOMAIN seen.takeover) \in Nat
      /\ \A p \in S : Hop(p, seen.takeover, gone) \in S
      /\ Apart(c, seen.takeover, gone)
      /\ Seated(c) \subseteq V
      /\ \A v \in V : Hop(v, seen.takeover, gone) \in V
      /\ active \in Seq(S) /\ IsInjective(active) /\ ToSet(active) \cap gone = {}
      /\ seen.games \in [S -> Nat] /\ "active" \in DOMAIN seen
  BY DEF Snapshot
<1> HIDE DEF b, V
<1>3. here.courts = c /\ hb \in Seq(S) /\ LayoutAndBenchOK(c, hb)
  <2>1. Seated(c) \cap gone = {} OBVIOUS
  <2> HIDE DEF c, gone, active
  <2> QED BY <1>1, <1>2, <2>1, TakeoverSeatsEverybodyOnce
<1>4. /\ PlanNextRound(seen, won, mode, maxCourts).courts = next.courts
      /\ PlanNextRound(seen, won, mode, maxCourts).bench = next.bench
  <2>1. PlanNextRound(seen, won, mode, maxCourts) = PlanFrom(here, seen, won, mode, maxCourts)
    BY DEF PlanNextRound, b
  <2>2. PlanFrom(here, seen, won, mode, maxCourts)
          = [courts |-> next.courts, bench |-> next.bench, stuck |-> moved.courts = c]
    BY <1>2, <1>3 DEF PlanFrom, Opening
  <2> HIDE DEF here, moved, next
  <2> QED BY <2>1, <2>2
<1> HIDE DEF here, hb
<1>5. /\ queue \in Seq(S) /\ LayoutAndBenchOK(c, queue)
      /\ People(c, queue) = Seated(c) \cup ToSet(active)
  <2> HIDE DEF c, gone, active
  <2> QED BY <1>1, <1>2, <1>3, ReconciledQueue
<1>6. plays \in [S -> Nat]
  BY <1>2 DEF CountClosing
<1> HIDE DEF queue, plays
<1>7. KeepsEverybody(moved, S, c, queue)
  BY <1>1, <1>5, <1>6, FairMovementKeepsEverybody
<1>8. ToSet(queue) = ToSet(active) \ Seated(c)
  BY <1>5 DEF People, LayoutAndBenchOK
<1> HIDE DEF moved
<1>9. /\ moved.courts \in Layouts(S) /\ Len(moved.courts) = Len(c) /\ moved.bench \in Seq(S)
      /\ LayoutAndBenchOK(moved.courts, moved.bench)
      /\ Seated(moved.courts) \cap (gone \cup {Blank}) = {}
  <2>1. Seated(moved.courts) \subseteq Seated(c) \cup ToSet(active)
    BY <1>5, <1>7 DEF KeepsEverybody, People
  <2>2. (Seated(c) \cup ToSet(active)) \cap gone = {}
    BY <1>2
  <2>3. Blank \notin Seated(moved.courts)
    BY <1>7 DEF KeepsEverybody, LayoutAndBenchOK
  <2> QED BY <1>7, <2>1, <2>2, <2>3 DEF KeepsEverybody
<1>10. Untouched(settled, S, moved.courts, moved.bench)
  <2> HIDE DEF gone
  <2> QED BY <1>9, NobodyToSettle
<1> HIDE DEF settled
<1>11. /\ settled.courts = moved.courts /\ settled.bench \in Seq(S)
       /\ ToSet(settled.bench) \subseteq ToSet(moved.bench)
  BY <1>10 DEF Untouched
<1>12. Grown(next, S, moved.courts, settled.bench, maxCourts)
  <2>1. ToSet(settled.bench) \subseteq S /\ LayoutAndBenchOK(settled.courts, settled.bench)
    <3> DEFINE after == SettleDepartures(moved.courts, moved.bench, gone)
    <3>1. LayoutAndBenchOK(after.courts, after.bench)
      <4> HIDE DEF gone
      <4> QED BY <1>9, DeparturesLeaveTheRest
    <3> QED BY <1>11, <3>1 DEF settled, ToSet
  <2> QED BY <1>9, <1>11, <2>1, GrowthSeatsEverybodyOnce
<1> HIDE DEF next
<1>13. OpensAs(next, S, c, queue, ToSet(active), won, mode, plays)
  <2>1. /\ Len(c) <= Len(next.courts)
        /\ \A k \in 1..Len(c) : next.courts[k] = moved.courts[k]
        /\ ToSet(next.bench) \subseteq ToSet(moved.bench)
    BY <1>9, <1>11, <1>12 DEF Grown
  <2> HIDE DEF c, active
  <2> QED BY <1>5, <1>8, <2>1 DEF OpensAs, moved
<1> DEFINE plan == PlanNextRound(seen, won, mode, maxCourts)
<1>14. plan.courts = next.courts /\ plan.bench = next.bench
  BY <1>4
<1> HIDE DEF plan, c, active
<1>15. OpensAs(plan, S, c, queue, ToSet(active), won, mode, plays)
  BY <1>13, <1>14 DEF OpensAs
<1>16. OpensUndisturbed(plan, S, c, ToSet(active), won, mode, plays)
  BY <1>15 DEF OpensUndisturbed
<1> QED BY <1>16 DEF plan, c, active, plays

-----------------------------------------------------------------------------
(* Lines of players: everybody with whoever came in for them, and so on.   *)

\* rep names the last of each line.  No two of those nobody came in for, and
\* no two of the people, are of one line; whoever is away is alone in theirs.
Line(rep, take, people, away, S) ==
    /\ rep \in [S -> S]
    /\ \A p \in DOMAIN take : rep[take[p]] = rep[p]
    /\ \A p, q \in S \ DOMAIN take : rep[p] = rep[q] => p = q
    /\ \A p, q \in people : rep[p] = rep[q] => p = q
    /\ \A p \in away, q \in S : rep[p] = rep[q] => p = q

HasLine(take, people, away, S) == \E rep : Line(rep, take, people, away, S)

Adds(take2, take, out, new) ==
    /\ DOMAIN take2 = DOMAIN take \cup {out} /\ take2[out] = new
    /\ \A p \in DOMAIN take : take2[p] = take[p]

\* Somebody who is away comes in for out.
LEMMA LineGrows ==
    ASSUME NEW S, NEW rep, NEW take, NEW people \in SUBSET S, NEW away \in SUBSET S,
           Line(rep, take, people, away, S), away \cap people = {},
           take \in [DOMAIN take -> S], DOMAIN take \subseteq S,
           NEW out \in S \ DOMAIN take, out \notin away, NEW new \in away,
           NEW take2, Adds(take2, take, out, new),
           NEW people2, people2 \subseteq people \cup {new},
           new \in people2 => out \in people /\ out \notin people2
    PROVE  HasLine(take2, people2, away \ {new}, S)
<1> DEFINE rep2 == [q \in S |-> IF rep[q] = rep[out] THEN rep[new] ELSE rep[q]]
<1>1. /\ rep2 \in [S -> S]
      /\ \A q \in S : rep2[q] = IF rep[q] = rep[out] THEN rep[new] ELSE rep[q]
  BY DEF Line
<1> HIDE DEF rep2
<1>2. rep[new] # rep[out]
  BY DEF Line
<1>3. ASSUME NEW p \in DOMAIN take2 PROVE rep2[take2[p]] = rep2[p]
  <2>1. CASE p = out BY <1>1, <2>1 DEF Adds
  <2>2. CASE p \in DOMAIN take
    <3>1. take2[p] = take[p] /\ take[p] \in S /\ p \in S /\ rep[take[p]] = rep[p]
      BY <2>2 DEF Line, Adds
    <3> QED BY <1>1, <3>1
  <2> QED BY <2>1, <2>2 DEF Adds
<1>4. ASSUME NEW p \in S \ DOMAIN take2, NEW q \in S \ DOMAIN take2, rep2[p] = rep2[q]
      PROVE  p = q
  <2>1. rep[p] # rep[out] /\ rep[q] # rep[out] BY DEF Line, Adds
  <2> QED BY <1>1, <1>4, <2>1 DEF Line, Adds
<1>5. ASSUME NEW p \in people2, NEW q \in people2, rep2[p] = rep2[q] PROVE p = q
  <2>1. p \in people \cup {new} /\ q \in people \cup {new} OBVIOUS
  <2>2. ASSUME NEW x \in people2, x \in people PROVE ~(x = new) /\ (rep[x] = rep[out] => new \notin people2)
    <3>1. x # new BY <2>2
    <3>2. ASSUME rep[x] = rep[out], new \in people2 PROVE FALSE
      <4>1. x = out BY <2>2, <3>2 DEF Line
      <4> QED BY <2>2, <3>2, <4>1
    <3> QED BY <3>1, <3>2
  <2>3. ASSUME NEW x \in people2, x \in people PROVE new \in people2 => rep2[x] # rep2[new]
    <3> SUFFICES ASSUME new \in people2, rep2[x] = rep2[new] PROVE FALSE OBVIOUS
    <3>1. rep2[new] = rep[new] BY <1>1
    <3>2. rep2[x] = rep[x] /\ x \in S BY <1>1, <2>2, <2>3
    <3>3. x = new BY <3>1, <3>2 DEF Line
    <3> QED BY <2>2, <2>3, <3>3
  <2>4. CASE p \in people /\ q \in people
    <3>1. p \in S /\ q \in S BY <2>4
    <3>2. rep[p] # rep[new] /\ rep[q] # rep[new]
      <4> p # new /\ q # new BY <2>4
      <4> QED BY <3>1 DEF Line
    <3>3. rep[p] = rep[q] BY <1>1, <1>5, <3>1, <3>2
    <3> QED BY <2>4, <3>3 DEF Line
  <2>5. CASE p = new /\ q = new BY <2>5
  <2>6. CASE p \in people /\ q = new BY <1>5, <2>3, <2>6
  <2>7. CASE p = new /\ q \in people BY <1>5, <2>3, <2>7
  <2> QED BY <2>1, <2>4, <2>5, <2>6, <2>7
<1>6. ASSUME NEW p \in away \ {new}, NEW q \in S, rep2[p] = rep2[q] PROVE p = q
  <2>1. rep[p] # rep[out] /\ rep[p] # rep[new] /\ p \in S BY DEF Line
  <2>2. rep2[p] = rep[p] BY <1>1, <2>1
  <2>3. rep[p] = rep[q] BY <1>1, <1>6, <2>1, <2>2
  <2> QED BY <2>3 DEF Line
<1>7. Line(rep2, take2, people2, away \ {new}, S)
  BY <1>1, <1>3, <1>4, <1>5, <1>6 DEF Line
<1> QED BY <1>7 DEF HasLine

\* Followed to where it leads, nobody leaves their line.
LEMMA LineApart ==
    ASSUME NEW S, NEW rep, NEW take, NEW people, NEW away, Line(rep, take, people, away, S),
           take \in [DOMAIN take -> S], Cardinality(DOMAIN take) \in Nat, NEW gone,
           NEW c, Seated(c) \subseteq people, Seated(c) \subseteq S
    PROVE  Apart(c, take, gone)
<1>1. ASSUME NEW p \in S PROVE rep[Resolve(p, take, gone)] = rep[p]
  <2> DEFINE V == {v \in S : rep[v] = rep[p]}
  <2>1. p \in V OBVIOUS
  <2>2. \A v \in V : Hop(v, take, gone) \in V BY DEF Hop, Line
  <2> HIDE DEF V
  <2>3. Resolve(p, take, gone) \in V BY <2>1, <2>2, ResolveStays
  <2> QED BY <2>3 DEF V
<1> QED BY <1>1 DEF Apart, Line

\* The same places under names nobody shares.
NamesPlaces(name, c, b, cc, bb) ==
    \A p \in Places(c, b) : Holder(cc, bb, p) = name[Holder(c, b, p)]

LEMMA NamedSound ==
    ASSUME NEW S, Blank \notin S, NEW c \in Layouts(S), NEW b \in Seq(S), LayoutAndBenchOK(c, b),
           NEW cc \in Layouts(S), Len(cc) = Len(c), NEW bb \in Seq(S), Len(bb) = Len(b),
           NEW name, NamesPlaces(name, c, b, cc, bb),
           \A p, q \in People(c, b) : name[p] = name[q] => p = q
    PROVE  /\ LayoutAndBenchOK(cc, bb)
           /\ People(cc, bb) = {name[p] : p \in People(c, b)}
<1>1. /\ Sound(c, b) /\ People(c, b) = {Holder(c, b, p) : p \in Places(c, b)}
      /\ LayoutAndBenchOK(cc, bb) <=> Sound(cc, bb)
      /\ People(cc, bb) = {Holder(cc, bb, p) : p \in Places(cc, bb)}
  BY SoundMeans
<1>2. Places(cc, bb) = Places(c, b)
  <2>1. SeatRefs(cc) = SeatRefs(c) BY Seats
  <2>2. DOMAIN bb = DOMAIN b OBVIOUS
  <2> QED BY <2>1, <2>2 DEF Places
<1>3. People(cc, bb) = {name[p] : p \in People(c, b)}
  BY <1>1, <1>2 DEF NamesPlaces
<1>4. People(cc, bb) \subseteq S
  <2> Seated(cc) \subseteq S BY Seats
  <2> QED BY DEF People, ToSet
<1>5. Sound(cc, bb)
  BY <1>1, <1>2, <1>4 DEF Sound, NamesPlaces
<1> QED BY <1>1, <1>3, <1>5
=============================================================================
