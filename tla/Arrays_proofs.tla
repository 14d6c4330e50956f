---------------------------- MODULE Arrays_proofs ----------------------------
(* Lemmas about lists that the proofs of several components cite: induction   *)
(* over the turns of a loop, and what a filter leaves.                        *)
EXTENDS Arrays, FiniteSetTheorems, WellFoundedInduction, TLAPS

(* A set of natural numbers that is not empty has a least element. *)
LEMMA Least ==
  ASSUME NEW S \in SUBSET Nat, S # {}
  PROVE  \E x \in S : \A y \in S : x <= y
<1>1. PICK x \in S : \A y \in S : ~(<<y, x>> \in OpToRel(<, Nat))
  BY NatLessThanWellFounded, WFMin
<1>2. \A y \in S : x <= y
  <2>1. ASSUME NEW y \in S, y < x PROVE FALSE BY <1>1, <2>1 DEF OpToRel
  <2>2. \A y \in S : ~(y < x) BY <2>1
  <2> QED BY <2>2
<1> QED BY <1>2

(* Induction, for a property that is given as a set. *)
LEMMA Induction ==
  ASSUME NEW S, 0 \in S, \A n \in Nat : n \in S => n + 1 \in S
  PROVE  \A n \in Nat : n \in S
<1> DEFINE T == {n \in Nat : n \notin S}
<1>1. SUFFICES ASSUME T # {} PROVE FALSE OBVIOUS
<1>2. PICK x \in T : \A y \in T : x <= y
  <2>1. T \in SUBSET Nat OBVIOUS
  <2> HIDE DEF T
  <2> QED BY <1>1, <2>1, Least
<1>3. x \in Nat /\ x \notin S /\ x # 0 OBVIOUS
<1>4. x - 1 \in Nat /\ (x - 1) + 1 = x BY <1>3
<1>5. x - 1 \in S BY <1>2, <1>4
<1> QED BY <1>3, <1>4, <1>5

(* The positions S in their order. *)
PlaceOf(S) ==
    [k \in 1..Cardinality(S) |-> CHOOSE i \in S : Cardinality({j \in S : j < i}) = k - 1]

LEMMA Places ==
  ASSUME NEW N \in Nat, NEW S \in SUBSET (1..N)
  PROVE  /\ PlaceOf(S) \in [1..Cardinality(S) -> S]
         /\ Cardinality(S) \in Nat
         /\ \A k, l \in 1..Cardinality(S) : PlaceOf(S)[k] = PlaceOf(S)[l] => k = l
         /\ \A k, l \in 1..Cardinality(S) : k < l => PlaceOf(S)[k] < PlaceOf(S)[l]
         /\ \A i \in S : \E k \in 1..Cardinality(S) : PlaceOf(S)[k] = i
<1> DEFINE n == Cardinality(S)
           Below(i) == {j \in S : j < i}
           Rank(i) == Cardinality(Below(i))
<1>1. IsFiniteSet(S) /\ n \in Nat /\ S \subseteq Nat
  <2>1. N \in Nat OBVIOUS
  <2>2. IsFiniteSet(1..N) BY <2>1, FS_Interval
  <2>3. IsFiniteSet(S) BY <2>2, FS_Subset
  <2>4. n \in Nat BY <2>3, FS_CardinalityType
  <2> QED BY <2>1, <2>3, <2>4
<1>2. ASSUME NEW i \in S
      PROVE  IsFiniteSet(Below(i)) /\ Rank(i) \in 0..(n - 1)
  <2>1. Below(i) \in SUBSET S BY <1>1
  <2>2. IsFiniteSet(Below(i)) /\ Rank(i) \in Nat BY <1>1, <2>1, FS_Subset, FS_CardinalityType
  <2>3. i \notin Below(i) BY <1>1
  <2>4. Below(i) \cup {i} \in SUBSET S BY <2>1
  <2>5. Cardinality(Below(i) \cup {i}) <= n BY <1>1, <2>4, FS_Subset
  <2>6. Cardinality(Below(i) \cup {i}) = Rank(i) + 1 BY <2>2, <2>3, FS_AddElement
  <2> QED BY <1>1, <2>2, <2>5, <2>6
<1>3. ASSUME NEW i \in S, NEW j \in S, i < j PROVE Rank(i) # Rank(j)
  <2>1. IsFiniteSet(Below(i)) /\ IsFiniteSet(Below(j)) BY <1>2
  <2>0. \A k \in S : k < i => k < j BY <1>1, <1>3
  <2>6. i \notin Below(i) BY <1>1
  <2>7. \A k \in Below(i) \cup {i} : k \in Below(j) BY <1>3, <2>0
  <2>2. i \notin Below(i) /\ Below(i) \cup {i} \in SUBSET Below(j)
    <3> HIDE DEF Below
    <3> QED BY <2>6, <2>7
  <2>3. Cardinality(Below(i) \cup {i}) <= Rank(j) BY <2>1, <2>2, FS_Subset
  <2>4. Cardinality(Below(i) \cup {i}) = Rank(i) + 1 BY <2>1, <2>2, FS_AddElement
  <2>5. Rank(i) \in Nat /\ Rank(j) \in Nat
    <3>1. Rank(i) \in 0..(n - 1) /\ Rank(j) \in 0..(n - 1) BY <1>2
    <3> HIDE DEF Rank, n
    <3> QED BY <3>1
  <2> HIDE DEF Below
  <2> QED BY <2>3, <2>4, <2>5
<1> DEFINE r == [i \in S |-> Rank(i)]
<1>4. r \in Injection(S, 0..(n - 1))
  <2>1. r \in [S -> 0..(n - 1)] BY <1>2
  <2>2. ASSUME NEW i \in S, NEW j \in S, r[i] = r[j] PROVE i = j
    <3>1. Rank(i) = Rank(j) BY <2>2
    <3>2. ~(i < j) /\ ~(j < i) BY <1>3, <3>1
    <3> QED BY <1>1, <3>2
  <2> HIDE DEF r, n
  <2> QED BY <2>1, <2>2 DEF Injection, IsInjective
<1>5. IsFiniteSet(0..(n - 1)) /\ Cardinality(0..(n - 1)) = n
  <2> HIDE DEF n
  <2>1. 0 \in Int /\ n - 1 \in Int BY <1>1
  <2>2. IF 0 > n - 1 THEN n = 0 ELSE n = (n - 1) - 0 + 1 BY <1>1
  <2> QED BY <1>1, <2>1, <2>2, FS_Interval
<1>6. r \in Surjection(S, 0..(n - 1))
  <2> HIDE DEF r, n
  <2> QED BY <1>4, <1>5, FS_Injection DEF n
<1>7. \A k \in 1..n : \E i \in S : Rank(i) = k - 1
  <2> SUFFICES ASSUME NEW k \in 1..n PROVE \E i \in S : Rank(i) = k - 1
    OBVIOUS
  <2>1. k - 1 \in 0..(n - 1) BY <1>1
  <2>2. \E i \in S : r[i] = k - 1 BY <1>6, <2>1 DEF Surjection
  <2> QED BY <2>2
<1> DEFINE h == [k \in 1..n |-> CHOOSE i \in S : Rank(i) = k - 1]
<1>8. \A k \in 1..n : h[k] \in S /\ Rank(h[k]) = k - 1
  <2> HIDE DEF Rank
  <2> QED BY <1>7
<1>9. h \in [1..n -> S] BY <1>8
<1>10. \A k, l \in 1..n : h[k] = h[l] => k = l
  <2> HIDE DEF h, Rank
  <2> QED BY <1>1, <1>8
<1>11. ASSUME NEW i \in S PROVE \E k \in 1..n : h[k] = i
  <2>1. Rank(i) + 1 \in 1..n /\ (Rank(i) + 1) - 1 = Rank(i)
    <3>1. Rank(i) \in 0..(n - 1) BY <1>2
    <3> HIDE DEF Rank, n
    <3> QED BY <1>1, <3>1
  <2>2. h[Rank(i) + 1] \in S /\ Rank(h[Rank(i) + 1]) = Rank(i) BY <1>8, <2>1
  <2>3. h[Rank(i) + 1] = i
    <3> HIDE DEF h
    <3> DEFINE m == h[Rank(i) + 1]
    <3>1. ~(i < m) /\ ~(m < i) BY <1>3, <2>2
    <3>2. i \in Nat /\ m \in Nat BY <1>1, <2>2
    <3>3. m = i
      <4> HIDE DEF m
      <4> QED BY <3>1, <3>2
    <3> QED BY <3>3
  <2> QED BY <2>1, <2>3
<1>13. ASSUME NEW k \in 1..n, NEW l \in 1..n, k < l PROVE h[k] < h[l]
  <2>1. h[k] \in S /\ h[l] \in S /\ Rank(h[k]) = k - 1 /\ Rank(h[l]) = l - 1 BY <1>8
  <2> HIDE DEF h, n
  <2>2. SUFFICES ASSUME ~(h[k] < h[l]) PROVE FALSE OBVIOUS
  <2>3. \A j \in S : j < h[l] => j < h[k]
    <3> DEFINE a == h[k]
               b == h[l]
    <3>1. a \in Nat /\ b \in Nat /\ ~(a < b) BY <1>1, <2>1, <2>2
    <3> HIDE DEF a, b
    <3>2. \A j \in S : j < b => j < a BY <1>1, <3>1
    <3> QED BY <3>2 DEF a, b
  <2>4. Below(h[l]) \in SUBSET Below(h[k]) BY <2>3
  <2>5. IsFiniteSet(Below(h[k])) BY <1>2, <2>1
  <2>6. Rank(h[l]) <= Rank(h[k]) BY <2>4, <2>5, FS_Subset
  <2>7. k \in Nat /\ l \in Nat BY <1>1 DEF n
  <2> HIDE DEF Rank
  <2> QED BY <1>13, <2>1, <2>6, <2>7
<1>12. PlaceOf(S) = h BY DEF PlaceOf
<1> HIDE DEF h, n
<1> QED BY <1>1, <1>9, <1>10, <1>11, <1>12, <1>13 DEF n

LEMMA FilteredPlaces ==
  ASSUME NEW s, NEW S
  PROVE  Filtered(s, S) = [k \in 1..Cardinality(S) |-> s[PlaceOf(S)[k]]]
<1> DEFINE P(k) == CHOOSE i \in S : Cardinality({j \in S : j < i}) = k - 1
           n == Cardinality(S)
<1>1. Filtered(s, S) = [k \in 1..n |-> s[P(k)]] BY DEF Filtered
<1>2. PlaceOf(S) = [k \in 1..n |-> P(k)] BY DEF PlaceOf
<1> HIDE DEF P, n
<1>3. \A k \in 1..n : PlaceOf(S)[k] = P(k) BY <1>2
<1>4. [k \in 1..n |-> s[P(k)]] = [k \in 1..n |-> s[PlaceOf(S)[k]]] BY <1>3
<1> QED BY <1>1, <1>4 DEF n

(* The elements at the positions S, each once and in their order. *)
LEMMA FilteredElements ==
  ASSUME NEW X, NEW s \in Seq(X), NEW S \in SUBSET (1..Len(s))
  PROVE  \E h \in [1..Cardinality(S) -> S] :
            /\ Filtered(s, S) = [k \in 1..Cardinality(S) |-> s[h[k]]]
            /\ Cardinality(S) \in Nat
            /\ \A k, l \in 1..Cardinality(S) : h[k] = h[l] => k = l
            /\ \A k, l \in 1..Cardinality(S) : k < l => h[k] < h[l]
            /\ \A i \in S : \E k \in 1..Cardinality(S) : h[k] = i
<1>1. Len(s) \in Nat OBVIOUS
<1> DEFINE h == PlaceOf(S)
<1>2. /\ h \in [1..Cardinality(S) -> S]
      /\ Cardinality(S) \in Nat
      /\ \A k, l \in 1..Cardinality(S) : h[k] = h[l] => k = l
      /\ \A k, l \in 1..Cardinality(S) : k < l => h[k] < h[l]
      /\ \A i \in S : \E k \in 1..Cardinality(S) : h[k] = i
  BY <1>1, Places
<1>3. Filtered(s, S) = [k \in 1..Cardinality(S) |-> s[h[k]]] BY FilteredPlaces
<1> HIDE DEF h
<1> QED BY <1>2, <1>3

(* A filter that lets everything through. *)
LEMMA FilteredAll ==
  ASSUME NEW X, NEW s \in Seq(X)
  PROVE  Filtered(s, 1..Len(s)) = s
<1> DEFINE n == Len(s)
           S == 1..n
<1>1. n \in Nat /\ s = [k \in 1..n |-> s[k]] OBVIOUS
<1>2. Cardinality(S) = n BY <1>1, FS_Interval
<1>3. ASSUME NEW i \in S PROVE Cardinality({j \in S : j < i}) = i - 1
  <2>1. {j \in S : j < i} = 1..(i - 1) BY <1>1
  <2>2. Cardinality(1..(i - 1)) = i - 1
    <3>1. i - 1 \in Nat BY <1>1
    <3> QED BY <3>1, FS_Interval
  <2> QED BY <2>1, <2>2
<1>4. ASSUME NEW k \in 1..n
      PROVE  (CHOOSE i \in S : Cardinality({j \in S : j < i}) = k - 1) = k
  <2>1. \A i \in S : Cardinality({j \in S : j < i}) = k - 1 <=> i = k BY <1>1, <1>3
  <2>2. k \in S OBVIOUS
  <2> HIDE DEF S
  <2> QED BY <2>1, <2>2
<1>6. \A k \in 1..n : s[CHOOSE i \in S : Cardinality({j \in S : j < i}) = k - 1] = s[k]
  <2> HIDE DEF S
  <2> QED BY <1>4
<1> HIDE DEF n, S
<1>5. Filtered(s, S) = [k \in 1..n |-> s[k]] BY <1>2, <1>6 DEF Filtered
<1> QED BY <1>1, <1>5 DEF n, S

(* A filter that takes one element out. *)
LEMMA FilteredAllBut ==
  ASSUME NEW X, NEW s \in Seq(X), NEW p \in 1..Len(s)
  PROVE  Filtered(s, (1..Len(s)) \ {p})
           = [k \in 1..(Len(s) - 1) |-> IF k < p THEN s[k] ELSE s[k + 1]]
<1> DEFINE n == Len(s)
           S == (1..n) \ {p}
<1>1. n \in Nat OBVIOUS
<1>2. IsFiniteSet(1..n) /\ Cardinality(1..n) = n BY <1>1, FS_Interval
<1>3. Cardinality(S) = n - 1 BY <1>2, FS_RemoveElement
<1>4. ASSUME NEW i \in S
      PROVE  Cardinality({j \in S : j < i}) = IF i < p THEN i - 1 ELSE i - 2
  <2>1. i - 1 \in Nat /\ i \in Nat /\ i # p /\ p \in Nat BY <1>1
  <2>2. IsFiniteSet(1..(i - 1)) /\ Cardinality(1..(i - 1)) = i - 1
    <3> HIDE DEF S
    <3>1. 1 \in Int /\ i - 1 \in Int /\ (1 > i - 1 => 0 = i - 1) BY <2>1
    <3>2. (i - 1) - 1 + 1 = i - 1 BY <2>1
    <3> QED BY <3>1, <3>2, FS_Interval
  <2>3. CASE i < p
    <3>1. {j \in S : j < i} = 1..(i - 1) BY <1>1, <2>3
    <3> QED BY <2>2, <2>3, <3>1
  <2>4. CASE p < i
    <3>1. {j \in S : j < i} = (1..(i - 1)) \ {p} BY <1>1, <2>1
    <3>2. p \in 1..(i - 1) BY <1>1, <2>4
    <3>3. Cardinality((1..(i - 1)) \ {p}) = (i - 1) - 1
      <4> DEFINE T == 1..(i - 1)
      <4> HIDE DEF T, S
      <4> QED BY <2>2, <3>2, FS_RemoveElement DEF T
    <3>4. (i - 1) - 1 = i - 2 /\ ~(i < p) BY <2>1, <2>4
    <3> HIDE DEF S
    <3> QED BY <3>1, <3>3, <3>4
  <2> QED BY <2>1, <2>3, <2>4
<1>5. ASSUME NEW k \in 1..(n - 1)
      PROVE  (CHOOSE i \in S : Cardinality({j \in S : j < i}) = k - 1)
               = IF k < p THEN k ELSE k + 1
  <2> DEFINE m == IF k < p THEN k ELSE k + 1
  <2>1. m \in S BY <1>1
  <2>2. ASSUME NEW i \in S PROVE Cardinality({j \in S : j < i}) = k - 1 <=> i = m
    <3>1. i \in Nat /\ p \in Nat /\ k \in Nat /\ i # p BY <1>1
    <3>2. Cardinality({j \in S : j < i}) = IF i < p THEN i - 1 ELSE i - 2 BY <1>4
    <3> HIDE DEF S
    <3> QED BY <3>1, <3>2
  <2> HIDE DEF S, m
  <2>3. (CHOOSE i \in S : Cardinality({j \in S : j < i}) = k - 1) = m BY <2>1, <2>2
  <2> QED BY <2>3 DEF m
<1>6. \A k \in 1..(n - 1) :
         s[CHOOSE i \in S : Cardinality({j \in S : j < i}) = k - 1]
           = IF k < p THEN s[k] ELSE s[k + 1]
  <2> SUFFICES ASSUME NEW k \in 1..(n - 1)
               PROVE  s[CHOOSE i \in S : Cardinality({j \in S : j < i}) = k - 1]
                        = IF k < p THEN s[k] ELSE s[k + 1]
    OBVIOUS
  <2> DEFINE m == CHOOSE i \in S : Cardinality({j \in S : j < i}) = k - 1
  <2>1. m = IF k < p THEN k ELSE k + 1 BY <1>5
  <2> HIDE DEF S, m, n
  <2>2. s[m] = IF k < p THEN s[k] ELSE s[k + 1] BY <2>1
  <2> QED BY <2>2 DEF m
<1> HIDE DEF n, S
<1>7. Filtered(s, S) = [k \in 1..(n - 1) |-> IF k < p THEN s[k] ELSE s[k + 1]]
  BY <1>3, <1>6 DEF Filtered
<1> QED BY <1>7 DEF n, S

(* A loop of N turns over X: what turn n does. *)
Turns(N, X) == [1..N -> [X -> X]]

(* What the loop has after n turns. *)
LEMMA Iterated ==
  ASSUME NEW X, NEW a \in X, NEW N \in Nat, NEW step \in Turns(N, X)
  PROVE  \E g \in [0..N -> X] : g[0] = a /\ \A n \in 1..N : g[n] = step[n][g[n - 1]]
<1> DEFINE Done(n, g) == g[0] = a /\ \A k \in 1..n : g[k] = step[k][g[k - 1]]
           S == {n \in Nat : n <= N => \E g \in [0..n -> X] : Done(n, g)}
<1>1. 0 \in S
  <2> DEFINE g == [k \in 0..0 |-> a]
  <2>1. g \in [0..0 -> X] /\ Done(0, g) OBVIOUS
  <2> HIDE DEF g
  <2> QED BY <2>1
<1>2. ASSUME NEW n \in Nat, n \in S PROVE n + 1 \in S
  <2> SUFFICES ASSUME n + 1 <= N PROVE \E g \in [0..(n + 1) -> X] : Done(n + 1, g)
    OBVIOUS
  <2>1. n <= N OBVIOUS
  <2>2. PICK g \in [0..n -> X] : Done(n, g) BY <1>2, <2>1
  <2>3. n + 1 \in 1..N /\ g[n] \in X /\ step \in [1..N -> [X -> X]] BY DEF Turns
  <2> DEFINE r == [k \in 0..(n + 1) |-> IF k = n + 1 THEN step[n + 1][g[n]] ELSE g[k]]
  <2>4. step[n + 1][g[n]] \in X BY <2>3
  <2>5. r \in [0..(n + 1) -> X] BY <2>4
  <2>6. r[0] = a BY <2>2
  <2>7. ASSUME NEW k \in 1..(n + 1) PROVE r[k] = step[k][r[k - 1]]
    <3>1. k - 1 \in 0..(n + 1) /\ k - 1 # n + 1 /\ k \in 0..(n + 1) OBVIOUS
    <3>2. r[k - 1] = g[k - 1] BY <3>1
    <3>3. CASE k = n + 1 BY <3>1, <3>2, <3>3
    <3>4. CASE k # n + 1
      <4>1. k \in 1..n BY <3>4
      <4> QED BY <2>2, <3>1, <3>2, <3>4, <4>1
    <3> QED BY <3>3, <3>4
  <2> HIDE DEF r
  <2> QED BY <2>5, <2>6, <2>7
<1> HIDE DEF S
<1>3. \A n \in Nat : n \in S BY <1>1, <1>2, Induction
<1> QED BY <1>3 DEF S

(* The same with its hypotheses and its conclusion under names. *)
Loop(a, N, step, X) == a \in X /\ N \in Nat /\ step \in Turns(N, X)

Runs(a, N, step, X) ==
    {g \in [0..N -> X] : g[0] = a /\ \A n \in 1..N : g[n] = step[n][g[n - 1]]}

LEMMA LoopRuns ==
  ASSUME NEW X, NEW a, NEW N, NEW step, Loop(a, N, step, X)
  PROVE  Runs(a, N, step, X) # {}
<1>1. a \in X /\ N \in Nat /\ step \in Turns(N, X) BY DEF Loop
<1>2. \E g \in [0..N -> X] : g[0] = a /\ \A n \in 1..N : g[n] = step[n][g[n - 1]]
  BY <1>1, Iterated
<1> QED BY <1>2 DEF Runs

=============================================================================
