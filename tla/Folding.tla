------------------------------ MODULE Folding ------------------------------
(***************************************************************************)
(* What a fold over a sequence computes: a chain of values, from the base, *)
(* one step for each element.  The definition folds over the subsets of    *)
(* the domain, and the provers take no induction principle with an         *)
(* operator in it; so this module is instantiated with the step of a fold, *)
(* which may depend on a context c, and the induction is one over a set of *)
(* numbers (UpTo).                                                         *)
(***************************************************************************)
EXTENDS Integers, SequencesExt, WellFoundedInduction, TLAPS

CONSTANTS
  Step(_, _, _),   \* context, value, element: the next value
  Kept(_, _, _)    \* context, number of elements, value: what a proof has it keep

\* FoldLeft(LAMBDA v, e : Step(c, v, e), base, seq), its definition expanded.
Fold(c, base, seq) ==
  (CHOOSE g : g = [s \in SUBSET (DOMAIN seq) |->
     IF s = {} THEN base ELSE Step(c, g[s \ {Max(s)}], seq[Max(s)])])[DOMAIN seq]

Chain(c, base, seq, n, h) ==
  h[0] = base /\ \A i \in 1..n : h[i] = Step(c, h[i - 1], seq[i])

(* A set of numbers has a least one.                                       *)
LEMMA LeastNumber ==
  ASSUME NEW N \in SUBSET Nat, N # {}
  PROVE  \E m \in N : \A k \in N : ~(k < m)
<1> DEFINE R == {ss \in Nat \X Nat : ss[1] < ss[2]}
<1>1. IsWellFoundedOn(R, Nat)
  BY NatLessThanWellFounded DEF OpToRel
<1>2. \A x, y \in Nat : x < y => <<x, y>> \in R
  OBVIOUS
<1> HIDE DEF R
<1>3. PICK m \in N : \A k \in N : ~(<<k, m>> \in R)
  BY <1>1, WFMin
<1> QED BY <1>2, <1>3

(* Induction up to n, over a set in place of a predicate.                  *)
LEMMA UpTo ==
  ASSUME NEW n \in Nat, NEW S, 0 \in S, \A i \in 0..n - 1 : i \in S => i + 1 \in S
  PROVE  0..n \subseteq S
<1> DEFINE Left == {i \in 0..n : i \notin S}
<1> SUFFICES ASSUME Left # {}
             PROVE  FALSE
  OBVIOUS
<1>1. Left \in SUBSET Nat
  OBVIOUS
<1>2. PICK m \in Left : \A k \in Left : ~(k < m)
  <2> HIDE DEF Left
  <2> QED BY <1>1, LeastNumber
<1>3. m # 0 /\ m - 1 \in 0..n - 1 /\ m - 1 \in S
  BY <1>2
<1> QED BY <1>2, <1>3

LEMMA Greatest ==
  ASSUME NEW m \in Nat, NEW s, s \subseteq 1..m, m \in s
  PROVE  Max(s) = m
<1>1. \A x \in s : x \in Int /\ x <= m
  OBVIOUS
<1>2. \E x \in s : \A y \in s : x >= y
  BY <1>1
<1>3. Max(s) \in s /\ \A y \in s : Max(s) >= y
  BY <1>2 DEF Max
<1>4. Max(s) \in Int /\ Max(s) <= m /\ Max(s) >= m
  BY <1>1, <1>3
<1> QED BY <1>4

(* A fold is the end of its chain.                                         *)
THEOREM Steps ==
  ASSUME NEW c, NEW base, NEW seq, NEW n \in Nat, DOMAIN seq = 1..n
  PROVE  \E h : Chain(c, base, seq, n, h) /\ Fold(c, base, seq) = h[n]
<1> DEFINE Body(g, m) == [s \in SUBSET (1..m) |->
                            IF s = {} THEN base ELSE Step(c, g[s \ {Max(s)}], seq[Max(s)])]
           S == {m \in 0..n : \E g : g = Body(g, m)}
           fold == CHOOSE g : g = Body(g, n)
<1>1. Fold(c, base, seq) = fold[1..n]
  BY DEF Fold
<1>2. 0 \in S
  <2>1. [s \in SUBSET (1..0) |-> base] = Body([s \in SUBSET (1..0) |-> base], 0)
    OBVIOUS
  <2> QED BY <2>1
<1>3. ASSUME NEW m \in 0..n - 1, m \in S
      PROVE  m + 1 \in S
  <2>1. PICK g : g = Body(g, m)
    BY <1>3
  <2> DEFINE k == m + 1
             f == [s \in SUBSET (1..k) |-> IF k \in s THEN Step(c, g[s \ {k}], seq[k]) ELSE g[s]]
  <2>2. ASSUME NEW s \in SUBSET (1..k)
        PROVE  f[s] = Body(f, k)[s]
    <3>1. CASE k \in s
      <4>1. k \in Nat /\ s \subseteq 1..k
        OBVIOUS
      <4>2. Max(s) = k
        BY <3>1, <4>1, Greatest
      <4>3. s \ {k} \in SUBSET (1..m) /\ s \ {k} \in SUBSET (1..k) /\ k \notin s \ {k}
        BY <4>1
      <4>4. f[s \ {k}] = g[s \ {k}]
        BY <4>3
      <4> QED BY <3>1, <4>2, <4>4
    <3>2. CASE k \notin s
      <4>1. s \in SUBSET (1..m) /\ f[s] = g[s]
        BY <3>2
      <4>2. CASE s = {}
        BY <2>1, <4>1, <4>2
      <4>3. CASE s # {}
        <5>1. s \ {Max(s)} \in SUBSET (1..m) /\ f[s \ {Max(s)}] = g[s \ {Max(s)}]
          BY <4>1
        <5> QED BY <2>1, <4>1, <4>3, <5>1
      <4> QED BY <4>2, <4>3
    <3> QED BY <3>1, <3>2
  <2>3. f = Body(f, k)
    BY <2>2
  <2> HIDE DEF f, Body
  <2>4. \E z : z = Body(z, k)
    BY <2>3
  <2> QED BY <2>4
<1> HIDE DEF S
<1>4. n \in 0..n /\ 0..n \subseteq S
  <2>1. 0..n \subseteq S
    BY <1>2, <1>3, UpTo
  <2> QED BY <2>1
<1>5. fold = Body(fold, n)
  <2> HIDE DEF Body
  <2>1. \E g : g = Body(g, n)
    BY <1>4 DEF S
  <2> QED BY <2>1
<1> HIDE DEF fold
<1>6. ASSUME NEW i \in 1..n
      PROVE  fold[1..i] = Step(c, fold[1..i - 1], seq[i])
  <2>1. i \in Nat /\ i \in 1..i
    OBVIOUS
  <2>2. Max(1..i) = i
    BY <2>1, Greatest
  <2>3. (1..i) \ {i} = 1..i - 1 /\ 1..i \in SUBSET (1..n) /\ 1..i # {}
    OBVIOUS
  <2> QED BY <1>5, <2>2, <2>3
<1>7. fold[1..0] = base
  <2>1. 1..0 = {} /\ 1..0 \in SUBSET (1..n)
    OBVIOUS
  <2> QED BY <1>5, <2>1
<1> HIDE DEF Body
<1> DEFINE h == [i \in 0..n |-> fold[1..i]]
<1>8. h[0] = base /\ h[n] = fold[1..n]
  BY <1>7
<1>9. \A i \in 1..n : h[i] = Step(c, h[i - 1], seq[i])
  <2>1. \A i \in 1..n : i \in 0..n /\ i - 1 \in 0..n
    OBVIOUS
  <2> QED BY <1>6, <2>1
<1> HIDE DEF h
<1> QED BY <1>1, <1>8, <1>9 DEF Chain

(* What each step keeps holds of the fold.                                 *)
THEOREM Keeps ==
  ASSUME NEW c, NEW base, NEW seq, NEW n \in Nat, DOMAIN seq = 1..n,
         Kept(c, 0, base),
         \A i \in 1..n : \A v : Kept(c, i - 1, v) => Kept(c, i, Step(c, v, seq[i]))
  PROVE  Kept(c, n, Fold(c, base, seq))
<1>1. PICK h : Chain(c, base, seq, n, h) /\ Fold(c, base, seq) = h[n]
  BY Steps
<1>2. h[0] = base /\ \A i \in 1..n : h[i] = Step(c, h[i - 1], seq[i])
  BY <1>1 DEF Chain
<1> DEFINE S == {i \in 0..n : Kept(c, i, h[i])}
<1>3. 0 \in S
  BY <1>2
<1>4. ASSUME NEW i \in 0..n - 1, i \in S
      PROVE  i + 1 \in S
  <2>1. i + 1 \in 1..n /\ (i + 1) - 1 = i /\ i + 1 \in 0..n
    OBVIOUS
  <2> QED BY <1>2, <1>4, <2>1
<1> HIDE DEF S
<1>5. 0..n \subseteq S
  BY <1>3, <1>4, UpTo
<1> QED BY <1>1, <1>5 DEF S
=============================================================================
