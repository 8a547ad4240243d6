----------------------------- MODULE ListProofs -----------------------------
(***************************************************************************)
(* What the operators of Lists, and FlattenSeq, compute for sequences of   *)
(* any length.  Induction is on sets of numbers: a set that contains 0 and *)
(* with every number the next one contains all of them.                    *)
(***************************************************************************)
EXTENDS Lists, FiniteSetTheorems, WellFoundedInduction, TLAPS

-----------------------------------------------------------------------------
(* Induction and recursion.                                                *)

\* A set of numbers that is not empty has a least element.
LEMMA LeastElement ==
    ASSUME NEW T \in SUBSET Nat, T # {}
    PROVE  \E x \in T : \A y \in T : x <= y
<1> DEFINE R == OpToRel(<, Nat)
<1>1. IsWellFoundedOn(R, Nat)
  BY NatLessThanWellFounded
<1>2. R = {ss \in Nat \X Nat : ss[1] < ss[2]}
  BY Zenon DEF OpToRel
<1> HIDE DEF R
<1>3. \A x, y \in Nat : y < x => <<y, x>> \in R
  BY <1>2
<1>4. PICK x \in T : \A y \in T : ~ (<<y, x>> \in R)
  BY <1>1, WFMin, Zenon
<1>5. \A y \in T : ~(y < x)
  BY <1>3, <1>4
<1> QED
  BY <1>5

\* Induction over a set.
LEMMA SetInduction ==
    ASSUME NEW T, 0 \in T, \A n \in Nat : n \in T => n + 1 \in T
    PROVE  Nat \subseteq T
<1> SUFFICES ASSUME Nat \ T # {}
             PROVE  FALSE
  OBVIOUS
<1>1. PICK x \in Nat \ T : \A y \in Nat \ T : x <= y
  BY LeastElement
<1>2. x - 1 \in Nat /\ x - 1 \notin Nat \ T
  BY <1>1
<1> QED
  BY <1>1, <1>2

\* A set of numbers below a bound that is not empty has a greatest element.
LEMMA GreatestElement ==
    ASSUME NEW n \in Nat, NEW T \in SUBSET (0..n), T # {}
    PROVE  \E x \in T : \A y \in T : y <= x
<1> DEFINE U == {u \in 0..n : n - u \in T}
<1>1. U \in SUBSET Nat /\ U # {}
  <2>1. PICK t \in T : TRUE
    OBVIOUS
  <2>2. n - t \in U
    BY <2>1
  <2> QED
    BY <2>2
<1>2. PICK u \in U : \A v \in U : u <= v
  BY <1>1, LeastElement
<1>3. ASSUME NEW y \in T
      PROVE  y <= n - u
  <2>1. n - y \in U
    OBVIOUS
  <2> QED
    BY <1>2, <2>1
<1> QED
  BY <1>2, <1>3

\* f begins with base and goes on by the steps.
Iterates(f, n, base, step) ==
    f[0] = base /\ \A i \in 1..n : f[i] = step[i][f[i - 1]]

\* Steps from V to V can be iterated.
LEMMA Recursion ==
    ASSUME NEW V, NEW base \in V, NEW n \in Nat, NEW step,
           \A i \in 1..n, v \in V : step[i][v] \in V
    PROVE  \E f \in [0..n -> V] : Iterates(f, n, base, step)
<1> DEFINE Good(k, f) == /\ f \in [0..k -> V]
                         /\ f[0] = base
                         /\ \A i \in 1..k : f[i] = step[i][f[i - 1]]
           T == {k \in Nat : k <= n => \E f : Good(k, f)}
<1>1. 0 \in T
  <2>1. Good(0, [i \in 0..0 |-> base])
    OBVIOUS
  <2> QED
    BY <2>1
<1>2. ASSUME NEW k \in Nat, k \in T
      PROVE  k + 1 \in T
  <2> SUFFICES ASSUME k + 1 <= n
               PROVE  \E f : Good(k + 1, f)
    OBVIOUS
  <2>1. PICK f : Good(k, f)
    BY <1>2
  <2> DEFINE g == [i \in 0..(k + 1) |-> IF i <= k THEN f[i] ELSE step[k + 1][f[k]]]
  <2>2. f[k] \in V /\ k + 1 \in 1..n
    BY <2>1
  <2>3. step[k + 1][f[k]] \in V
    BY <2>2
  <2>4. g \in [0..(k + 1) -> V] /\ g[0] = base
    BY <2>1, <2>3
  <2>5. ASSUME NEW i \in 1..(k + 1)
        PROVE  g[i] = step[i][g[i - 1]]
    <3>1. CASE i <= k
      BY <2>1, <3>1
    <3>2. CASE i = k + 1
      BY <2>1, <3>2
    <3> QED
      BY <3>1, <3>2
  <2>6. Good(k + 1, g)
    BY <2>4, <2>5
  <2> QED
    BY <2>6
<1>3. Nat \subseteq T
  <2> HIDE DEF T
  <2> QED
    BY <1>1, <1>2, SetInduction
<1>4. PICK f : Good(n, f)
  <2>1. n \in T /\ n <= n
    BY <1>3
  <2> HIDE DEF Good
  <2> QED
    BY <2>1
<1> QED
  BY <1>4 DEF Iterates

\* A function that follows such steps stays in V.
LEMMA RecursionType ==
    ASSUME NEW V, NEW n \in Nat, NEW g, g[0] \in V,
           \A i \in 1..n : g[i - 1] \in V => g[i] \in V
    PROVE  \A i \in 0..n : g[i] \in V
<1> DEFINE T == {k \in Nat : k <= n => g[k] \in V}
<1>1. 0 \in T
  OBVIOUS
<1>2. ASSUME NEW k \in Nat, k \in T
      PROVE  k + 1 \in T
  <2>1. CASE k + 1 <= n
    <3>1. k + 1 \in 1..n /\ (k + 1) - 1 = k /\ k <= n
      BY <2>1
    <3> QED
      BY <1>2, <3>1
  <2> QED
    BY <2>1
<1>3. Nat \subseteq T
  <2> HIDE DEF T
  <2> QED
    BY <1>1, <1>2, SetInduction
<1> QED
  BY <1>3

-----------------------------------------------------------------------------
(* Sums.                                                                   *)

\* The partial sums, which the definition of Sum describes.
LEMMA SumDef ==
    ASSUME NEW s \in Seq(Int)
    PROVE  \E f \in [0..Len(s) -> Int] :
               /\ f[0] = 0
               /\ \A i \in 1..Len(s) : f[i] = f[i - 1] + s[i]
               /\ Sum(s) = f[Len(s)]
<1> DEFINE n == Len(s)
           P(f) == f = [i \in 0..n |-> IF i = 0 THEN 0 ELSE f[i - 1] + s[i]]
           sum == CHOOSE f : P(f)
           step == [i \in 1..n |-> [v \in Int |-> v + s[i]]]
<1>1. n \in Nat /\ \A i \in 1..n : s[i] \in Int
  OBVIOUS
<1>2. Sum(s) = sum[n]
  BY DEF Sum
<1> HIDE DEF n
<1>3. \A i \in 1..n, v \in Int : step[i][v] \in Int
  BY <1>1
<1>4. PICK g \in [0..n -> Int] : Iterates(g, n, 0, step)
  <2>1. 0 \in Int
    OBVIOUS
  <2> HIDE DEF step
  <2> QED
    BY <1>1, <1>3, <2>1, Recursion
<1>5. ASSUME NEW i \in 1..n
      PROVE  g[i] = g[i - 1] + s[i]
  <2>1. i - 1 \in 0..n
    BY <1>1
  <2> QED
    BY <1>4, <2>1 DEF Iterates
<1>6. P(g)
  BY <1>1, <1>4, <1>5 DEF Iterates
<1>7. P(sum)
  <2> HIDE DEF P
  <2> QED
    BY <1>6, Zenon
<1> HIDE DEF sum
<1>8. sum[0] = 0 /\ \A i \in 1..n : sum[i] = sum[i - 1] + s[i]
  BY <1>1, <1>7
<1>9. \A i \in 0..n : sum[i] \in Int
  <2>1. ASSUME NEW i \in 1..n, sum[i - 1] \in Int
        PROVE  sum[i] \in Int
    <3>1. sum[i] = sum[i - 1] + s[i] /\ s[i] \in Int
      BY <1>1, <1>8
    <3> QED
      BY <2>1, <3>1
  <2>2. sum[0] \in Int
    BY <1>8
  <2> QED
    BY <1>1, <2>1, <2>2, RecursionType, Zenon
<1>10. sum \in [0..n -> Int]
  BY <1>7, <1>9
<1> QED
  BY <1>2, <1>8, <1>10 DEF n

\* Whatever adds up the elements one by one ends with the sum.
LEMMA SumIs ==
    ASSUME NEW s \in Seq(Int), NEW f, f[0] = 0,
           \A i \in 1..Len(s) : f[i] = f[i - 1] + s[i]
    PROVE  Sum(s) = f[Len(s)]
<1>1. PICK g \in [0..Len(s) -> Int] : /\ g[0] = 0
                                      /\ \A i \in 1..Len(s) : g[i] = g[i - 1] + s[i]
                                      /\ Sum(s) = g[Len(s)]
  BY SumDef
<1> DEFINE T == {k \in Nat : k <= Len(s) => f[k] = g[k]}
<1>2. Nat \subseteq T
  <2>1. 0 \in T
    BY <1>1
  <2>2. ASSUME NEW k \in Nat, k \in T
        PROVE  k + 1 \in T
    <3>1. CASE k + 1 <= Len(s)
      <4>1. k + 1 \in 1..Len(s) /\ (k + 1) - 1 = k /\ f[k] = g[k]
        BY <2>2, <3>1
      <4> QED
        BY <1>1, <4>1
    <3> QED
      BY <3>1
  <2> HIDE DEF T
  <2> QED
    BY <2>1, <2>2, SetInduction
<1>3. f[Len(s)] = g[Len(s)]
  BY <1>2
<1> QED
  BY <1>1, <1>3

\* The sum of integers is one.
LEMMA SumType ==
    ASSUME NEW s \in Seq(Int)
    PROVE  Sum(s) \in Int
BY SumDef

\* The sum of no numbers.
LEMMA SumEmpty == Sum(<<>>) = 0
<1>1. <<>> \in Seq(Int) /\ Len(<<>>) = 0
  OBVIOUS
<1> QED
  BY <1>1, SumDef

\* The last element is added last.
LEMMA SumLast ==
    ASSUME NEW n \in Nat, NEW s \in [1..(n + 1) -> Int]
    PROVE  Sum(s) = Sum([i \in 1..n |-> s[i]]) + s[n + 1]
<1> DEFINE t == [i \in 1..n |-> s[i]]
<1>1. s \in Seq(Int) /\ Len(s) = n + 1 /\ t \in Seq(Int) /\ Len(t) = n
  OBVIOUS
<1>2. PICK f \in [0..(n + 1) -> Int] : /\ f[0] = 0
                                       /\ \A i \in 1..(n + 1) : f[i] = f[i - 1] + s[i]
                                       /\ Sum(s) = f[n + 1]
  BY <1>1, SumDef
<1>3. Sum(t) = f[n]
  <2>1. \A i \in 1..n : f[i] = f[i - 1] + t[i]
    BY <1>2
  <2> HIDE DEF t
  <2> QED
    BY <1>1, <1>2, <2>1, SumIs
<1>4. f[n + 1] = f[n] + s[n + 1]
  BY <1>2
<1> QED
  BY <1>2, <1>3, <1>4

\* The sum of two sequences, one after the other.
LEMMA SumConcat ==
    ASSUME NEW s \in Seq(Int), NEW t \in Seq(Int)
    PROVE  Sum(s \o t) = Sum(s) + Sum(t)
<1> DEFINE m == Len(s)
           n == Len(t)
           st == s \o t
<1>1. PICK f \in [0..m -> Int] : /\ f[0] = 0
                                 /\ \A i \in 1..m : f[i] = f[i - 1] + s[i]
                                 /\ Sum(s) = f[m]
  BY SumDef
<1>2. PICK g \in [0..n -> Int] : /\ g[0] = 0
                                 /\ \A i \in 1..n : g[i] = g[i - 1] + t[i]
                                 /\ Sum(t) = g[n]
  BY SumDef
<1>3. /\ st \in Seq(Int) /\ Len(st) = m + n
      /\ \A i \in 1..m : st[i] = s[i]
      /\ \A i \in (m + 1)..(m + n) : st[i] = t[i - m]
  OBVIOUS
<1>4. m \in Nat /\ n \in Nat /\ \A i \in 1..n : t[i] \in Int
  OBVIOUS
<1> HIDE DEF m, n, st
<1> DEFINE h == [i \in 0..(m + n) |-> IF i <= m THEN f[i] ELSE f[m] + g[i - m]]
<1>5. h[0] = 0
  BY <1>1, <1>4
<1>6. ASSUME NEW i \in 1..(m + n)
      PROVE  h[i] = h[i - 1] + st[i]
  <2>1. CASE i <= m
    <3>1. i \in 1..m /\ h[i] = f[i] /\ h[i - 1] = f[i - 1] /\ st[i] = s[i]
      BY <1>3, <1>4, <2>1, SMTT(30)
    <3> QED
      BY <1>1, <3>1
  <2>2. CASE i > m
    <3>1. i - m \in 1..n /\ h[i] = f[m] + g[i - m] /\ st[i] = t[i - m]
      BY <1>3, <1>4, <2>2
    <3>2. g[i - m] = g[(i - m) - 1] + t[i - m]
      BY <1>2, <3>1
    <3>3. h[i - 1] = f[m] + g[(i - m) - 1]
      <4>1. CASE i - 1 = m
        <5>1. h[i - 1] = f[m] /\ (i - m) - 1 = 0
          BY <1>4, <4>1
        <5> QED
          BY <1>1, <1>2, <1>4, <5>1
      <4>2. CASE i - 1 # m
        <5>1. h[i - 1] = f[m] + g[(i - 1) - m] /\ (i - 1) - m = (i - m) - 1
          BY <1>4, <2>2, <4>2
        <5> QED
          BY <5>1
      <4> QED
        BY <4>1, <4>2
    <3>4. f[m] \in Int /\ g[(i - m) - 1] \in Int /\ t[i - m] \in Int
      BY <1>1, <1>2, <1>4, <3>1
    <3> QED
      BY <3>1, <3>2, <3>3, <3>4, SMTT(30)
  <2> QED
    BY <1>4, <2>1, <2>2
<1>7. Sum(st) = h[m + n]
  <2> HIDE DEF h
  <2> QED
    BY <1>3, <1>5, <1>6, SumIs
<1>8. h[m + n] = f[m] + g[n]
  <2>1. CASE n = 0
    BY <1>1, <1>2, <1>4, <2>1
  <2>2. CASE n # 0
    <3>1. (m + n) - m = n /\ m + n \in 0..(m + n) /\ ~(m + n <= m)
      BY <1>4, <2>2
    <3> QED
      BY <3>1
  <2> QED
    BY <2>1, <2>2
<1> QED
  BY <1>1, <1>2, <1>7, <1>8 DEF st

\* A sum without one of its elements.
LEMMA SumRemove ==
    ASSUME NEW n \in Nat, NEW s \in [1..(n + 1) -> Int], NEW j \in 1..(n + 1)
    PROVE  Sum(s) = Sum([i \in 1..n |-> IF i < j THEN s[i] ELSE s[i + 1]]) + s[j]
<1> DEFINE t == [i \in 1..n |-> IF i < j THEN s[i] ELSE s[i + 1]]
<1>1. /\ s \in Seq(Int) /\ Len(s) = n + 1 /\ t \in Seq(Int) /\ Len(t) = n
      /\ \A i \in 1..n : t[i] = IF i < j THEN s[i] ELSE s[i + 1]
  OBVIOUS
<1>2. PICK f \in [0..(n + 1) -> Int] : /\ f[0] = 0
                                       /\ \A i \in 1..(n + 1) : f[i] = f[i - 1] + s[i]
                                       /\ Sum(s) = f[n + 1]
  BY <1>1, SumDef
<1> HIDE DEF t
<1> DEFINE g == [i \in 0..n |-> IF i < j THEN f[i] ELSE f[i + 1] - s[j]]
<1>3. g[0] = 0
  BY <1>2
<1>4. ASSUME NEW i \in 1..n
      PROVE  g[i] = g[i - 1] + t[i]
  <2>1. CASE i < j
    BY <1>1, <1>2, <2>1
  <2>2. CASE i = j
    <3>1. g[i] = f[i + 1] - s[i] /\ g[i - 1] = f[i - 1] /\ t[i] = s[i + 1]
      BY <1>1, <2>2
    <3>2. f[i + 1] = f[i] + s[i + 1] /\ f[i] = f[i - 1] + s[i]
      BY <1>2
    <3>3. f[i - 1] \in Int /\ s[i] \in Int /\ s[i + 1] \in Int
      OBVIOUS
    <3> HIDE DEF g
    <3> QED
      BY <3>1, <3>2, <3>3, SMTT(30)
  <2>3. CASE i > j
    <3>1. g[i] = f[i + 1] - s[j] /\ g[i - 1] = f[i] - s[j] /\ t[i] = s[i + 1]
      BY <1>1, <2>3
    <3>2. f[i + 1] = f[i] + s[i + 1]
      BY <1>2
    <3>3. f[i] \in Int /\ s[j] \in Int /\ s[i + 1] \in Int
      OBVIOUS
    <3> QED
      BY <3>1, <3>2, <3>3
  <2> QED
    BY <2>1, <2>2, <2>3
<1>5. Sum(t) = g[n]
  <2> HIDE DEF g
  <2> QED
    BY <1>1, <1>3, <1>4, SumIs
<1>6. g[n] = Sum(s) - s[j]
  <2>1. CASE n < j
    <3>1. j = n + 1 /\ g[n] = f[n]
      BY <2>1
    <3>2. f[n + 1] = f[n] + s[n + 1] /\ f[n] \in Int /\ s[n + 1] \in Int
      BY <1>2
    <3> QED
      BY <1>2, <3>1, <3>2
  <2>2. CASE ~(n < j)
    BY <1>2, <2>2
  <2> QED
    BY <2>1, <2>2
<1>7. Sum(s) \in Int /\ s[j] \in Int
  BY <1>1, SumType
<1> QED
  BY <1>5, <1>6, <1>7 DEF t

-----------------------------------------------------------------------------
(* FlattenSeq.                                                             *)

\* The prefixes, which the definition of FlattenSeq describes.
LEMMA FlattenDef ==
    ASSUME NEW S, NEW seqs \in Seq(Seq(S))
    PROVE  \E f \in [0..Len(seqs) -> Seq(S)] :
               /\ f[0] = <<>>
               /\ \A i \in 1..Len(seqs) : f[i] = f[i - 1] \o seqs[i]
               /\ FlattenSeq(seqs) = f[Len(seqs)]
<1> DEFINE n == Len(seqs)
           P(f) == f = [i \in 1..n |-> IF i = 1 THEN seqs[i] ELSE f[i - 1] \o seqs[i]]
           flat == CHOOSE f : P(f)
           step == [i \in 1..n |-> [v \in Seq(S) |-> v \o seqs[i]]]
           full == [i \in 0..n |-> IF i = 0 THEN <<>> ELSE flat[i]]
<1>1. n \in Nat /\ \A i \in 1..n : seqs[i] \in Seq(S)
  OBVIOUS
<1>2. FlattenSeq(seqs) = IF n = 0 THEN seqs ELSE flat[n]
  BY DEF FlattenSeq
<1>3. n = 0 => seqs = <<>>
  OBVIOUS
<1> HIDE DEF n
<1>4. PICK g \in [0..n -> Seq(S)] : Iterates(g, n, <<>>, step)
  <2>1. <<>> \in Seq(S) /\ \A i \in 1..n, v \in Seq(S) : step[i][v] \in Seq(S)
    BY <1>1
  <2> HIDE DEF step
  <2> QED
    BY <1>1, <2>1, Recursion
<1>5. ASSUME NEW i \in 1..n
      PROVE  g[i] = g[i - 1] \o seqs[i]
  <2>1. i - 1 \in 0..n
    BY <1>1
  <2> QED
    BY <1>4, <2>1 DEF Iterates
<1>6. P([i \in 1..n |-> g[i]])
  <2>1. g[0] = <<>>
    BY <1>4 DEF Iterates
  <2>2. ASSUME NEW i \in 1..n
        PROVE  g[i] = IF i = 1 THEN seqs[i] ELSE [j \in 1..n |-> g[j]][i - 1] \o seqs[i]
    <3>1. CASE i = 1
      <4>1. i - 1 = 0
        BY <3>1
      <4>2. g[i] = <<>> \o seqs[i]
        BY <1>5, <2>1, <4>1
      <4> QED
        BY <1>1, <3>1, <4>2
    <3>2. CASE i # 1
      <4>1. i - 1 \in 1..n
        BY <1>1, <3>2
      <4> QED
        BY <1>5, <3>2, <4>1
    <3> QED
      BY <3>1, <3>2
  <2> QED
    BY <2>2
<1>7. P(flat)
  <2> HIDE DEF P
  <2> QED
    BY <1>6, Zenon
<1> HIDE DEF flat
<1>8. full[0] = <<>>
  BY <1>1
<1>9. ASSUME NEW i \in 1..n, full[i - 1] \in Seq(S)
      PROVE  full[i] = full[i - 1] \o seqs[i] /\ full[i] \in Seq(S)
  <2>1. full[i] = flat[i]
    BY <1>1
  <2>2. CASE i = 1
    <3>1. flat[i] = seqs[i] /\ full[i - 1] = <<>>
      BY <1>1, <1>7, <2>2
    <3> HIDE DEF full
    <3>2. seqs[i] \in Seq(S)
      BY <1>1
    <3>3. full[i - 1] \o seqs[i] = seqs[i]
      BY <3>1, <3>2
    <3> QED
      BY <2>1, <3>1, <3>2, <3>3
  <2>3. CASE i # 1
    <3>1. i - 1 \in 1..n
      BY <1>1, <2>3
    <3>2. flat[i] = flat[i - 1] \o seqs[i]
      BY <1>7, <2>3
    <3>3. full[i - 1] = flat[i - 1]
      BY <1>1, <3>1
    <3> HIDE DEF full
    <3>4. seqs[i] \in Seq(S)
      BY <1>1
    <3> QED
      BY <1>9, <2>1, <3>2, <3>3, <3>4
  <2> QED
    BY <2>2, <2>3
<1>10. \A i \in 0..n : full[i] \in Seq(S)
  <2> HIDE DEF full
  <2>1. full[0] \in Seq(S)
    BY <1>8
  <2> QED
    BY <1>1, <1>9, <2>1, RecursionType, Zenon
<1>11. \A i \in 1..n : full[i] = full[i - 1] \o seqs[i]
  <2> TAKE i \in 1..n
  <2>1. i - 1 \in 0..n
    BY <1>1
  <2> HIDE DEF full
  <2> QED
    BY <1>9, <1>10, <2>1
<1>12. FlattenSeq(seqs) = full[n]
  BY <1>1, <1>2, <1>3
<1>13. full \in [0..n -> Seq(S)]
  <2>1. full = [i \in 0..n |-> full[i]]
    OBVIOUS
  <2> HIDE DEF full
  <2> QED
    BY <1>10, <2>1
<1> HIDE DEF full
<1> QED
  BY <1>8, <1>11, <1>12, <1>13 DEF n

\* Whatever appends the sequences one by one ends with FlattenSeq.
LEMMA FlattenIs ==
    ASSUME NEW S, NEW seqs \in Seq(Seq(S)), NEW f, f[0] = <<>>,
           \A i \in 1..Len(seqs) : f[i] = f[i - 1] \o seqs[i]
    PROVE  FlattenSeq(seqs) = f[Len(seqs)]
<1>1. PICK g \in [0..Len(seqs) -> Seq(S)] :
               /\ g[0] = <<>>
               /\ \A i \in 1..Len(seqs) : g[i] = g[i - 1] \o seqs[i]
               /\ FlattenSeq(seqs) = g[Len(seqs)]
  BY FlattenDef
<1> DEFINE n == Len(seqs)
           T == {k \in Nat : k <= n => f[k] = g[k]}
<1>0. n \in Nat
  OBVIOUS
<1> HIDE DEF n
<1>2. Nat \subseteq T
  <2>1. 0 \in T
    BY <1>1
  <2>2. ASSUME NEW k \in Nat, k \in T
        PROVE  k + 1 \in T
    <3>1. CASE k + 1 <= n
      <4>1. k + 1 \in 1..n /\ (k + 1) - 1 = k /\ f[k] = g[k]
        BY <1>0, <2>2, <3>1
      <4>2. f[k + 1] = f[k] \o seqs[k + 1] /\ g[k + 1] = g[k] \o seqs[k + 1]
        BY <1>1, <4>1 DEF n
      <4>3. f[k + 1] = g[k + 1]
        BY <4>1, <4>2, Zenon
      <4> QED
        BY <4>3
    <3> QED
      BY <3>1
  <2> HIDE DEF T
  <2> QED
    BY <2>1, <2>2, SetInduction
<1>3. f[n] = g[n]
  <2>1. n \in T /\ n <= n
    BY <1>0, <1>2
  <2> QED
    BY <2>1, Zenon
<1> QED
  BY <1>1, <1>3 DEF n

\* The elements of the flattened sequence are those of its sequences.
LEMMA FlattenType ==
    ASSUME NEW S, NEW seqs \in Seq(Seq(S))
    PROVE  FlattenSeq(seqs) \in Seq(S)
<1>1. PICK f \in [0..Len(seqs) -> Seq(S)] : FlattenSeq(seqs) = f[Len(seqs)]
  BY FlattenDef
<1>2. Len(seqs) \in 0..Len(seqs)
  OBVIOUS
<1> QED
  BY <1>1, <1>2

\* No sequences one after the other.
LEMMA FlattenEmpty == FlattenSeq(<<>>) = <<>>
BY DEF FlattenSeq

\* One more element.
LEMMA OneMore ==
    ASSUME NEW S, NEW a \in Seq(S), NEW x \in S
    PROVE  /\ a \o <<x>> \in Seq(S) /\ Len(a \o <<x>>) = Len(a) + 1
           /\ \A j \in 1..Len(a) : (a \o <<x>>)[j] = a[j]
           /\ (a \o <<x>>)[Len(a) + 1] = x
OBVIOUS

\* Two sequences are equal if they have the same elements.
LEMMA SameElements ==
    ASSUME NEW S, NEW R, NEW s \in Seq(S), NEW t \in Seq(R), Len(s) = Len(t),
           \A i \in 1..Len(s) : s[i] = t[i]
    PROVE  s = t
OBVIOUS

\* One sequence for each element.
LEMMA FlattenSingletons ==
    ASSUME NEW S, NEW s \in Seq(S)
    PROVE  FlattenSeq([i \in DOMAIN s |-> <<s[i]>>]) = s
<1> DEFINE n == Len(s)
           seqs == [i \in DOMAIN s |-> <<s[i]>>]
           f == [i \in 0..n |-> [j \in 1..i |-> s[j]]]
<1>1. n \in Nat /\ DOMAIN s = 1..n /\ (\A i \in 1..n : s[i] \in S)
  OBVIOUS
<1>0. s = [j \in 1..n |-> s[j]]
  OBVIOUS
<1> HIDE DEF n
<1>2. seqs \in Seq(Seq(S)) /\ Len(seqs) = n /\ \A i \in 1..n : seqs[i] = <<s[i]>>
  <2>1. \A i \in 1..n : <<s[i]>> \in Seq(S)
    BY <1>1
  <2>2. seqs = [i \in 1..n |-> <<s[i]>>]
    BY <1>1
  <2>3. seqs \in [1..n -> Seq(S)]
    BY <2>1, <2>2
  <2> HIDE DEF seqs
  <2>4. \A i \in 1..n : seqs[i] = <<s[i]>>
    BY <2>2
  <2>5. seqs \in Seq(Seq(S)) /\ DOMAIN seqs = 1..n
    BY <1>1, <2>3
  <2> QED
    BY <1>1, <2>4, <2>5
<1>3. f[0] = <<>>
  BY <1>1
<1>4. ASSUME NEW i \in 1..n
      PROVE  f[i] = f[i - 1] \o seqs[i]
  <2> DEFINE a == f[i - 1]
             b == seqs[i]
  <2>1. a = [j \in 1..(i - 1) |-> s[j]]
    BY <1>1
  <2>2. b = <<s[i]>>
    BY <1>2
  <2>3. a \in Seq(S) /\ Len(a) = i - 1 /\ \A j \in 1..(i - 1) : a[j] = s[j]
    <3> HIDE DEF a
    <3>1. i - 1 \in Nat /\ \A j \in 1..(i - 1) : s[j] \in S
      BY <1>1
    <3> QED
      BY <2>1, <3>1
  <2> HIDE DEF a, b
  <2> DEFINE c == a \o <<s[i]>>
  <2>4. c \in Seq(S) /\ Len(c) = i /\ \A j \in 1..i : c[j] = s[j]
    <3>1. s[i] \in S
      BY <1>1
    <3>2. /\ c \in Seq(S) /\ Len(c) = Len(a) + 1 /\ c[Len(a) + 1] = s[i]
          /\ \A j \in 1..Len(a) : c[j] = a[j]
      <4> DEFINE x == s[i]
      <4>1. a \in Seq(S) /\ x \in S
        BY <2>3, <3>1
      <4> HIDE DEF x
      <4>2. /\ a \o <<x>> \in Seq(S) /\ Len(a \o <<x>>) = Len(a) + 1
            /\ \A j \in 1..Len(a) : (a \o <<x>>)[j] = a[j]
            /\ (a \o <<x>>)[Len(a) + 1] = x
        BY <4>1, OneMore, Zenon
      <4> QED
        BY <4>2, Zenon DEF x
    <3> HIDE DEF c
    <3> QED
      BY <1>1, <2>3, <3>2
  <2> HIDE DEF c
  <2>5. c = [j \in 1..i |-> s[j]]
    BY <2>4
  <2>6. f[i] = [j \in 1..i |-> s[j]]
    BY <1>1
  <2> QED
    BY <2>2, <2>5, <2>6 DEF a, b, c
<1>5. FlattenSeq(seqs) = f[n]
  <2> HIDE DEF seqs, f
  <2> QED
    BY <1>2, <1>3, <1>4, FlattenIs
<1>6. f[n] = [j \in 1..n |-> s[j]]
  BY <1>1
<1> QED
  BY <1>0, <1>5, <1>6, Zenon

-----------------------------------------------------------------------------
(* Listings: where the elements of a sequence come from.                   *)

\* b takes the positions of s, one to one and in the order R, to the places in
\* P, and val says what is at a place.
Listing(s, b, P, val, R) ==
    /\ b \in [1..Len(s) -> P]
    /\ \A k, l \in 1..Len(s) : b[k] = b[l] => k = l
    /\ \A k, l \in 1..Len(s) : k < l => <<b[k], b[l]>> \in R
    /\ \A p \in P : \E k \in 1..Len(s) : b[k] = p
    /\ \A k \in 1..Len(s) : s[k] = val[b[k]]

Listed(s, P, val, R) == \E b : Listing(s, b, P, val, R)

\* The order of numbers.
Before == {q \in Nat \X Nat : q[1] < q[2]}

\* The empty sequence lists the empty set.
LEMMA ListedEmpty ==
    ASSUME NEW val, NEW R
    PROVE  Listed(<<>>, {}, val, R)
<1>1. Listing(<<>>, <<>>, {}, val, R)
  BY DEF Listing
<1> QED
  BY <1>1, Zenon DEF Listed

\* One listing after another.
LEMMA ListedConcat ==
    ASSUME NEW S, NEW s \in Seq(S), NEW t \in Seq(S), NEW P, NEW Q, NEW val, NEW R,
           Listed(s, P, val, R), Listed(t, Q, val, R),
           P \cap Q = {}, \A p \in P, q \in Q : <<p, q>> \in R
    PROVE  Listed(s \o t, P \cup Q, val, R)
<1> DEFINE m == Len(s)
           n == Len(t)
           st == s \o t
<1>1. /\ m \in Nat /\ n \in Nat /\ Len(st) = m + n
      /\ \A i \in 1..m : st[i] = s[i]
      /\ \A i \in (m + 1)..(m + n) : st[i] = t[i - m]
  OBVIOUS
<1>2. PICK b : Listing(s, b, P, val, R)
  BY DEF Listed
<1>3. PICK c : Listing(t, c, Q, val, R)
  BY DEF Listed
<1>4. /\ b \in [1..m -> P]
      /\ \A k, l \in 1..m : b[k] = b[l] => k = l
      /\ \A k, l \in 1..m : k < l => <<b[k], b[l]>> \in R
      /\ \A p \in P : \E k \in 1..m : b[k] = p
      /\ \A k \in 1..m : s[k] = val[b[k]]
  BY <1>2 DEF Listing
<1>5. /\ c \in [1..n -> Q]
      /\ \A k, l \in 1..n : c[k] = c[l] => k = l
      /\ \A k, l \in 1..n : k < l => <<c[k], c[l]>> \in R
      /\ \A p \in Q : \E k \in 1..n : c[k] = p
      /\ \A k \in 1..n : t[k] = val[c[k]]
  BY <1>3 DEF Listing
<1> HIDE DEF m, n, st
<1> DEFINE d == [k \in 1..(m + n) |-> IF k <= m THEN b[k] ELSE c[k - m]]
<1>6. \A k \in 1..m : d[k] = b[k] /\ k \in 1..(m + n)
  BY <1>1
<1>7. ASSUME NEW k \in (m + 1)..(m + n)
      PROVE  d[k] = c[k - m] /\ k - m \in 1..n /\ k \in 1..(m + n)
  BY <1>1
<1>8. \A k \in 1..(m + n) : k \in 1..m \/ k \in (m + 1)..(m + n)
  BY <1>1
<1>9. DOMAIN d = 1..(m + n) /\ d = [k \in 1..(m + n) |-> d[k]]
  OBVIOUS
<1> HIDE DEF d
<1>10. \A k \in 1..(m + n) : d[k] \in P \cup Q
  BY <1>4, <1>5, <1>6, <1>7, <1>8
<1>11. d \in [1..(m + n) -> P \cup Q]
  BY <1>9, <1>10
<1>12. ASSUME NEW k \in 1..(m + n), NEW l \in 1..(m + n), d[k] = d[l]
       PROVE  k = l
  <2>1. CASE k \in 1..m /\ l \in 1..m
    BY <1>4, <1>6, <1>12, <2>1
  <2>2. CASE k \in (m + 1)..(m + n) /\ l \in (m + 1)..(m + n)
    <3>1. c[k - m] = c[l - m] /\ k - m \in 1..n /\ l - m \in 1..n
      BY <1>7, <1>12, <2>2
    <3>2. k - m = l - m
      BY <1>5, <3>1
    <3> QED
      BY <1>1, <2>2, <3>2
  <2>3. CASE k \in 1..m /\ l \in (m + 1)..(m + n)
    BY <1>4, <1>5, <1>6, <1>7, <1>12, <2>3
  <2>4. CASE k \in (m + 1)..(m + n) /\ l \in 1..m
    BY <1>4, <1>5, <1>6, <1>7, <1>12, <2>4
  <2> QED
    BY <1>8, <2>1, <2>2, <2>3, <2>4, Zenon
<1>13. ASSUME NEW k \in 1..(m + n), NEW l \in 1..(m + n), k < l
       PROVE  <<d[k], d[l]>> \in R
  <2>1. CASE k \in 1..m /\ l \in 1..m
    BY <1>4, <1>6, <1>13, <2>1
  <2>2. CASE k \in (m + 1)..(m + n)
    <3>1. l \in (m + 1)..(m + n)
      BY <1>1, <1>13, <2>2
    <3>2. k - m \in 1..n /\ l - m \in 1..n /\ k - m < l - m
      BY <1>1, <1>7, <1>13, <2>2, <3>1
    <3>3. <<c[k - m], c[l - m]>> \in R
      BY <1>5, <3>2
    <3> QED
      BY <1>7, <2>2, <3>1, <3>3
  <2>3. CASE k \in 1..m /\ l \in (m + 1)..(m + n)
    <3>1. d[k] \in P /\ d[l] \in Q
      BY <1>4, <1>5, <1>6, <1>7, <2>3
    <3> QED
      BY <3>1
  <2> QED
    BY <1>8, <2>1, <2>2, <2>3, Zenon
<1>14. ASSUME NEW p \in P \cup Q
       PROVE  \E k \in 1..(m + n) : d[k] = p
  <2>1. CASE p \in P
    BY <1>4, <1>6, <2>1
  <2>2. CASE p \in Q
    <3>1. PICK k \in 1..n : c[k] = p
      BY <1>5, <2>2
    <3>2. k + m \in (m + 1)..(m + n) /\ (k + m) - m = k
      BY <1>1
    <3> QED
      BY <1>7, <3>1, <3>2
  <2> QED
    BY <2>1, <2>2
<1>15. ASSUME NEW k \in 1..(m + n)
       PROVE  st[k] = val[d[k]]
  <2>1. CASE k \in 1..m
    BY <1>1, <1>4, <1>6, <2>1
  <2>2. CASE k \in (m + 1)..(m + n)
    <3>1. st[k] = t[k - m] /\ d[k] = c[k - m] /\ k - m \in 1..n
      BY <1>1, <1>7, <2>2
    <3> QED
      BY <1>5, <3>1
  <2> QED
    BY <1>8, <2>1, <2>2
<1>16. Listing(st, d, P \cup Q, val, R)
  BY <1>1, <1>11, <1>12, <1>13, <1>14, <1>15, Zenon DEF Listing
<1> QED
  BY <1>16, Zenon DEF Listed, st

\* The places may be given other names.
LEMMA ListedRenamed ==
    ASSUME NEW s, NEW P, NEW Q, NEW val, NEW val2, NEW R, NEW R2,
           NEW name \in [P -> Q], Listed(s, P, val, R),
           \A p, q \in P : name[p] = name[q] => p = q,
           \A q \in Q : \E p \in P : name[p] = q,
           \A p \in P : val2[name[p]] = val[p],
           \A p, q \in P : <<p, q>> \in R => <<name[p], name[q]>> \in R2
    PROVE  Listed(s, Q, val2, R2)
<1>1. PICK b : Listing(s, b, P, val, R)
  BY DEF Listed
<1> DEFINE n == Len(s)
<1>2. /\ b \in [1..n -> P]
      /\ \A k, l \in 1..n : b[k] = b[l] => k = l
      /\ \A k, l \in 1..n : k < l => <<b[k], b[l]>> \in R
      /\ \A p \in P : \E k \in 1..n : b[k] = p
      /\ \A k \in 1..n : s[k] = val[b[k]]
  BY <1>1 DEF Listing
<1> HIDE DEF n
<1> DEFINE c == [k \in 1..n |-> name[b[k]]]
<1>3. \A k \in 1..n : c[k] = name[b[k]] /\ b[k] \in P
  BY <1>2
<1>4. c \in [1..n -> Q]
  BY <1>3
<1> HIDE DEF c
<1>5. \A k, l \in 1..n : c[k] = c[l] => k = l
  BY <1>2, <1>3
<1>6. \A k, l \in 1..n : k < l => <<c[k], c[l]>> \in R2
  <2> SUFFICES ASSUME NEW k \in 1..n, NEW l \in 1..n, k < l
               PROVE  <<c[k], c[l]>> \in R2
    OBVIOUS
  <2>1. <<b[k], b[l]>> \in R
    BY <1>2
  <2>2. <<name[b[k]], name[b[l]]>> \in R2
    BY <1>3, <2>1
  <2> QED
    BY <1>3, <2>2
<1>7. \A q \in Q : \E k \in 1..n : c[k] = q
  BY <1>2, <1>3
<1>8. \A k \in 1..n : s[k] = val2[c[k]]
  BY <1>2, <1>3
<1>9. Listing(s, c, Q, val2, R2)
  BY <1>4, <1>5, <1>6, <1>7, <1>8 DEF Listing, n
<1> QED
  BY <1>9, Zenon DEF Listed

\* The number after k, of at most n.
LEMMA NextPlace ==
    ASSUME NEW n \in Nat, NEW k \in Nat, k + 1 <= n
    PROVE  k + 1 \in 1..n /\ k <= n /\ (k + 1) - 1 = k /\ k \in 0..n
OBVIOUS

\* The elements of all sequences, each at its place in its sequence: pairs of
\* the number of the sequence and the place in it, in lexicographic order.
LEMMA FlattenListed ==
    ASSUME NEW S, NEW seqs \in Seq(Seq(S)), NEW P, NEW val, NEW all, NEW R, NEW RR,
           \A i \in 1..Len(seqs) : Listed(seqs[i], P[i], val[i], R),
           \A i \in 1..Len(seqs) : \A p \in P[i] : all[<<i, p>>] = val[i][p],
           \A i \in 1..Len(seqs) : \A p, q \in P[i] :
               <<p, q>> \in R => << <<i, p>>, <<i, q>> >> \in RR,
           \A i, j \in 1..Len(seqs) : i < j =>
               \A p \in P[i], q \in P[j] : << <<i, p>>, <<j, q>> >> \in RR
    PROVE  Listed(FlattenSeq(seqs), UNION {{i} \X P[i] : i \in 1..Len(seqs)}, all, RR)
<1> DEFINE n == Len(seqs)
           U(k) == UNION {{i} \X P[i] : i \in 1..k}
<1>1. PICK f \in [0..n -> Seq(S)] : /\ f[0] = <<>>
                                    /\ \A i \in 1..n : f[i] = f[i - 1] \o seqs[i]
                                    /\ FlattenSeq(seqs) = f[n]
  BY FlattenDef
<1>0. n \in Nat
  OBVIOUS
<1>2. \A i \in 1..n : seqs[i] \in Seq(S)
  OBVIOUS
<1>3. /\ \A i \in 1..n : Listed(seqs[i], P[i], val[i], R)
      /\ \A i \in 1..n : \A p \in P[i] : all[<<i, p>>] = val[i][p]
      /\ \A i \in 1..n : \A p, q \in P[i] :
             <<p, q>> \in R => << <<i, p>>, <<i, q>> >> \in RR
      /\ \A i, j \in 1..n : i < j =>
             \A p \in P[i], q \in P[j] : << <<i, p>>, <<j, q>> >> \in RR
  OBVIOUS
<1> HIDE DEF n
<1> DEFINE T == {k \in Nat : k <= n => Listed(f[k], U(k), all, RR)}
<1>4. 0 \in T
  <2>1. U(0) = {}
    OBVIOUS
  <2>2. Listed(f[0], {}, all, RR)
    BY <1>1, ListedEmpty, Zenon
  <2> HIDE DEF U
  <2> QED
    BY <2>1, <2>2
<1>5. ASSUME NEW k \in Nat, k \in T
      PROVE  k + 1 \in T
  <2> SUFFICES ASSUME k + 1 <= n
               PROVE  Listed(f[k + 1], U(k + 1), all, RR)
    OBVIOUS
  <2> DEFINE i == k + 1
             Q == {i} \X P[i]
             name == [p \in P[i] |-> <<i, p>>]
  <2>1. i \in 1..n /\ k <= n /\ i - 1 = k /\ k \in 0..n
    BY <1>0, NextPlace, Zenon
  <2>2. Listed(f[k], U(k), all, RR)
    BY <1>5, <2>1
  <2>3. Listed(seqs[i], Q, all, RR)
    <3>1. Listed(seqs[i], P[i], val[i], R)
      BY <1>3, <2>1
    <3> HIDE DEF i
    <3>2. /\ name \in [P[i] -> Q]
          /\ \A p, q \in P[i] : name[p] = name[q] => p = q
          /\ \A q \in Q : \E p \in P[i] : name[p] = q
      OBVIOUS
    <3>3. \A p \in P[i] : all[name[p]] = val[i][p]
      BY <1>3, <2>1
    <3>4. \A p, q \in P[i] : <<p, q>> \in R => <<name[p], name[q]>> \in RR
      BY <1>3, <2>1
    <3> HIDE DEF Q, name
    <3> DEFINE s == seqs[i]
               O == P[i]
               v == val[i]
    <3>5. /\ name \in [O -> Q] /\ Listed(s, O, v, R)
          /\ \A p, q \in O : name[p] = name[q] => p = q
          /\ \A q \in Q : \E p \in O : name[p] = q
          /\ \A p \in O : all[name[p]] = v[p]
          /\ \A p, q \in O : <<p, q>> \in R => <<name[p], name[q]>> \in RR
      BY <3>1, <3>2, <3>3, <3>4, Zenon
    <3> HIDE DEF s, O, v
    <3>6. Listed(s, Q, all, RR)
      BY <3>5, ListedRenamed
    <3> QED
      BY <3>6 DEF s
  <2>4. f[i] = f[k] \o seqs[i] /\ f[k] \in Seq(S) /\ seqs[i] \in Seq(S)
    BY <1>1, <1>2, <2>1
  <2>5. U(i) = U(k) \cup Q
    <3>1. 1..i = (1..k) \cup {i}
      OBVIOUS
    <3> HIDE DEF i
    <3> QED
      BY <3>1
  <2>6. U(k) \cap Q = {}
    <3>1. \A p \in U(k) : p[1] \in 1..k
      OBVIOUS
    <3>2. \A p \in Q : p[1] = i
      OBVIOUS
    <3> HIDE DEF U, Q
    <3> QED
      BY <3>1, <3>2
  <2>7. ASSUME NEW p \in U(k), NEW q \in Q
        PROVE  <<p, q>> \in RR
    <3>1. PICK j \in 1..k : p \in {j} \X P[j]
      OBVIOUS
    <3>2. p = <<j, p[2]>> /\ p[2] \in P[j] /\ q = <<i, q[2]>> /\ q[2] \in P[i]
      BY <3>1
    <3>3. j \in 1..n /\ j < i
      BY <1>0
    <3>4. << <<j, p[2]>>, <<i, q[2]>> >> \in RR
      BY <1>3, <2>1, <3>2, <3>3
    <3> QED
      BY <3>2, <3>4
  <2> HIDE DEF U, Q
  <2>8. Listed(f[k] \o seqs[i], U(k) \cup Q, all, RR)
    BY <2>2, <2>3, <2>4, <2>6, <2>7, ListedConcat, Zenon
  <2> QED
    BY <2>4, <2>5, <2>8
<1>6. n \in T /\ n <= n
  <2> HIDE DEF T
  <2>1. Nat \subseteq T
    BY <1>4, <1>5, SetInduction
  <2> QED
    BY <1>0, <2>1
<1>7. Listed(f[n], U(n), all, RR)
  <2> HIDE DEF U
  <2> QED
    BY <1>6
<1> QED
  BY <1>1, <1>7 DEF n

\* A sequence of one element lists a set of one element.
LEMMA ListedOne ==
    ASSUME NEW x, NEW p, NEW val, NEW R, val[p] = x
    PROVE  Listed(<<x>>, {p}, val, R)
<1>1. Listing(<<x>>, <<p>>, {p}, val, R)
  BY DEF Listing
<1> QED
  BY <1>1, Zenon DEF Listed

\* The elements at the positions in I.
LEMMA SubsequenceListed ==
    ASSUME NEW S, NEW s \in Seq(S), NEW I
    PROVE  /\ Subsequence(s, I) \in Seq(S)
           /\ Listed(Subsequence(s, I), I \cap 1..Len(s), s, Before)
<1> DEFINE n == Len(s)
           seqs == [i \in DOMAIN s |-> IF i \in I THEN <<s[i]>> ELSE <<>>]
<1>1. n \in Nat /\ DOMAIN s = 1..n /\ \A i \in 1..n : s[i] \in S
  OBVIOUS
<1>2. Subsequence(s, I) = FlattenSeq(seqs)
  BY DEF Subsequence
<1> HIDE DEF n
<1>3. seqs \in Seq(Seq(S)) /\ Len(seqs) = n
  <2>1. \A i \in 1..n : seqs[i] \in Seq(S)
    BY <1>1
  <2>2. seqs = [i \in 1..n |-> seqs[i]]
    BY <1>1
  <2> HIDE DEF seqs
  <2>3. seqs \in Seq(Seq(S)) /\ DOMAIN seqs = 1..n
    BY <1>1, <2>1, <2>2
  <2> QED
    BY <1>1, <2>3
<1>4. \A i \in 1..n : seqs[i] = IF i \in I THEN <<s[i]>> ELSE <<>>
  BY <1>1
<1> HIDE DEF seqs
<1>5. PICK f \in [0..n -> Seq(S)] : /\ f[0] = <<>>
                                    /\ \A i \in 1..n : f[i] = f[i - 1] \o seqs[i]
                                    /\ FlattenSeq(seqs) = f[n]
  BY <1>3, FlattenDef
<1> DEFINE T == {k \in Nat : k <= n => Listed(f[k], I \cap 1..k, s, Before)}
<1>6. 0 \in T
  <2>1. I \cap 1..0 = {}
    OBVIOUS
  <2>2. Listed(f[0], {}, s, Before)
    BY <1>5, ListedEmpty, Zenon
  <2> QED
    BY <2>1, <2>2
<1>7. ASSUME NEW k \in Nat, k \in T
      PROVE  k + 1 \in T
  <2> SUFFICES ASSUME k + 1 <= n
               PROVE  Listed(f[k + 1], I \cap 1..(k + 1), s, Before)
    OBVIOUS
  <2> DEFINE i == k + 1
             A == I \cap 1..k
             B == IF i \in I THEN {i} ELSE {}
  <2>1. i \in 1..n /\ k <= n /\ i - 1 = k /\ k \in 0..n
    BY <1>1
  <2>2. Listed(f[k], A, s, Before)
    BY <1>7, <2>1
  <2>3. f[i] = f[k] \o seqs[i] /\ f[k] \in Seq(S)
    BY <1>5, <2>1
  <2>4. I \cap 1..i = A \cup B
    <3>1. 1..i = (1..k) \cup {i}
      OBVIOUS
    <3> HIDE DEF i
    <3> QED
      BY <3>1
  <2>5. A \cap B = {} /\ \A p \in A, q \in B : <<p, q>> \in Before
    BY DEF Before
  <2> HIDE DEF A
  <2>6. seqs[i] \in Seq(S) /\ Listed(seqs[i], B, s, Before)
    <3>1. CASE i \in I
      <4>1. seqs[i] = <<s[i]>> /\ B = {i} /\ s[i] \in S
        BY <1>1, <1>4, <2>1, <3>1
      <4>2. Listed(<<s[i]>>, {i}, s, Before)
        BY ListedOne, Zenon
      <4> QED
        BY <4>1, <4>2
    <3>2. CASE i \notin I
      <4>1. seqs[i] = <<>> /\ B = {}
        BY <1>4, <2>1, <3>2
      <4>2. Listed(<<>>, {}, s, Before)
        BY ListedEmpty, Zenon
      <4> QED
        BY <4>1, <4>2
    <3> QED
      BY <3>1, <3>2
  <2> HIDE DEF B, i
  <2>7. Listed(f[k] \o seqs[i], A \cup B, s, Before)
    BY <2>2, <2>3, <2>5, <2>6, ListedConcat, Zenon
  <2>8. Listed(f[i], I \cap 1..i, s, Before)
    BY <2>3, <2>4, <2>7, Zenon
  <2> QED
    BY <2>8 DEF i
<1>8. n \in T /\ n <= n
  <2> HIDE DEF T
  <2>1. Nat \subseteq T
    BY <1>6, <1>7, SetInduction
  <2> QED
    BY <1>1, <2>1
<1>9. f[n] \in Seq(S)
  BY <1>1, <1>5
<1> QED
  BY <1>2, <1>5, <1>8, <1>9, Zenon DEF n

\* The elements that are in G, wherever they come from.
LEMMA FilterListed ==
    ASSUME NEW S, NEW s \in Seq(S), NEW P, NEW val, NEW R, Listed(s, P, val, R),
           NEW G, NEW I, I = {k \in DOMAIN s : s[k] \in G},
           NEW Q, Q = {p \in P : val[p] \in G}
    PROVE  Listed(Subsequence(s, I), Q, val, R)
<1> DEFINE n == Len(s)
           t == Subsequence(s, I)
           m == Len(t)
<1>0. n \in Nat /\ DOMAIN s = 1..n
  OBVIOUS
<1>1. PICK b : Listing(s, b, P, val, R)
  BY DEF Listed
<1>2. /\ b \in [1..n -> P]
      /\ \A k, l \in 1..n : b[k] = b[l] => k = l
      /\ \A k, l \in 1..n : k < l => <<b[k], b[l]>> \in R
      /\ \A p \in P : \E k \in 1..n : b[k] = p
      /\ \A k \in 1..n : s[k] = val[b[k]]
  BY <1>1 DEF Listing
<1>3. Listed(t, I, s, Before)
  <2>1. Listed(t, I \cap 1..n, s, Before)
    BY SubsequenceListed, Zenon
  <2>2. I \cap 1..n = I
    BY <1>0
  <2> HIDE DEF t
  <2> QED
    BY <2>1, <2>2
<1>4. PICK c : Listing(t, c, I, s, Before)
  BY <1>3 DEF Listed
<1>5. /\ c \in [1..m -> I]
      /\ \A k, l \in 1..m : c[k] = c[l] => k = l
      /\ \A k, l \in 1..m : k < l => <<c[k], c[l]>> \in Before
      /\ \A p \in I : \E k \in 1..m : c[k] = p
      /\ \A k \in 1..m : t[k] = s[c[k]]
  <2> HIDE DEF t
  <2> QED
    BY <1>4 DEF Listing
<1>6. \A k \in I : k \in 1..n /\ s[k] \in G
  BY <1>0
<1> HIDE DEF n, m, t
<1> DEFINE d == [k \in 1..m |-> b[c[k]]]
<1>7. \A k \in 1..m : d[k] = b[c[k]] /\ c[k] \in I /\ c[k] \in 1..n
  BY <1>5, <1>6
<1>8. d = [k \in 1..m |-> d[k]]
  OBVIOUS
<1> HIDE DEF d
<1>9. d \in [1..m -> Q]
  <2>1. \A k \in 1..m : d[k] \in Q
    BY <1>2, <1>6, <1>7
  <2> QED
    BY <1>8, <2>1
<1>10. \A k, l \in 1..m : d[k] = d[l] => k = l
  BY <1>2, <1>5, <1>7
<1>11. ASSUME NEW k \in 1..m, NEW l \in 1..m, k < l
       PROVE  <<d[k], d[l]>> \in R
  <2>1. <<c[k], c[l]>> \in Before
    BY <1>5, <1>11
  <2>2. c[k] < c[l]
    BY <2>1 DEF Before
  <2>3. <<b[c[k]], b[c[l]]>> \in R
    BY <1>2, <1>7, <2>2
  <2> QED
    BY <1>7, <2>3
<1>12. ASSUME NEW q \in Q
       PROVE  \E k \in 1..m : d[k] = q
  <2>1. PICK j \in 1..n : b[j] = q
    BY <1>2
  <2>2. j \in I
    BY <1>0, <1>2, <2>1 DEF n
  <2>3. PICK k \in 1..m : c[k] = j
    BY <1>5, <2>2
  <2> QED
    BY <1>7, <2>1, <2>3
<1>13. \A k \in 1..m : t[k] = val[d[k]]
  BY <1>2, <1>5, <1>7
<1>14. Listing(t, d, Q, val, R)
  BY <1>9, <1>10, <1>11, <1>12, <1>13, Zenon DEF Listing, m
<1> QED
  BY <1>14, Zenon DEF Listed, t

\* As many places as elements.
LEMMA ListedSize ==
    ASSUME NEW s, NEW P, NEW val, NEW R, Len(s) \in Nat, Listed(s, P, val, R)
    PROVE  IsFiniteSet(P) /\ Cardinality(P) = Len(s)
<1>1. PICK b : Listing(s, b, P, val, R)
  BY DEF Listed
<1>2. ExistsBijection(1..Len(s), P)
  BY <1>1 DEF Listing, ExistsBijection, Bijection, Injection, Surjection, IsInjective
<1> QED
  BY <1>2, FS_NatBijection, FS_CountingElements

\* The permutations of the first n numbers.
Orders(n) == {p \in [1..n -> 1..n] : /\ \A k, l \in 1..n : p[k] = p[l] => k = l
                                     /\ \A x \in 1..n : \E k \in 1..n : p[k] = x}

\* Numbers other than j keep apart if the gap at j is closed.
LEMMA SameWithout ==
    ASSUME NEW a \in Int, NEW b \in Int, NEW j \in Int, a # j, b # j,
           (IF a < j THEN a ELSE a - 1) = (IF b < j THEN b ELSE b - 1)
    PROVE  a = b
OBVIOUS

\* A sum does not depend on the order.
LEMMA SumPermuted ==
    ASSUME NEW n \in Nat, NEW s \in [1..n -> Int], NEW p \in Orders(n)
    PROVE  Sum([i \in 1..n |-> s[p[i]]]) = Sum(s)
<1> DEFINE Same(m) == \A u \in [1..m -> Int], q \in Orders(m) :
                          Sum([i \in 1..m |-> u[q[i]]]) = Sum(u)
           T == {m \in Nat : Same(m)}
<1>1. 0 \in T
  <2> SUFFICES ASSUME NEW u \in [1..0 -> Int], NEW q \in Orders(0)
               PROVE  Sum([i \in 1..0 |-> u[q[i]]]) = Sum(u)
    OBVIOUS
  <2>1. [i \in 1..0 |-> u[q[i]]] = u
    OBVIOUS
  <2> QED
    BY <2>1, Zenon
<1>2. ASSUME NEW m \in Nat, m \in T
      PROVE  m + 1 \in T
  <2> SUFFICES ASSUME NEW u \in [1..(m + 1) -> Int], NEW q \in Orders(m + 1)
               PROVE  Sum([i \in 1..(m + 1) |-> u[q[i]]]) = Sum(u)
    OBVIOUS
  <2> DEFINE t == [i \in 1..(m + 1) |-> u[q[i]]]
             j == q[m + 1]
             v == [x \in 1..m |-> IF x < j THEN u[x] ELSE u[x + 1]]
             r == [i \in 1..m |-> IF q[i] < j THEN q[i] ELSE q[i] - 1]
  <2>1. /\ q \in [1..(m + 1) -> 1..(m + 1)]
        /\ \A k, l \in 1..(m + 1) : q[k] = q[l] => k = l
        /\ \A x \in 1..(m + 1) : \E k \in 1..(m + 1) : q[k] = x
    BY DEF Orders
  <2>2. j \in 1..(m + 1) /\ \A i \in 1..m : q[i] \in 1..(m + 1) /\ q[i] # j
    <3>1. m + 1 \in 1..(m + 1) /\ \A i \in 1..m : i \in 1..(m + 1) /\ i # m + 1
      OBVIOUS
    <3> QED
      BY <2>1, <3>1
  <2>3. r \in Orders(m)
    <3>1. \A i \in 1..m : r[i] \in 1..m
      BY <2>2, SMTT(30)
    <3>2. \A k, l \in 1..m : r[k] = r[l] => k = l
      <4> SUFFICES ASSUME NEW k \in 1..m, NEW l \in 1..m, r[k] = r[l]
                   PROVE  k = l
        OBVIOUS
      <4>1. q[k] = q[l]
        <5>1. /\ r[k] = IF q[k] < j THEN q[k] ELSE q[k] - 1
              /\ r[l] = IF q[l] < j THEN q[l] ELSE q[l] - 1
          OBVIOUS
        <5>2. /\ q[k] \in Int /\ q[l] \in Int /\ j \in Int
              /\ q[k] # j /\ q[l] # j
          BY <2>2
        <5>3. (IF q[k] < j THEN q[k] ELSE q[k] - 1) = (IF q[l] < j THEN q[l] ELSE q[l] - 1)
          BY <5>1, Zenon
        <5> HIDE DEF r, j
        <5> QED
          BY <5>2, <5>3, SameWithout, Zenon
      <4> QED
        BY <2>1, <4>1
    <3>3. ASSUME NEW x \in 1..m
          PROVE  \E k \in 1..m : r[k] = x
      <4>1. CASE x < j
        <5>1. PICK k \in 1..(m + 1) : q[k] = x
          BY <2>1
        <5>2. k \in 1..m
          <6>1. k # m + 1
            <7> SUFFICES ASSUME k = m + 1
                         PROVE  FALSE
              OBVIOUS
            <7>1. j = x
              BY <5>1
            <7> HIDE DEF j
            <7> QED
              BY <4>1, <7>1
          <6> QED
            BY <6>1
        <5> QED
          BY <4>1, <5>1, <5>2
      <4>2. CASE ~(x < j)
        <5>1. PICK k \in 1..(m + 1) : q[k] = x + 1
          BY <2>1
        <5>2. k \in 1..m
          BY <2>2, <4>2, <5>1
        <5>3. r[k] = x
          <6>1. q[k] > j /\ q[k] \in Int
            BY <2>2, <4>2, <5>1, <5>2
          <6>2. r[k] = q[k] - 1
            BY <2>2, <5>2, <6>1
          <6> QED
            BY <5>1, <6>2
        <5> QED
          BY <5>2, <5>3
      <4> QED
        BY <4>1, <4>2
    <3>4. r \in [1..m -> 1..m]
      BY <3>1
    <3> HIDE DEF r
    <3> QED
      BY <3>2, <3>3, <3>4 DEF Orders
  <2>4. v \in [1..m -> Int]
    BY <2>2
  <2>5. \A i \in 1..m : v[r[i]] = t[i]
    <3> TAKE i \in 1..m
    <3>1. CASE q[i] < j
      BY <2>2, <3>1
    <3>2. CASE q[i] > j
      <4>1. r[i] = q[i] - 1 /\ q[i] - 1 \in 1..m /\ ~(q[i] - 1 < j)
        BY <2>2, <3>2, SMTT(30)
      <4>2. v[r[i]] = u[q[i]]
        BY <2>2, <4>1, SMTT(30)
      <4> QED
        BY <4>2
    <3> QED
      BY <2>2, <3>1, <3>2
  <2>6. [i \in 1..m |-> v[r[i]]] = [i \in 1..m |-> t[i]]
    <3> HIDE DEF v, r, t
    <3> QED
      BY <2>5
  <2>7. Sum([i \in 1..m |-> v[r[i]]]) = Sum(v)
    <3> HIDE DEF v, r
    <3> QED
      BY <1>2, <2>3, <2>4
  <2>8. Sum(u) = Sum(v) + u[j]
    BY <2>2, SumRemove, Zenon
  <2>9. t \in [1..(m + 1) -> Int] /\ t[m + 1] = u[j]
    <3>1. \A i \in 1..(m + 1) : u[q[i]] \in Int
      BY <2>1
    <3>2. m + 1 \in 1..(m + 1)
      OBVIOUS
    <3> QED
      BY <3>1, <3>2
  <2>10. Sum(t) = Sum([i \in 1..m |-> t[i]]) + t[m + 1]
    <3> HIDE DEF t
    <3> QED
      BY <2>9, SumLast, Zenon
  <2> HIDE DEF t, v, r, j
  <2>11. Sum(t) = Sum(u)
    BY <2>6, <2>7, <2>8, <2>9, <2>10
  <2> QED
    BY <2>11 DEF t
<1>3. Nat \subseteq T
  <2> HIDE DEF T
  <2> QED
    BY <1>1, <1>2, SetInduction
<1>4. Same(n)
  <2> HIDE DEF Same
  <2> QED
    BY <1>3
<1> QED
  BY <1>4

\* Sequences that list the same places have the same sum.
LEMMA SameSum ==
    ASSUME NEW s \in Seq(Int), NEW t \in Seq(Int), NEW P, NEW val, NEW R, NEW R2,
           Listed(s, P, val, R), Listed(t, P, val, R2)
    PROVE  Sum(s) = Sum(t)
<1> DEFINE n == Len(s)
<1>1. n \in Nat /\ Len(t) = n
  <2>1. Len(s) \in Nat /\ Len(t) \in Nat
    OBVIOUS
  <2>2. Cardinality(P) = Len(s) /\ Cardinality(P) = Len(t)
    BY <2>1, ListedSize, Zenon
  <2> QED
    BY <2>1, <2>2
<1>2. PICK b : Listing(s, b, P, val, R)
  BY DEF Listed
<1>3. PICK c : Listing(t, c, P, val, R2)
  BY DEF Listed
<1>4. /\ b \in [1..n -> P]
      /\ \A k, l \in 1..n : b[k] = b[l] => k = l
      /\ \A p \in P : \E k \in 1..n : b[k] = p
      /\ \A k \in 1..n : s[k] = val[b[k]]
  BY <1>2 DEF Listing
<1>5. /\ c \in [1..n -> P]
      /\ \A k, l \in 1..n : c[k] = c[l] => k = l
      /\ \A p \in P : \E k \in 1..n : c[k] = p
      /\ \A k \in 1..n : t[k] = val[c[k]]
  BY <1>1, <1>3 DEF Listing
<1>6. s \in [1..n -> Int] /\ t \in [1..n -> Int]
  BY <1>1
<1> HIDE DEF n
<1> DEFINE p == [k \in 1..n |-> CHOOSE l \in 1..n : b[l] = c[k]]
<1>7. ASSUME NEW k \in 1..n
      PROVE  p[k] \in 1..n /\ b[p[k]] = c[k]
  <2>1. \E l \in 1..n : b[l] = c[k]
    BY <1>4, <1>5
  <2> QED
    BY <2>1
<1>8. p = [k \in 1..n |-> p[k]]
  OBVIOUS
<1> HIDE DEF p
<1>9. p \in [1..n -> 1..n]
  BY <1>7, <1>8
<1>10. \A k, l \in 1..n : p[k] = p[l] => k = l
  BY <1>5, <1>7
<1>11. ASSUME NEW x \in 1..n
       PROVE  \E k \in 1..n : p[k] = x
  <2>1. PICK k \in 1..n : c[k] = b[x]
    BY <1>4, <1>5
  <2>2. p[k] = x
    BY <1>4, <1>7, <2>1
  <2> QED
    BY <2>2
<1>12. p \in Orders(n)
  BY <1>9, <1>10, <1>11 DEF Orders
<1>13. t = [i \in 1..n |-> s[p[i]]]
  <2>1. ASSUME NEW i \in 1..n
        PROVE  t[i] = s[p[i]]
    <3>1. t[i] = val[c[i]] /\ b[p[i]] = c[i] /\ p[i] \in 1..n
      BY <1>5, <1>7
    <3>2. s[p[i]] = val[b[p[i]]]
      BY <1>4, <3>1
    <3> QED
      BY <3>1, <3>2, Zenon
  <2> QED
    BY <1>6, <2>1
<1>14. Sum([i \in 1..n |-> s[p[i]]]) = Sum(s)
  BY <1>1, <1>6, <1>12, SumPermuted
<1> QED
  BY <1>13, <1>14

\* The elements of a finite set in some order.
LEMMA SetToSeqListed ==
    ASSUME NEW P, IsFiniteSet(P)
    PROVE  /\ SetToSeq(P) \in Seq(P) /\ Len(SetToSeq(P)) = Cardinality(P)
           /\ Listing(SetToSeq(P), SetToSeq(P), P, [p \in P |-> p], P \X P)
<1> DEFINE n == Cardinality(P)
           Good(f) == f \in [1..n -> P] /\ IsInjective(f)
           e == CHOOSE f : Good(f)
<1>1. n \in Nat /\ ExistsBijection(1..n, P)
  BY FS_CardinalityType
<1>2. PICK g : Good(g)
  BY <1>1 DEF ExistsBijection, Bijection, Injection
<1>3. Good(e)
  <2> HIDE DEF Good
  <2> QED
    BY <1>2, Zenon
<1>4. SetToSeq(P) = e
  BY DEF SetToSeq
<1> HIDE DEF e, n
<1>5. e \in [1..n -> P] /\ \A k, l \in 1..n : e[k] = e[l] => k = l
  BY <1>3 DEF IsInjective
<1>6. \A p \in P : \E k \in 1..n : e[k] = p
  <2>1. e \in Injection(1..n, P)
    BY <1>3 DEF Injection
  <2>2. Cardinality(1..n) = n
    <3>1. 1 \in Int /\ n \in Int
      BY <1>1
    <3>2. Cardinality(1..n) = IF 1 > n THEN 0 ELSE n - 1 + 1
      BY <3>1, FS_Interval
    <3> QED
      BY <1>1, <3>2
  <2>3. e \in Surjection(1..n, P)
    BY <2>1, <2>2, FS_Injection DEF n
  <2> QED
    BY <2>3 DEF Surjection
<1>7. e \in Seq(P) /\ Len(e) = n
  <2>1. e \in Seq(P) /\ DOMAIN e = 1..n
    BY <1>1, <1>5
  <2> QED
    BY <1>1, <2>1
<1>8. \A k \in 1..n : e[k] = [p \in P |-> p][e[k]]
  BY <1>5
<1>9. Listing(e, e, P, [p \in P |-> p], P \X P)
  <2>1. \A k, l \in 1..n : <<e[k], e[l]>> \in P \X P
    BY <1>5
  <2> QED
    BY <1>5, <1>6, <1>7, <1>8, <2>1 DEF Listing
<1> QED
  BY <1>4, <1>7, <1>9 DEF n

\* The sum of a function, along any sequence that lists its values.
LEMMA SumOfListed ==
    ASSUME NEW P, NEW f \in [P -> Int], NEW s \in Seq(Int), NEW R, Listed(s, P, f, R)
    PROVE  SumOf(f) = Sum(s)
<1> DEFINE e == SetToSeq(P)
           t == [i \in DOMAIN e |-> f[e[i]]]
           n == Len(e)
<1>1. IsFiniteSet(P)
  <2>1. Len(s) \in Nat
    OBVIOUS
  <2> QED
    BY <2>1, ListedSize, Zenon
<1>2. e \in Seq(P) /\ Listing(e, e, P, [p \in P |-> p], P \X P)
  BY <1>1, SetToSeqListed, Zenon
<1>3. SumOf(f) = Sum(t)
  <2>1. DOMAIN f = P
    OBVIOUS
  <2> QED
    BY <2>1, Zenon DEF SumOf
<1> HIDE DEF e
<1>4. n \in Nat /\ DOMAIN e = 1..n /\ \A i \in 1..n : e[i] \in P
  BY <1>2
<1> HIDE DEF n
<1>5. t \in Seq(Int) /\ Len(t) = n /\ \A i \in 1..n : t[i] = f[e[i]]
  <2>1. \A i \in 1..n : f[e[i]] \in Int
    BY <1>4
  <2>2. t = [i \in 1..n |-> f[e[i]]]
    BY <1>4
  <2> HIDE DEF t
  <2>3. t \in Seq(Int) /\ DOMAIN t = 1..n
    BY <1>4, <2>1, <2>2
  <2> QED
    BY <1>4, <2>2, <2>3
<1> HIDE DEF t
<1>6. Listing(t, e, P, f, P \X P)
  BY <1>2, <1>5 DEF Listing, n
<1>7. Listed(t, P, f, P \X P)
  BY <1>6, Zenon DEF Listed
<1>8. Sum(s) = Sum(t)
  BY <1>5, <1>7, SameSum, Zenon
<1> QED
  BY <1>3, <1>8

-----------------------------------------------------------------------------
(* Sorting.                                                                *)

\* A finite set of numbers can be put in ascending order.
LEMMA AscendingType ==
    ASSUME NEW S \in SUBSET Nat, IsFiniteSet(S)
    PROVE  /\ Ascending(S) \in Seq(S) /\ Len(Ascending(S)) = Cardinality(S)
           /\ \A i, j \in 1..Cardinality(S) : i < j => Ascending(S)[i] < Ascending(S)[j]
<1> DEFINE Good(f, m, A) == /\ f \in [1..m -> A]
                            /\ \A i, j \in 1..m : i < j => f[i] < f[j]
           T == {m \in Nat : \A A \in SUBSET Nat :
                                 IsFiniteSet(A) /\ Cardinality(A) = m => \E f : Good(f, m, A)}
           n == Cardinality(S)
<1>1. 0 \in T
  <2> SUFFICES ASSUME NEW A \in SUBSET Nat
               PROVE  \E f : Good(f, 0, A)
    OBVIOUS
  <2>1. Good(<<>>, 0, A)
    OBVIOUS
  <2> HIDE DEF Good
  <2> QED
    BY <2>1
<1>2. ASSUME NEW m \in Nat, m \in T
      PROVE  m + 1 \in T
  <2> SUFFICES ASSUME NEW A \in SUBSET Nat, IsFiniteSet(A), Cardinality(A) = m + 1
               PROVE  \E f : Good(f, m + 1, A)
    OBVIOUS
  <2>1. A # {}
    <3>1. Cardinality({}) = 0
      BY FS_EmptySet
    <3> QED
      BY <3>1
  <2>2. PICK x \in A : \A y \in A : x <= y
    BY <2>1, LeastElement
  <2> DEFINE B == A \ {x}
  <2>3. IsFiniteSet(B) /\ Cardinality(B) = m /\ B \in SUBSET Nat
    <3>1. IsFiniteSet(A \ {x}) /\ Cardinality(A \ {x}) = Cardinality(A) - 1
      BY FS_RemoveElement
    <3> QED
      BY <3>1
  <2>4. PICK g : Good(g, m, B)
    <3> HIDE DEF Good, B
    <3> QED
      BY <1>2, <2>3
  <2> DEFINE f == [i \in 1..(m + 1) |-> IF i = 1 THEN x ELSE g[i - 1]]
  <2>5. \A i \in 2..(m + 1) : i - 1 \in 1..m /\ f[i] = g[i - 1] /\ g[i - 1] \in B
    BY <2>4
  <2>6. f[1] = x /\ f = [i \in 1..(m + 1) |-> f[i]]
    OBVIOUS
  <2>7. \A i \in 1..(m + 1) : i = 1 \/ i \in 2..(m + 1)
    OBVIOUS
  <2> HIDE DEF f
  <2>8. f \in [1..(m + 1) -> A]
    <3>1. \A i \in 1..(m + 1) : f[i] \in A
      BY <2>5, <2>6, <2>7
    <3> QED
      BY <2>6, <3>1
  <2>9. ASSUME NEW i \in 1..(m + 1), NEW j \in 1..(m + 1), i < j
        PROVE  f[i] < f[j]
    <3>1. j \in 2..(m + 1)
      BY <2>9
    <3>2. CASE i = 1
      <4>1. f[j] \in A /\ f[j] # x
        BY <2>5, <3>1
      <4>2. x <= f[j] /\ f[j] \in Nat /\ x \in Nat
        BY <2>2, <4>1
      <4> QED
        BY <2>6, <3>2, <4>1, <4>2
    <3>3. CASE i \in 2..(m + 1)
      <4>1. i - 1 \in 1..m /\ j - 1 \in 1..m /\ i - 1 < j - 1
        BY <2>5, <2>9, <3>1, <3>3
      <4>2. g[i - 1] < g[j - 1]
        BY <2>4, <4>1
      <4> QED
        BY <2>5, <3>1, <3>3, <4>2
    <3> QED
      BY <2>7, <3>2, <3>3
  <2>10. Good(f, m + 1, A)
    BY <2>8, <2>9
  <2> HIDE DEF Good
  <2> QED
    BY <2>10
<1>3. Nat \subseteq T
  <2> HIDE DEF T
  <2> QED
    BY <1>1, <1>2, SetInduction
<1>4. n \in Nat
  BY FS_CardinalityType
<1>5. PICK g : Good(g, n, S)
  <2>1. n \in T
    BY <1>3, <1>4
  <2> HIDE DEF Good
  <2> QED
    BY <2>1
<1> DEFINE H(f) == f \in [1..n -> S] /\ \A i, j \in DOMAIN f : i < j => f[i] < f[j]
           a == CHOOSE f : H(f)
<1>6. H(g)
  BY <1>5
<1>7. H(a)
  <2> HIDE DEF H
  <2> QED
    BY <1>6, Zenon
<1>8. Ascending(S) = a
  BY DEF Ascending
<1> HIDE DEF a, n
<1>9. a \in Seq(S) /\ DOMAIN a = 1..n
  BY <1>4, <1>7
<1>10. Len(a) = n
  BY <1>4, <1>9
<1>11. \A i, j \in 1..n : i < j => a[i] < a[j]
  BY <1>7, <1>9
<1> QED
  BY <1>8, <1>9, <1>10, <1>11 DEF n

\* The positions in an order in which the numbers descend.
Sorts(p, s, n) ==
    /\ p \in [1..n -> 1..n]
    /\ \A k, l \in 1..n : p[k] = p[l] => k = l
    /\ \A i, j \in 1..n : i < j => s[p[i]] >= s[p[j]]

\* One more number is put behind those that are not smaller.
LEMMA SortsOneMore ==
    ASSUME NEW n \in Nat, NEW s \in [1..(n + 1) -> Int], NEW p, Sorts(p, s, n)
    PROVE  \E q : Sorts(q, s, n + 1)
<1> DEFINE x == s[n + 1]
           A == {k \in 0..n : k = 0 \/ s[p[k]] >= x}
<1>1. PICK m \in A : \A k \in A : k <= m
  <2>1. A \in SUBSET (0..n) /\ 0 \in A
    OBVIOUS
  <2> QED
    BY <2>1, GreatestElement
<1>2. /\ p \in [1..n -> 1..n]
      /\ \A k, l \in 1..n : p[k] = p[l] => k = l
      /\ \A i, j \in 1..n : i < j => s[p[i]] >= s[p[j]]
  BY DEF Sorts
<1>3. \A k \in 1..n : s[p[k]] \in Int /\ p[k] \in 1..(n + 1) /\ p[k] # n + 1
  BY <1>2
<1>4. x \in Int /\ m \in 0..n
  OBVIOUS
<1>5. \A k \in 1..n : k <= m => s[p[k]] >= x
  <2> SUFFICES ASSUME NEW k \in 1..n, k <= m
               PROVE  s[p[k]] >= x
    OBVIOUS
  <2>1. s[p[m]] >= x /\ m \in 1..n
    OBVIOUS
  <2>2. k = m \/ s[p[k]] >= s[p[m]]
    <3>1. k < m \/ k = m
      BY <1>4
    <3> HIDE DEF A, x
    <3> QED
      BY <1>2, <2>1, <3>1
  <2>3. s[p[m]] \in Int /\ s[p[k]] \in Int
    BY <1>3, <2>1
  <2> HIDE DEF x
  <2> QED
    BY <1>4, <2>1, <2>2, <2>3, SMTT(30)
<1>6. \A k \in 1..n : k > m => x >= s[p[k]]
  <2> SUFFICES ASSUME NEW k \in 1..n, k > m
               PROVE  x >= s[p[k]]
    OBVIOUS
  <2>1. k \notin A
    BY <1>1
  <2>2. ~(s[p[k]] >= x)
    BY <2>1
  <2>3. s[p[k]] \in Int
    BY <1>3
  <2> HIDE DEF x
  <2> QED
    BY <1>4, <2>2, <2>3
<1> DEFINE q == [k \in 1..(n + 1) |-> IF k <= m THEN p[k]
                                      ELSE IF k = m + 1 THEN n + 1 ELSE p[k - 1]]
<1>7. \A k \in 1..(n + 1) : k <= m => k \in 1..n /\ q[k] = p[k]
  BY <1>4
<1>8. m + 1 \in 1..(n + 1) /\ q[m + 1] = n + 1
  BY <1>4
<1>9. \A k \in 1..(n + 1) : k > m + 1 => k - 1 \in 1..n /\ k - 1 > m /\ q[k] = p[k - 1]
  BY <1>4
<1>10. q = [k \in 1..(n + 1) |-> q[k]]
  OBVIOUS
<1>11. \A k \in 1..(n + 1) : k <= m \/ k = m + 1 \/ k > m + 1
  BY <1>4
<1> HIDE DEF q, A
<1>12. q \in [1..(n + 1) -> 1..(n + 1)]
  <2>1. \A k \in 1..(n + 1) : q[k] \in 1..(n + 1)
    <3> TAKE k \in 1..(n + 1)
    <3>1. n + 1 \in 1..(n + 1)
      OBVIOUS
    <3> QED
      BY <1>3, <1>7, <1>8, <1>9, <1>11, <3>1
  <2> QED
    BY <1>10, <2>1
<1>13. ASSUME NEW k \in 1..(n + 1), NEW l \in 1..(n + 1), q[k] = q[l]
       PROVE  k = l
  <2>1. CASE k <= m
    <3>1. q[k] = p[k] /\ k \in 1..n
      BY <1>7, <2>1
    <3>2. CASE l <= m
      BY <1>2, <1>7, <1>13, <3>1, <3>2
    <3>3. CASE l = m + 1
      BY <1>3, <1>8, <1>13, <3>1, <3>3
    <3>4. CASE l > m + 1
      <4>1. q[l] = p[l - 1] /\ l - 1 \in 1..n /\ l - 1 > m
        BY <1>9, <3>4
      <4>2. k = l - 1
        BY <1>2, <1>13, <3>1, <4>1
      <4> QED
        BY <1>4, <2>1, <4>1, <4>2
    <3> QED
      BY <1>11, <3>2, <3>3, <3>4
  <2>2. CASE k = m + 1
    <3>1. q[l] = n + 1
      BY <1>8, <1>13, <2>2
    <3>2. ~(l <= m)
      BY <1>3, <1>7, <3>1
    <3>3. ~(l > m + 1)
      BY <1>3, <1>9, <3>1
    <3> QED
      BY <1>11, <2>2, <3>2, <3>3
  <2>3. CASE k > m + 1
    <3>1. q[k] = p[k - 1] /\ k - 1 \in 1..n /\ k - 1 > m
      BY <1>9, <2>3
    <3>2. CASE l <= m
      <4>1. q[l] = p[l] /\ l \in 1..n
        BY <1>7, <3>2
      <4>2. l = k - 1
        BY <1>2, <1>13, <3>1, <4>1
      <4> QED
        BY <1>4, <3>1, <3>2, <4>2
    <3>3. CASE l = m + 1
      BY <1>3, <1>8, <1>13, <3>1, <3>3
    <3>4. CASE l > m + 1
      <4>1. q[l] = p[l - 1] /\ l - 1 \in 1..n
        BY <1>9, <3>4
      <4>2. k - 1 = l - 1
        BY <1>2, <1>13, <3>1, <4>1
      <4> QED
        BY <4>2
    <3> QED
      BY <1>11, <3>2, <3>3, <3>4
  <2> QED
    BY <1>11, <2>1, <2>2, <2>3
<1>14. ASSUME NEW i \in 1..(n + 1), NEW j \in 1..(n + 1), i < j
       PROVE  s[q[i]] >= s[q[j]]
  <2>1. CASE i <= m
    <3>1. q[i] = p[i] /\ i \in 1..n /\ s[p[i]] >= x /\ s[p[i]] \in Int
      BY <1>3, <1>5, <1>7, <2>1
    <3>2. CASE j <= m
      <4>1. q[j] = p[j] /\ j \in 1..n
        BY <1>7, <3>2
      <4> QED
        BY <1>2, <1>14, <3>1, <4>1
    <3>3. CASE j = m + 1
      <4>1. s[q[j]] = x
        BY <1>8, <3>3
      <4> QED
        BY <3>1, <4>1
    <3>4. CASE j > m + 1
      <4>1. q[j] = p[j - 1] /\ j - 1 \in 1..n /\ j - 1 > m
        BY <1>9, <3>4
      <4>2. x >= s[p[j - 1]] /\ s[p[j - 1]] \in Int
        BY <1>3, <1>6, <4>1
      <4> HIDE DEF x
      <4> QED
        BY <1>4, <3>1, <4>1, <4>2, SMTT(30)
    <3> QED
      BY <1>11, <3>2, <3>3, <3>4
  <2>2. CASE i = m + 1
    <3>1. j > m + 1
      BY <1>14, <2>2
    <3>2. q[j] = p[j - 1] /\ j - 1 \in 1..n /\ j - 1 > m
      BY <1>9, <3>1
    <3>3. s[q[i]] = x
      BY <1>8, <2>2
    <3> QED
      BY <1>6, <3>2, <3>3
  <2>3. CASE i > m + 1
    <3>1. q[i] = p[i - 1] /\ i - 1 \in 1..n
      BY <1>9, <2>3
    <3>2. q[j] = p[j - 1] /\ j - 1 \in 1..n /\ i - 1 < j - 1
      BY <1>4, <1>9, <1>14, <2>3
    <3> QED
      BY <1>2, <3>1, <3>2
  <2> QED
    BY <1>11, <2>1, <2>2, <2>3
<1>15. Sorts(q, s, n + 1)
  BY <1>12, <1>13, <1>14 DEF Sorts
<1> QED
  BY <1>15

\* Any numbers can be put in descending order.
LEMMA SortsExists ==
    ASSUME NEW n \in Nat, NEW s \in [1..n -> Int]
    PROVE  \E p : Sorts(p, s, n)
<1> DEFINE T == {k \in Nat : k <= n => \E p : Sorts(p, s, k)}
<1>1. 0 \in T
  <2>1. Sorts(<<>>, s, 0)
    BY DEF Sorts
  <2> QED
    BY <2>1
<1>2. ASSUME NEW k \in Nat, k \in T
      PROVE  k + 1 \in T
  <2> SUFFICES ASSUME k + 1 <= n
               PROVE  \E p : Sorts(p, s, k + 1)
    OBVIOUS
  <2>1. PICK p : Sorts(p, s, k)
    BY <1>2
  <2> DEFINE u == [i \in 1..(k + 1) |-> s[i]]
  <2>2. u \in [1..(k + 1) -> Int] /\ \A i \in 1..(k + 1) : u[i] = s[i]
    OBVIOUS
  <2> HIDE DEF u
  <2>3. Sorts(p, u, k)
    <3>1. p \in [1..k -> 1..k]
      BY <2>1 DEF Sorts
    <3>2. \A i \in 1..k : p[i] \in 1..(k + 1) /\ u[p[i]] = s[p[i]]
      BY <2>2, <3>1
    <3> QED
      BY <2>1, <3>2 DEF Sorts
  <2>4. PICK q : Sorts(q, u, k + 1)
    BY <2>2, <2>3, SortsOneMore
  <2>5. Sorts(q, s, k + 1)
    <3>1. q \in [1..(k + 1) -> 1..(k + 1)]
      BY <2>4 DEF Sorts
    <3>2. \A i \in 1..(k + 1) : u[q[i]] = s[q[i]]
      BY <2>2, <3>1
    <3> QED
      BY <2>4, <3>2 DEF Sorts
  <2> QED
    BY <2>5
<1>3. n \in T
  <2> HIDE DEF T
  <2>1. Nat \subseteq T
    BY <1>1, <1>2, SetInduction
  <2> QED
    BY <2>1
<1> QED
  BY <1>3

\* Descending gives the same numbers, the largest first.
LEMMA DescendingIs ==
    ASSUME NEW s \in Seq(Int)
    PROVE  /\ Descending(s) \in Seq(Int) /\ Len(Descending(s)) = Len(s)
           /\ Listed(Descending(s), 1..Len(s), s, (1..Len(s)) \X (1..Len(s)))
           /\ \A i, j \in 1..Len(s) : i < j => Descending(s)[i] >= Descending(s)[j]
<1> DEFINE n == Len(s)
           D == DOMAIN s
           Good(p) == /\ p \in [D -> D]
                      /\ IsInjective(p) /\ \A i, j \in D : i < j => s[p[i]] >= s[p[j]]
           p == CHOOSE q : Good(q)
           t == [i \in 1..n |-> s[p[i]]]
<1>1. n \in Nat /\ D = 1..n /\ s \in [1..n -> Int]
  OBVIOUS
<1> HIDE DEF n, D
<1>2. PICK q : Sorts(q, s, n)
  BY <1>1, SortsExists
<1>3. Good(q)
  BY <1>1, <1>2 DEF Sorts, IsInjective
<1>4. Good(p)
  <2> HIDE DEF Good
  <2> QED
    BY <1>3, Zenon
<1>5. Descending(s) = [i \in D |-> s[p[i]]]
  BY DEF Descending, D
<1> HIDE DEF p
<1>6. Descending(s) = t
  BY <1>1, <1>5
<1>7. /\ p \in [1..n -> 1..n]
      /\ \A k, l \in 1..n : p[k] = p[l] => k = l
      /\ \A i, j \in 1..n : i < j => s[p[i]] >= s[p[j]]
  BY <1>1, <1>4 DEF IsInjective
<1>8. \A x \in 1..n : \E k \in 1..n : p[k] = x
  <2>1. p \in Injection(1..n, 1..n)
    BY <1>1, <1>4 DEF Injection
  <2>2. IsFiniteSet(1..n)
    <3>1. 1 \in Int /\ n \in Int
      BY <1>1
    <3> QED
      BY <3>1, FS_Interval
  <2>3. p \in Surjection(1..n, 1..n)
    BY <2>1, <2>2, FS_Injection
  <2> QED
    BY <2>3 DEF Surjection
<1>9. \A i \in 1..n : t[i] = s[p[i]] /\ t[i] \in Int
  BY <1>1, <1>7
<1>10. t \in Seq(Int) /\ Len(t) = n
  <2>1. t \in [1..n -> Int]
    BY <1>9
  <2> HIDE DEF t
  <2>2. t \in Seq(Int) /\ DOMAIN t = 1..n
    BY <1>1, <2>1
  <2> QED
    BY <1>1, <2>2
<1> HIDE DEF t
<1>11. \A i, j \in 1..n : i < j => t[i] >= t[j]
  BY <1>7, <1>9
<1>12. Listing(t, p, 1..n, s, (1..n) \X (1..n))
  <2>1. \A k, l \in 1..n : <<p[k], p[l]>> \in (1..n) \X (1..n)
    BY <1>7
  <2> QED
    BY <1>7, <1>8, <1>9, <1>10, <2>1 DEF Listing
<1>13. Listed(t, 1..n, s, (1..n) \X (1..n))
  BY <1>12, Zenon DEF Listed
<1> QED
  BY <1>6, <1>10, <1>11, <1>13, Zenon DEF n

-----------------------------------------------------------------------------
(* Concatenation and filters.                                              *)

\* A function on the first n numbers is a sequence.
LEMMA Tabulated ==
    ASSUME NEW S, NEW n \in Nat, NEW f, f = [i \in 1..n |-> f[i]],
           \A i \in 1..n : f[i] \in S
    PROVE  f \in Seq(S) /\ Len(f) = n /\ DOMAIN f = 1..n
<1>1. f \in [1..n -> S]
  OBVIOUS
<1>2. f \in Seq(S) /\ DOMAIN f = 1..n
  BY <1>1
<1>3. Len(f) = n
  BY <1>2
<1> QED
  BY <1>2, <1>3

\* What a concatenation holds.
LEMMA ConcatIs ==
    ASSUME NEW S, NEW a \in Seq(S), NEW b \in Seq(S)
    PROVE  /\ a \o b \in Seq(S) /\ Len(a \o b) = Len(a) + Len(b)
           /\ \A i \in 1..Len(a) : (a \o b)[i] = a[i]
           /\ \A i \in 1..Len(b) : (a \o b)[Len(a) + i] = b[i]
OBVIOUS

\* Nothing before or behind.
LEMMA ConcatEmpty ==
    ASSUME NEW S, NEW a \in Seq(S)
    PROVE  a \o <<>> = a /\ <<>> \o a = a
OBVIOUS

\* The order of two concatenations does not matter.
LEMMA ConcatAssoc ==
    ASSUME NEW S, NEW a \in Seq(S), NEW b \in Seq(S), NEW c \in Seq(S)
    PROVE  (a \o b) \o c = a \o (b \o c)
<1> DEFINE m == Len(a)
           n == Len(b)
           k == Len(c)
           ab == a \o b
           bc == b \o c
           x == ab \o c
           y == a \o bc
<1>1. m \in Nat /\ n \in Nat /\ k \in Nat
  OBVIOUS
<1>2. /\ ab \in Seq(S) /\ Len(ab) = m + n
      /\ (\A i \in 1..m : ab[i] = a[i]) /\ \A i \in 1..n : ab[m + i] = b[i]
  BY ConcatIs
<1>3. /\ bc \in Seq(S) /\ Len(bc) = n + k
      /\ (\A i \in 1..n : bc[i] = b[i]) /\ \A i \in 1..k : bc[n + i] = c[i]
  BY ConcatIs
<1> HIDE DEF ab, bc
<1>4. /\ x \in Seq(S) /\ Len(x) = (m + n) + k
      /\ (\A i \in 1..(m + n) : x[i] = ab[i]) /\ \A i \in 1..k : x[(m + n) + i] = c[i]
  <2>0. ab \in Seq(S)
    BY <1>2, Zenon
  <2>1. /\ x \in Seq(S) /\ Len(x) = Len(ab) + k
        /\ (\A i \in 1..Len(ab) : x[i] = ab[i]) /\ \A i \in 1..k : x[Len(ab) + i] = c[i]
    BY <2>0, ConcatIs
  <2> QED
    BY <1>2, <2>1
<1>5. /\ y \in Seq(S) /\ Len(y) = m + (n + k)
      /\ (\A i \in 1..m : y[i] = a[i]) /\ \A i \in 1..(n + k) : y[m + i] = bc[i]
  <2>0. bc \in Seq(S)
    BY <1>3, Zenon
  <2>1. /\ y \in Seq(S) /\ Len(y) = m + Len(bc)
        /\ (\A i \in 1..m : y[i] = a[i]) /\ \A i \in 1..Len(bc) : y[m + i] = bc[i]
    BY <2>0, ConcatIs
  <2> QED
    BY <1>3, <2>1
<1> HIDE DEF x, y, m, n, k
<1>6. ASSUME NEW i \in 1..Len(x)
      PROVE  x[i] = y[i]
  <2>1. CASE i <= m
    <3>1. i \in 1..m /\ i \in 1..(m + n)
      BY <1>1, <2>1
    <3> QED
      BY <1>2, <1>4, <1>5, <3>1, Zenon
  <2>2. CASE m < i /\ i <= m + n
    <3> DEFINE j == i - m
    <3>1. j \in 1..n /\ j \in 1..(n + k) /\ m + j = i /\ i \in 1..(m + n)
      BY <1>1, <2>2
    <3> HIDE DEF j
    <3>2. x[m + j] = b[j] /\ y[m + j] = b[j]
      BY <1>2, <1>3, <1>4, <1>5, <3>1
    <3> QED
      BY <3>1, <3>2
  <2>3. CASE m + n < i
    <3> DEFINE j == i - (m + n)
    <3>1. /\ j \in 1..k /\ n + j \in 1..(n + k) /\ (m + n) + j = i /\ m + (n + j) = i
      BY <1>1, <1>4, <2>3
    <3> HIDE DEF j
    <3>2. x[(m + n) + j] = c[j] /\ y[m + (n + j)] = c[j]
      BY <1>3, <1>4, <1>5, <3>1
    <3> QED
      BY <3>1, <3>2
  <2> QED
    BY <1>1, <2>1, <2>2, <2>3
<1>7. x = y
  <2>1. Len(x) = Len(y)
    BY <1>1, <1>4, <1>5
  <2> QED
    BY <1>4, <1>5, <1>6, <2>1, SameElements
<1> QED
  BY <1>7 DEF x, y, ab, bc

\* Concatenation of sequences over a set is associative.
Associates(S) == \A a, b, c \in Seq(S) : (a \o b) \o c = a \o (b \o c)

\* The same of all sequences over a set.
LEMMA ConcatsAssoc ==
    ASSUME NEW S
    PROVE  Associates(S)
BY ConcatAssoc DEF Associates

\* A pair is one element after another.
LEMMA PairIs ==
    ASSUME NEW S, NEW x \in S, NEW y \in S
    PROVE  <<x>> \o <<y>> = <<x, y>>
<1> DEFINE a == <<x>>
           c == <<x, y>>
           ab == a \o <<y>>
<1>1. a \in Seq(S) /\ Len(a) = 1 /\ a[1] = x
  OBVIOUS
<1>2. c \in Seq(S) /\ Len(c) = 2 /\ c[1] = x /\ c[2] = y
  OBVIOUS
<1> HIDE DEF a, c
<1>3. /\ ab \in Seq(S) /\ Len(ab) = Len(a) + 1
      /\ \A j \in 1..Len(a) : ab[j] = a[j]
      /\ ab[Len(a) + 1] = y
  BY <1>1, OneMore
<1> HIDE DEF ab
<1>4. Len(ab) = 2 /\ ab[1] = x /\ ab[2] = y
  BY <1>1, <1>3
<1>5. Len(ab) = Len(c) /\ \A i \in 1..Len(ab) : ab[i] = c[i]
  BY <1>2, <1>4
<1>6. ab = c
  BY <1>2, <1>3, <1>5, SameElements, Zenon
<1> QED
  BY <1>6 DEF a, c, ab

\* What is flattened piece by piece.
LEMMA FlattenConcat ==
    ASSUME NEW S, NEW a \in Seq(Seq(S)), NEW b \in Seq(Seq(S))
    PROVE  FlattenSeq(a \o b) = FlattenSeq(a) \o FlattenSeq(b)
<1> DEFINE m == Len(a)
           n == Len(b)
           ab == a \o b
<1>0. Associates(S)
  BY ConcatsAssoc, Zenon
<1>1. m \in Nat /\ n \in Nat
  OBVIOUS
<1>2. PICK f \in [0..m -> Seq(S)] : /\ f[0] = <<>>
                                    /\ \A i \in 1..m : f[i] = f[i - 1] \o a[i]
                                    /\ FlattenSeq(a) = f[m]
  BY FlattenDef
<1>3. PICK g \in [0..n -> Seq(S)] : /\ g[0] = <<>>
                                    /\ \A i \in 1..n : g[i] = g[i - 1] \o b[i]
                                    /\ FlattenSeq(b) = g[n]
  BY FlattenDef
<1>4. /\ ab \in Seq(Seq(S)) /\ Len(ab) = m + n
      /\ (\A i \in 1..m : ab[i] = a[i]) /\ \A i \in 1..n : ab[m + i] = b[i]
  BY ConcatIs
<1>5. \A i \in 1..n : b[i] \in Seq(S)
  OBVIOUS
<1> HIDE DEF m, n, ab
<1> DEFINE h == [i \in 0..(m + n) |-> IF i <= m THEN f[i] ELSE f[m] \o g[i - m]]
<1>6. h[0] = <<>>
  BY <1>1, <1>2
<1>7. ASSUME NEW i \in 1..(m + n)
      PROVE  h[i] = h[i - 1] \o ab[i]
  <2>1. CASE i <= m
    <3>1. i \in 1..m /\ i - 1 \in 0..(m + n) /\ i - 1 <= m /\ i \in 0..(m + n)
      BY <1>1, <2>1
    <3>2. h[i] = f[i] /\ h[i - 1] = f[i - 1]
      BY <2>1, <3>1
    <3> QED
      BY <1>2, <1>4, <3>1, <3>2
  <2>2. CASE m < i
    <3> DEFINE j == i - m
    <3>1. /\ j \in 1..n /\ j - 1 \in 0..n /\ j \in 0..n /\ m + j = i /\ m \in 0..m
          /\ i \in 0..(m + n) /\ i - 1 \in 0..(m + n) /\ (i - 1) - m = j - 1
      BY <1>1, <2>2
    <3>2. h[i] = f[m] \o g[j]
      BY <1>1, <2>2, <3>1
    <3>3. h[i - 1] = f[m] \o g[j - 1]
      <4>1. CASE i - 1 <= m
        <5>1. i - 1 = m /\ j - 1 = 0
          BY <1>1, <2>2, <4>1
        <5>2. f[m] \o <<>> = f[m]
          BY <1>2, <3>1
        <5>3. h[i - 1] = f[m]
          BY <3>1, <5>1
        <5> QED
          BY <1>3, <5>1, <5>2, <5>3
      <4>2. CASE ~(i - 1 <= m)
        BY <3>1, <4>2
      <4> QED
        BY <4>1, <4>2
    <3>4. ab[i] = b[j] /\ g[j] = g[j - 1] \o b[j]
      BY <1>3, <1>4, <3>1
    <3>5. (f[m] \o g[j - 1]) \o b[j] = f[m] \o (g[j - 1] \o b[j])
      <4>1. f[m] \in Seq(S) /\ g[j - 1] \in Seq(S) /\ b[j] \in Seq(S)
        BY <1>2, <1>3, <1>5, <3>1
      <4> DEFINE x == f[m]
                 y == g[j - 1]
                 z == b[j]
      <4>2. x \in Seq(S) /\ y \in Seq(S) /\ z \in Seq(S)
        BY <4>1
      <4> HIDE DEF x, y, z
      <4>3. (x \o y) \o z = x \o (y \o z)
        BY <1>0, <4>2, Zenon DEF Associates
      <4> QED
        BY <4>3 DEF x, y, z
    <3> HIDE DEF h, j
    <3> QED
      BY <3>2, <3>3, <3>4, <3>5
  <2> HIDE DEF h
  <2>3. i <= m \/ m < i
    BY <1>1
  <2> QED
    BY <2>1, <2>2, <2>3
<1>8. h[m + n] = f[m] \o g[n]
  <2>1. CASE n = 0
    <3>1. f[m] \o <<>> = f[m]
      BY <1>1, <1>2
    <3>2. h[m + n] = f[m] /\ g[n] = <<>>
      BY <1>1, <1>3, <2>1
    <3> QED
      BY <3>1, <3>2
  <2>2. CASE n # 0
    <3>1. m + n \in 0..(m + n) /\ ~(m + n <= m) /\ (m + n) - m = n
      BY <1>1, <2>2
    <3> QED
      BY <3>1
  <2> QED
    BY <2>1, <2>2
<1>9. FlattenSeq(ab) = h[m + n]
  <2> HIDE DEF h
  <2>1. \A i \in 1..Len(ab) : h[i] = h[i - 1] \o ab[i]
    BY <1>4, <1>7
  <2>2. FlattenSeq(ab) = h[Len(ab)]
    BY <1>4, <1>6, <2>1, FlattenIs, Zenon
  <2> QED
    BY <1>4, <2>2
<1> QED
  BY <1>2, <1>3, <1>8, <1>9 DEF ab

\* The elements in G, in their order.
Filter(s, G) == Subsequence(s, {i \in DOMAIN s : s[i] \in G})

\* Each element by itself, or nothing for it.
Sieve(s, G) == [i \in DOMAIN s |-> IF s[i] \in G THEN <<s[i]>> ELSE <<>>]

\* Sieve keeps, at each place, the element there or nothing.
LEMMA SieveType ==
    ASSUME NEW S, NEW s \in Seq(S), NEW G
    PROVE  /\ Sieve(s, G) \in Seq(Seq(S)) /\ Len(Sieve(s, G)) = Len(s)
           /\ \A i \in 1..Len(s) :
                  Sieve(s, G)[i] = IF s[i] \in G THEN <<s[i]>> ELSE <<>>
<1> DEFINE n == Len(s)
           f == Sieve(s, G)
<1>1. n \in Nat /\ DOMAIN s = 1..n /\ \A i \in 1..n : s[i] \in S
  OBVIOUS
<1> HIDE DEF n
<1>2. f = [i \in 1..n |-> IF s[i] \in G THEN <<s[i]>> ELSE <<>>]
  BY <1>1 DEF Sieve
<1> HIDE DEF f
<1>3. \A i \in 1..n : f[i] = IF s[i] \in G THEN <<s[i]>> ELSE <<>>
  BY <1>2
<1>4. f = [i \in 1..n |-> f[i]]
  BY <1>2
<1>5. \A i \in 1..n : f[i] \in Seq(S)
  <2> TAKE i \in 1..n
  <2>1. s[i] \in S
    BY <1>1
  <2>2. <<s[i]>> \in Seq(S) /\ <<>> \in Seq(S)
    BY <2>1
  <2>3. f[i] = <<s[i]>> \/ f[i] = <<>>
    BY <1>3
  <2> QED
    BY <2>2, <2>3, Zenon
<1>6. f \in Seq(Seq(S)) /\ Len(f) = n
  BY <1>1, <1>4, <1>5, Tabulated, Zenon
<1> QED
  BY <1>3, <1>6 DEF f, n

\* Filter is the sieve, flattened.
LEMMA FilterSieve ==
    ASSUME NEW S, NEW s \in Seq(S), NEW G
    PROVE  Filter(s, G) = FlattenSeq(Sieve(s, G))
<1>1. [i \in DOMAIN s |-> IF i \in {j \in DOMAIN s : s[j] \in G} THEN <<s[i]>> ELSE <<>>]
          = Sieve(s, G)
  BY DEF Sieve
<1> QED
  BY <1>1, Zenon DEF Filter, Subsequence

\* A filtered sequence has no new elements.
LEMMA FilterType ==
    ASSUME NEW S, NEW s \in Seq(S), NEW G
    PROVE  Filter(s, G) \in Seq(S)
BY FilterSieve, SieveType, FlattenType

\* The filtered empty sequence.
LEMMA FilterEmpty ==
    ASSUME NEW G
    PROVE  Filter(<<>>, G) = <<>>
<1>1. <<>> \in Seq({}) /\ Len(<<>>) = 0
  OBVIOUS
<1>2. Filter(<<>>, G) = FlattenSeq(Sieve(<<>>, G))
  BY <1>1, FilterSieve
<1>3. Sieve(<<>>, G) \in Seq(Seq({})) /\ Len(Sieve(<<>>, G)) = Len(<<>>)
  BY <1>1, SieveType
<1>4. Sieve(<<>>, G) = <<>>
  <2> DEFINE f == Sieve(<<>>, G)
  <2> HIDE DEF f
  <2>1. f \in Seq(Seq({})) /\ Len(f) = 0
    BY <1>1, <1>3 DEF f
  <2>2. f = <<>>
    BY <2>1
  <2> QED
    BY <2>2 DEF f
<1> QED
  BY <1>2, <1>4, FlattenEmpty

\* All are kept, or none.
LEMMA FilterAll ==
    ASSUME NEW S, NEW s \in Seq(S), NEW G, \A i \in 1..Len(s) : s[i] \in G
    PROVE  Filter(s, G) = s
<1>1. Sieve(s, G) = [i \in DOMAIN s |-> <<s[i]>>]
  BY DEF Sieve
<1> QED
  BY <1>1, FilterSieve, FlattenSingletons, Zenon

\* A sequence without elements of the set, filtered.
LEMMA FilterNone ==
    ASSUME NEW S, NEW s \in Seq(S), NEW G, \A i \in 1..Len(s) : s[i] \notin G
    PROVE  Filter(s, G) = <<>>
<1> DEFINE n == Len(s)
           seqs == Sieve(s, G)
           f == [i \in 0..n |-> <<>>]
<1>1. n \in Nat /\ \A i \in 1..n : s[i] \notin G
  OBVIOUS
<1>2. /\ seqs \in Seq(Seq(S)) /\ Len(seqs) = n
      /\ \A i \in 1..n : seqs[i] = IF s[i] \in G THEN <<s[i]>> ELSE <<>>
  BY SieveType
<1> HIDE DEF n, seqs
<1>3. f[0] = <<>>
  BY <1>1
<1>4. ASSUME NEW i \in 1..n
      PROVE  f[i] = f[i - 1] \o seqs[i]
  <2>1. seqs[i] = <<>>
    BY <1>1, <1>2
  <2>2. i \in 0..n /\ i - 1 \in 0..n
    BY <1>1
  <2>3. <<>> \o <<>> = <<>>
    OBVIOUS
  <2> QED
    BY <2>1, <2>2, <2>3
<1>5. f[n] = <<>>
  BY <1>1
<1>6. FlattenSeq(seqs) = f[n]
  <2> HIDE DEF f
  <2> QED
    BY <1>2, <1>3, <1>4, FlattenIs
<1> QED
  BY <1>5, <1>6, FilterSieve DEF seqs

\* One element.
LEMMA FilterOne ==
    ASSUME NEW x, NEW G
    PROVE  Filter(<<x>>, G) = IF x \in G THEN <<x>> ELSE <<>>
<1> DEFINE s == <<x>>
<1>1. s \in Seq({x}) /\ \A i \in 1..Len(s) : s[i] = x
  OBVIOUS
<1> HIDE DEF s
<1>2. CASE x \in G
  BY <1>1, <1>2, FilterAll DEF s
<1>3. CASE x \notin G
  BY <1>1, <1>3, FilterNone DEF s
<1> QED
  BY <1>2, <1>3

\* One part and another.
LEMMA FilterConcat ==
    ASSUME NEW S, NEW s \in Seq(S), NEW t \in Seq(S), NEW G
    PROVE  Filter(s \o t, G) = Filter(s, G) \o Filter(t, G)
<1> DEFINE m == Len(s)
           n == Len(t)
           st == s \o t
           a == Sieve(s, G)
           b == Sieve(t, G)
           c == Sieve(st, G)
<1>1. m \in Nat /\ n \in Nat
  OBVIOUS
<1>2. /\ st \in Seq(S) /\ Len(st) = m + n
      /\ (\A i \in 1..m : st[i] = s[i]) /\ \A i \in 1..n : st[m + i] = t[i]
  BY ConcatIs
<1> HIDE DEF st
<1>3. /\ a \in Seq(Seq(S)) /\ Len(a) = m
      /\ \A i \in 1..m : a[i] = IF s[i] \in G THEN <<s[i]>> ELSE <<>>
  BY SieveType
<1>4. /\ b \in Seq(Seq(S)) /\ Len(b) = n
      /\ \A i \in 1..n : b[i] = IF t[i] \in G THEN <<t[i]>> ELSE <<>>
  BY SieveType
<1>5. /\ c \in Seq(Seq(S)) /\ Len(c) = m + n
      /\ \A i \in 1..(m + n) : c[i] = IF st[i] \in G THEN <<st[i]>> ELSE <<>>
  <2>0. st \in Seq(S)
    BY <1>2, Zenon
  <2>1. /\ c \in Seq(Seq(S)) /\ Len(c) = Len(st)
        /\ \A i \in 1..Len(st) : c[i] = IF st[i] \in G THEN <<st[i]>> ELSE <<>>
    BY <2>0, SieveType
  <2> HIDE DEF c
  <2> QED
    BY <1>2, <2>1
<1> HIDE DEF m, n, a, b, c
<1> DEFINE ab == a \o b
<1>6. /\ ab \in Seq(Seq(S)) /\ Len(ab) = m + n
      /\ (\A i \in 1..m : ab[i] = a[i]) /\ \A i \in 1..n : ab[m + i] = b[i]
  <2>0. a \in Seq(Seq(S)) /\ b \in Seq(Seq(S))
    BY <1>3, <1>4, Zenon
  <2>1. /\ ab \in Seq(Seq(S)) /\ Len(ab) = Len(a) + Len(b)
        /\ (\A i \in 1..Len(a) : ab[i] = a[i]) /\ \A i \in 1..Len(b) : ab[Len(a) + i] = b[i]
    BY <2>0, ConcatIs
  <2> HIDE DEF ab
  <2> QED
    BY <1>3, <1>4, <2>1
<1> HIDE DEF ab
<1>7. ASSUME NEW i \in 1..(m + n)
      PROVE  c[i] = ab[i]
  <2>1. CASE i <= m
    <3>1. i \in 1..m
      BY <1>1, <2>1
    <3>2. st[i] = s[i] /\ ab[i] = a[i]
      BY <1>2, <1>6, <3>1
    <3> QED
      BY <1>3, <1>5, <3>1, <3>2
  <2>2. CASE m < i
    <3> DEFINE j == i - m
    <3>1. j \in 1..n /\ m + j = i
      BY <1>1, <2>2
    <3> HIDE DEF j
    <3>2. st[i] = t[j] /\ ab[i] = b[j]
      BY <1>2, <1>6, <3>1
    <3> QED
      BY <1>4, <1>5, <3>1, <3>2
  <2>3. i <= m \/ m < i
    BY <1>1
  <2> QED
    BY <2>1, <2>2, <2>3
<1>8. c = ab
  BY <1>5, <1>6, <1>7, SameElements
<1>9. FlattenSeq(ab) = FlattenSeq(a) \o FlattenSeq(b)
  <2>1. a \in Seq(Seq(S)) /\ b \in Seq(Seq(S))
    BY <1>3, <1>4, Zenon
  <2> QED
    BY <2>1, FlattenConcat, Zenon DEF ab
<1>10. /\ Filter(st, G) = FlattenSeq(c)
       /\ Filter(s, G) = FlattenSeq(a) /\ Filter(t, G) = FlattenSeq(b)
  <2>1. st \in Seq(S)
    BY <1>2, Zenon
  <2> QED
    BY <2>1, FilterSieve, Zenon DEF a, b, c
<1> QED
  BY <1>8, <1>9, <1>10, Zenon DEF st

\* The first element passes, and nothing after it.
LEMMA FilterFirst ==
    ASSUME NEW S, NEW x \in S, NEW rest \in Seq(S), NEW G, x \in G,
           \A i \in 1..Len(rest) : rest[i] \notin G
    PROVE  Filter(<<x>> \o rest, G) = <<x>>
<1> DEFINE one == <<x>>
<1>1. one \in Seq(S)
  OBVIOUS
<1>2. Filter(one, G) = <<x>>
  BY FilterOne
<1> HIDE DEF one
<1>3. Filter(one \o rest, G) = Filter(one, G) \o Filter(rest, G)
  BY <1>1, FilterConcat
<1>4. Filter(rest, G) = <<>>
  BY FilterNone
<1>5. <<x>> \o <<>> = <<x>>
  OBVIOUS
<1> QED
  BY <1>2, <1>3, <1>4, <1>5 DEF one

\* What is filtered piece by piece.
LEMMA FilterFlatten ==
    ASSUME NEW S, NEW seqs \in Seq(Seq(S)), NEW G,
           NEW parts \in Seq(Seq(S)), Len(parts) = Len(seqs),
           \A i \in 1..Len(seqs) : parts[i] = Filter(seqs[i], G)
    PROVE  Filter(FlattenSeq(seqs), G) = FlattenSeq(parts)
<1> DEFINE n == Len(seqs)
<1>1. PICK f \in [0..n -> Seq(S)] : /\ f[0] = <<>>
                                    /\ \A i \in 1..n : f[i] = f[i - 1] \o seqs[i]
                                    /\ FlattenSeq(seqs) = f[n]
  BY FlattenDef
<1>2. /\ n \in Nat /\ Len(parts) = n
      /\ \A i \in 1..n : parts[i] = Filter(seqs[i], G) /\ seqs[i] \in Seq(S)
  OBVIOUS
<1> HIDE DEF n
<1> DEFINE g == [i \in 0..n |-> Filter(f[i], G)]
<1>3. g[0] = <<>>
  BY <1>1, <1>2, FilterEmpty
<1>4. ASSUME NEW i \in 1..n
      PROVE  g[i] = g[i - 1] \o parts[i]
  <2>1. i \in 0..n /\ i - 1 \in 0..n
    BY <1>2
  <2>2. f[i] = f[i - 1] \o seqs[i] /\ f[i - 1] \in Seq(S) /\ seqs[i] \in Seq(S)
    BY <1>1, <1>2, <2>1
  <2> DEFINE x == f[i - 1]
             y == seqs[i]
  <2>3. Filter(x \o y, G) = Filter(x, G) \o Filter(y, G)
    <3>1. x \in Seq(S) /\ y \in Seq(S)
      BY <2>2
    <3> HIDE DEF x, y
    <3> QED
      BY <3>1, FilterConcat
  <2>4. g[i] = Filter(f[i], G) /\ g[i - 1] = Filter(f[i - 1], G)
    BY <2>1
  <2> HIDE DEF g
  <2> QED
    BY <1>2, <2>2, <2>3, <2>4
<1>5. g[n] = Filter(f[n], G)
  BY <1>2
<1>6. FlattenSeq(parts) = g[n]
  <2> HIDE DEF g
  <2>1. \A i \in 1..Len(parts) : g[i] = g[i - 1] \o parts[i]
    BY <1>2, <1>4
  <2>2. FlattenSeq(parts) = g[Len(parts)]
    BY <1>3, <2>1, FlattenIs, Zenon
  <2> QED
    BY <1>2, <2>2
<1> QED
  BY <1>1, <1>5, <1>6

\* A sum of sums.
LEMMA SumFlatten ==
    ASSUME NEW seqs \in Seq(Seq(Int)), NEW sums \in Seq(Int), Len(sums) = Len(seqs),
           \A i \in 1..Len(seqs) : sums[i] = Sum(seqs[i])
    PROVE  Sum(FlattenSeq(seqs)) = Sum(sums)
<1> DEFINE n == Len(seqs)
<1>1. PICK f \in [0..n -> Seq(Int)] : /\ f[0] = <<>>
                                      /\ \A i \in 1..n : f[i] = f[i - 1] \o seqs[i]
                                      /\ FlattenSeq(seqs) = f[n]
  BY FlattenDef
<1>2. /\ n \in Nat /\ Len(sums) = n
      /\ \A i \in 1..n : sums[i] = Sum(seqs[i]) /\ seqs[i] \in Seq(Int)
  OBVIOUS
<1> HIDE DEF n
<1> DEFINE g == [i \in 0..n |-> Sum(f[i])]
<1>3. g[0] = 0
  BY <1>1, <1>2, SumEmpty
<1>4. ASSUME NEW i \in 1..n
      PROVE  g[i] = g[i - 1] + sums[i]
  <2>1. i \in 0..n /\ i - 1 \in 0..n
    BY <1>2
  <2>2. f[i] = f[i - 1] \o seqs[i] /\ f[i - 1] \in Seq(Int) /\ seqs[i] \in Seq(Int)
    BY <1>1, <1>2, <2>1
  <2> DEFINE x == f[i - 1]
             y == seqs[i]
  <2>3. Sum(x \o y) = Sum(x) + Sum(y)
    <3>1. x \in Seq(Int) /\ y \in Seq(Int)
      BY <2>2
    <3> HIDE DEF x, y
    <3> QED
      BY <3>1, SumConcat
  <2>4. g[i] = Sum(f[i]) /\ g[i - 1] = Sum(f[i - 1])
    BY <2>1
  <2> HIDE DEF g
  <2> QED
    BY <1>2, <2>2, <2>3, <2>4
<1>5. g[n] = Sum(f[n])
  BY <1>2
<1>6. Sum(sums) = g[n]
  <2> HIDE DEF g
  <2>1. \A i \in 1..Len(sums) : g[i] = g[i - 1] + sums[i]
    BY <1>2, <1>4
  <2>2. Sum(sums) = g[Len(sums)]
    BY <1>3, <2>1, SumIs, Zenon
  <2> QED
    BY <1>2, <2>2
<1> QED
  BY <1>1, <1>5, <1>6

\* Pieces of at most m elements.
LEMMA FlattenLength ==
    ASSUME NEW S, NEW seqs \in Seq(Seq(S)), NEW m \in Nat,
           \A i \in 1..Len(seqs) : Len(seqs[i]) <= m
    PROVE  Len(FlattenSeq(seqs)) <= m * Len(seqs)
<1> DEFINE n == Len(seqs)
<1>1. PICK f \in [0..n -> Seq(S)] : /\ f[0] = <<>>
                                    /\ \A i \in 1..n : f[i] = f[i - 1] \o seqs[i]
                                    /\ FlattenSeq(seqs) = f[n]
  BY FlattenDef
<1>2. n \in Nat /\ \A i \in 1..n : Len(seqs[i]) <= m /\ seqs[i] \in Seq(S)
  OBVIOUS
<1> HIDE DEF n
<1> DEFINE T == {k \in Nat : k <= n => Len(f[k]) <= m * k}
<1>3. 0 \in T
  BY <1>1
<1>4. ASSUME NEW k \in Nat, k \in T
      PROVE  k + 1 \in T
  <2> SUFFICES ASSUME k + 1 <= n
               PROVE  Len(f[k + 1]) <= m * (k + 1)
    OBVIOUS
  <2> DEFINE x == f[k]
             y == seqs[k + 1]
  <2>1. k + 1 \in 1..n /\ k \in 0..n /\ (k + 1) - 1 = k /\ k <= n
    BY <1>2
  <2>2. f[k + 1] = x \o y /\ x \in Seq(S) /\ y \in Seq(S) /\ Len(y) <= m
    BY <1>1, <1>2, <2>1
  <2>3. Len(x) <= m * k
    BY <1>4, <2>1
  <2> HIDE DEF x, y
  <2>4. Len(x \o y) = Len(x) + Len(y) /\ Len(x) \in Nat /\ Len(y) \in Nat
    BY <2>2
  <2>5. m * (k + 1) = m * k + m /\ m * k \in Nat
    OBVIOUS
  <2> QED
    BY <2>2, <2>3, <2>4, <2>5
<1>5. n \in T /\ n <= n
  <2> HIDE DEF T
  <2>1. Nat \subseteq T
    BY <1>3, <1>4, SetInduction
  <2> QED
    BY <1>2, <2>1
<1> QED
  BY <1>1, <1>5 DEF n

\* A sum of natural numbers.
LEMMA SumNat ==
    ASSUME NEW s \in Seq(Nat)
    PROVE  Sum(s) \in Nat
<1> DEFINE n == Len(s)
<1>0. n \in Nat /\ s \in Seq(Int) /\ \A i \in 1..n : s[i] \in Nat
  OBVIOUS
<1>1. PICK f \in [0..n -> Int] : /\ f[0] = 0
                                 /\ \A i \in 1..n : f[i] = f[i - 1] + s[i]
                                 /\ Sum(s) = f[n]
  BY <1>0, SumDef
<1> HIDE DEF n
<1>2. \A i \in 1..n : f[i - 1] \in Nat => f[i] \in Nat
  <2> TAKE i \in 1..n
  <2>1. s[i] \in Nat /\ f[i] = f[i - 1] + s[i]
    BY <1>0, <1>1
  <2> QED
    BY <2>1
<1>3. \A i \in 0..n : f[i] \in Nat
  <2>1. n \in Nat /\ f[0] \in Nat
    BY <1>0, <1>1
  <2> QED
    BY <1>2, <2>1, RecursionType, Zenon
<1> QED
  BY <1>0, <1>1, <1>3

\* Only the positions that a sequence has matter.
LEMMA SubsequenceSame ==
    ASSUME NEW s, NEW I, NEW J, \A i \in DOMAIN s : i \in I <=> i \in J
    PROVE  Subsequence(s, I) = Subsequence(s, J)
<1>1. [i \in DOMAIN s |-> IF i \in I THEN <<s[i]>> ELSE <<>>]
          = [i \in DOMAIN s |-> IF i \in J THEN <<s[i]>> ELSE <<>>]
  OBVIOUS
<1> QED
  BY <1>1, Zenon DEF Subsequence

\* All positions, or none.
LEMMA SubsequenceAll ==
    ASSUME NEW S, NEW s \in Seq(S), NEW I
    PROVE  /\ DOMAIN s \subseteq I => Subsequence(s, I) = s
           /\ I \cap DOMAIN s = {} => Subsequence(s, I) = <<>>
<1>1. \A i \in DOMAIN s : s[i] \in S
  OBVIOUS
<1>2. ASSUME DOMAIN s \subseteq I
      PROVE  Subsequence(s, I) = s
  <2> DEFINE J == {i \in DOMAIN s : s[i] \in S}
  <2>1. \A i \in DOMAIN s : i \in I <=> i \in J
    BY <1>1, <1>2
  <2> HIDE DEF J
  <2>2. Subsequence(s, I) = Subsequence(s, J)
    BY <2>1, SubsequenceSame, Zenon
  <2>3. Filter(s, S) = s
    <3>1. \A i \in 1..Len(s) : s[i] \in S
      OBVIOUS
    <3> QED
      BY <3>1, FilterAll, Zenon
  <2> QED
    BY <2>2, <2>3 DEF Filter, J
<1>3. ASSUME I \cap DOMAIN s = {}
      PROVE  Subsequence(s, I) = <<>>
  <2> DEFINE J == {i \in DOMAIN s : s[i] \in {}}
  <2>1. \A i \in DOMAIN s : i \in I <=> i \in J
    BY <1>3
  <2> HIDE DEF J
  <2>2. Subsequence(s, I) = Subsequence(s, J)
    BY <2>1, SubsequenceSame, Zenon
  <2>3. Filter(s, {}) = <<>>
    <3>1. \A i \in 1..Len(s) : s[i] \notin {}
      OBVIOUS
    <3> QED
      BY <3>1, FilterNone, Zenon
  <2> QED
    BY <2>2, <2>3 DEF Filter, J
<1> QED
  BY <1>2, <1>3, Zenon

\* One element, or none.
LEMMA SubsequenceOne ==
    ASSUME NEW x, NEW I
    PROVE  /\ Subsequence(<<x>>, I) \in {<<x>>, <<>>}
           /\ Subsequence(<<>>, I) = <<>>
<1> DEFINE s == <<x>>
<1>1. s \in Seq({x}) /\ DOMAIN s = {1}
  OBVIOUS
<1> HIDE DEF s
<1>2. ASSUME 1 \in I
      PROVE  Subsequence(s, I) = s
  <2>1. DOMAIN s \subseteq I
    BY <1>1, <1>2
  <2> QED
    BY <1>1, <2>1, SubsequenceAll, Zenon
<1>3. ASSUME 1 \notin I
      PROVE  Subsequence(s, I) = <<>>
  <2>1. I \cap DOMAIN s = {}
    BY <1>1, <1>3
  <2> QED
    BY <1>1, <2>1, SubsequenceAll, Zenon
<1>4. Subsequence(s, I) \in {s, <<>>}
  BY <1>2, <1>3
<1>5. Subsequence(<<>>, I) = <<>>
  <2>1. <<>> \in Seq({x}) /\ DOMAIN <<>> = {}
    OBVIOUS
  <2> DEFINE e == <<>>
  <2> HIDE DEF e
  <2>2. e \in Seq({x}) /\ I \cap DOMAIN e = {}
    BY <2>1 DEF e
  <2>3. Subsequence(e, I) = <<>>
    BY <2>2, SubsequenceAll, Zenon
  <2> QED
    BY <2>3 DEF e
<1> QED
  BY <1>4, <1>5 DEF s

-----------------------------------------------------------------------------
(* Sequences cut into pieces, and taken through a function.                *)

\* Two pieces next to each other.
LEMMA SubSeqJoin ==
    ASSUME NEW S, NEW s \in Seq(S), NEW a \in Nat, NEW b \in Nat, a <= b, b <= Len(s)
    PROVE  /\ SubSeq(s, 1, a) \in Seq(S) /\ SubSeq(s, a + 1, b) \in Seq(S)
           /\ SubSeq(s, 1, b) = SubSeq(s, 1, a) \o SubSeq(s, a + 1, b)
<1> DEFINE x == SubSeq(s, 1, a)
           y == SubSeq(s, a + 1, b)
           z == SubSeq(s, 1, b)
<1>1. x \in Seq(S) /\ Len(x) = a /\ \A i \in 1..a : x[i] = s[i]
  OBVIOUS
<1>2. y \in Seq(S) /\ Len(y) = b - a /\ \A i \in 1..(b - a) : y[i] = s[a + i]
  OBVIOUS
<1>3. z \in Seq(S) /\ Len(z) = b /\ \A i \in 1..b : z[i] = s[i]
  OBVIOUS
<1> HIDE DEF x, y, z
<1>4. /\ x \o y \in Seq(S) /\ Len(x \o y) = a + (b - a)
      /\ \A i \in 1..a : (x \o y)[i] = x[i]
      /\ \A i \in 1..(b - a) : (x \o y)[a + i] = y[i]
  <2>1. x \in Seq(S) /\ y \in Seq(S)
    BY <1>1, <1>2
  <2>2. /\ x \o y \in Seq(S) /\ Len(x \o y) = Len(x) + Len(y)
        /\ \A i \in 1..Len(x) : (x \o y)[i] = x[i]
        /\ \A i \in 1..Len(y) : (x \o y)[Len(x) + i] = y[i]
    BY <2>1, ConcatIs
  <2> QED
    BY <1>1, <1>2, <2>2
<1>5. \A i \in 1..b : z[i] = (x \o y)[i]
  <2> TAKE i \in 1..b
  <2>1. CASE i <= a
    BY <1>1, <1>3, <1>4, <2>1
  <2>2. CASE a < i
    <3>1. i - a \in 1..(b - a) /\ a + (i - a) = i
      BY <2>2
    <3>2. (x \o y)[i] = y[i - a] /\ y[i - a] = s[i]
      BY <1>2, <1>4, <3>1
    <3> QED
      BY <1>3, <3>2
  <2>3. i <= a \/ a < i
    OBVIOUS
  <2> QED
    BY <2>1, <2>2, <2>3
<1>6. Len(x \o y) = Len(z)
  BY <1>3, <1>4
<1> DEFINE xy == x \o y
<1>7. xy \in Seq(S) /\ Len(z) = Len(xy) /\ \A i \in 1..Len(z) : z[i] = xy[i]
  BY <1>3, <1>4, <1>5, <1>6
<1> HIDE DEF xy
<1>8. z = xy
  BY <1>3, <1>7, SameElements, Zenon
<1> QED
  BY <1>1, <1>2, <1>8 DEF x, y, z, xy

\* The values of a function along a sequence; the function may be defined on
\* more than the elements.
Image(s, g) == [i \in DOMAIN s |-> g[s[i]]]
Into(g, S, T) == \A x \in S : g[x] \in T

\* They are a sequence of the same length.
LEMMA ImageType ==
    ASSUME NEW S, NEW T, NEW s \in Seq(S), NEW g, Into(g, S, T)
    PROVE  /\ Image(s, g) \in Seq(T) /\ Len(Image(s, g)) = Len(s)
           /\ \A i \in 1..Len(s) : Image(s, g)[i] = g[s[i]]
<1> DEFINE n == Len(s)
           t == Image(s, g)
<1>1. n \in Nat /\ DOMAIN s = 1..n /\ \A i \in 1..n : s[i] \in S
  OBVIOUS
<1>0. \A x \in S : g[x] \in T
  BY DEF Into
<1> HIDE DEF n
<1>2. t = [i \in 1..n |-> g[s[i]]]
  BY <1>1 DEF Image
<1> HIDE DEF t
<1>3. t = [i \in 1..n |-> t[i]] /\ \A i \in 1..n : t[i] = g[s[i]] /\ t[i] \in T
  BY <1>0, <1>1, <1>2
<1>4. t \in Seq(T) /\ Len(t) = n
  BY <1>1, <1>3, Tabulated, Zenon
<1> QED
  BY <1>3, <1>4 DEF t, n

\* The values along the empty sequence.
LEMMA ImageEmpty ==
    ASSUME NEW g
    PROVE  Image(<<>>, g) = <<>>
BY DEF Image

\* The values along two sequences, one after the other.
ImageJoins(s, t, g) == Image(s \o t, g) = Image(s, g) \o Image(t, g)

\* They are those along each of them.
LEMMA ImageConcat ==
    ASSUME NEW S, NEW T, NEW s \in Seq(S), NEW t \in Seq(S), NEW g, Into(g, S, T)
    PROVE  ImageJoins(s, t, g)
<1> DEFINE m == Len(s)
           n == Len(t)
           st == s \o t
           x == Image(s, g)
           y == Image(t, g)
           z == Image(st, g)
           xy == x \o y
<1>1. m \in Nat /\ n \in Nat
  OBVIOUS
<1>2. /\ st \in Seq(S) /\ Len(st) = m + n
      /\ \A i \in 1..m : st[i] = s[i]
      /\ \A i \in 1..n : st[m + i] = t[i]
  BY ConcatIs
<1>3. x \in Seq(T) /\ Len(x) = m /\ \A i \in 1..m : x[i] = g[s[i]]
  <2> HIDE DEF x, m
  <2>1. /\ Image(s, g) \in Seq(T) /\ Len(Image(s, g)) = Len(s)
        /\ \A i \in 1..Len(s) : Image(s, g)[i] = g[s[i]]
    BY ImageType
  <2> QED
    BY <2>1 DEF x, m
<1>4. y \in Seq(T) /\ Len(y) = n /\ \A i \in 1..n : y[i] = g[t[i]]
  <2> HIDE DEF y, n
  <2>1. /\ Image(t, g) \in Seq(T) /\ Len(Image(t, g)) = Len(t)
        /\ \A i \in 1..Len(t) : Image(t, g)[i] = g[t[i]]
    BY ImageType
  <2> QED
    BY <2>1 DEF y, n
<1> HIDE DEF st, x, y, m, n
<1>5. z \in Seq(T) /\ Len(z) = Len(st) /\ \A i \in 1..Len(st) : z[i] = g[st[i]]
  <2>1. st \in Seq(S)
    BY <1>2
  <2> QED
    BY <2>1, ImageType
<1>6. /\ xy \in Seq(T) /\ Len(xy) = m + n
      /\ \A i \in 1..m : xy[i] = x[i]
      /\ \A i \in 1..n : xy[m + i] = y[i]
  <2>1. x \in Seq(T) /\ y \in Seq(T)
    BY <1>3, <1>4
  <2>2. /\ xy \in Seq(T) /\ Len(xy) = Len(x) + Len(y)
        /\ \A i \in 1..Len(x) : xy[i] = x[i]
        /\ \A i \in 1..Len(y) : xy[Len(x) + i] = y[i]
    BY <2>1, ConcatIs
  <2> HIDE DEF xy
  <2> QED
    BY <1>3, <1>4, <2>2
<1> HIDE DEF z, xy
<1>7. \A i \in 1..(m + n) : z[i] = xy[i]
  <2> TAKE i \in 1..(m + n)
  <2>1. CASE i <= m
    <3>1. i \in 1..m /\ i \in 1..(m + n)
      BY <1>1, <2>1
    <3>2. z[i] = g[st[i]] /\ st[i] = s[i] /\ xy[i] = x[i] /\ x[i] = g[s[i]]
      BY <1>2, <1>3, <1>5, <1>6, <3>1
    <3> QED
      BY <3>2
  <2>2. CASE m < i
    <3>1. i - m \in 1..n /\ m + (i - m) = i
      BY <1>1, <2>2
    <3>2. z[i] = g[st[i]]
      BY <1>2, <1>5
    <3>3. st[i] = t[i - m] /\ xy[i] = y[i - m] /\ y[i - m] = g[t[i - m]]
      BY <1>2, <1>4, <1>6, <3>1
    <3> QED
      BY <3>2, <3>3
  <2> QED
    BY <1>1, <2>1, <2>2
<1>8. Len(z) = Len(xy) /\ \A i \in 1..Len(z) : z[i] = xy[i]
  BY <1>2, <1>5, <1>6, <1>7
<1>9. z = xy
  BY <1>5, <1>6, <1>8, SameElements, Zenon
<1> QED
  BY <1>9 DEF ImageJoins, z, st, xy, x, y

\* The values along many sequences, one after the other.
ImagesJoined(images, seqs, g) == FlattenSeq(images) = Image(FlattenSeq(seqs), g)

\* They are those along each of them.
LEMMA ImageFlatten ==
    ASSUME NEW S, NEW T, NEW seqs \in Seq(Seq(S)), NEW g, Into(g, S, T),
           NEW images \in Seq(Seq(T)), Len(images) = Len(seqs),
           \A i \in 1..Len(seqs) : images[i] = Image(seqs[i], g)
    PROVE  ImagesJoined(images, seqs, g)
<1> DEFINE n == Len(seqs)
<1>1. n \in Nat /\ \A i \in 1..n : seqs[i] \in Seq(S)
  OBVIOUS
<1>2. PICK f \in [0..n -> Seq(S)] :
          /\ f[0] = <<>>
          /\ \A i \in 1..n : f[i] = f[i - 1] \o seqs[i]
          /\ FlattenSeq(seqs) = f[n]
  BY FlattenDef
<1> DEFINE h == [i \in 0..n |-> Image(f[i], g)]
<1> HIDE DEF n
<1>3. h[0] = <<>>
  <2>1. h[0] = Image(<<>>, g)
    BY <1>1, <1>2
  <2> QED
    BY <2>1, ImageEmpty, Zenon
<1>4. \A i \in 1..n : h[i] = h[i - 1] \o images[i]
  <2> TAKE i \in 1..n
  <2>1. i \in 0..n /\ i - 1 \in 0..n
    BY <1>1
  <2>2. f[i - 1] \in Seq(S) /\ seqs[i] \in Seq(S) /\ f[i] = f[i - 1] \o seqs[i]
    BY <1>1, <1>2, <2>1
  <2>3. h[i] = Image(f[i], g) /\ h[i - 1] = Image(f[i - 1], g)
    BY <2>1
  <2>4. Image(f[i - 1] \o seqs[i], g) = Image(f[i - 1], g) \o Image(seqs[i], g)
    <3> DEFINE u == f[i - 1]
               v == seqs[i]
    <3>1. u \in Seq(S) /\ v \in Seq(S) /\ Into(g, S, T)
      BY <2>2
    <3> HIDE DEF u, v
    <3>2. ImageJoins(u, v, g)
      BY <3>1, ImageConcat, Zenon
    <3> QED
      BY <3>2 DEF ImageJoins, u, v
  <2>5. images[i] = Image(seqs[i], g)
    BY DEF n
  <2> HIDE DEF h
  <2> QED
    BY <2>2, <2>3, <2>4, <2>5
<1>5. h[n] = Image(f[n], g)
  BY <1>1
<1> HIDE DEF h
<1>6. \A i \in 1..Len(images) : h[i] = h[i - 1] \o images[i]
  BY <1>4 DEF n
<1>7. FlattenSeq(images) = h[Len(images)]
  BY <1>3, <1>6, FlattenIs, Zenon
<1> QED
  BY <1>2, <1>5, <1>7 DEF ImagesJoined, n

\* Many sequences, with a tail added to the last of them.
TailAdded(seqs, more, tail) == FlattenSeq(more) = FlattenSeq(seqs) \o tail

\* Adding to the last of many sequences adds to the end of them all.
LEMMA FlattenTail ==
    ASSUME NEW S, NEW seqs \in Seq(Seq(S)), NEW tail \in Seq(S), NEW n \in Nat \ {0},
           Len(seqs) = n, NEW more \in Seq(Seq(S)), Len(more) = n,
           \A i \in 1..n : more[i] = IF i < n THEN seqs[i] ELSE seqs[i] \o tail
    PROVE  TailAdded(seqs, more, tail)
<1>0. Associates(S)
  BY ConcatsAssoc, Zenon
<1>1. \A i \in 1..n : seqs[i] \in Seq(S)
  OBVIOUS
<1>2. PICK f \in [0..n -> Seq(S)] :
          /\ f[0] = <<>>
          /\ \A i \in 1..n : f[i] = f[i - 1] \o seqs[i]
          /\ FlattenSeq(seqs) = f[n]
  <2>1. \E f \in [0..Len(seqs) -> Seq(S)] :
            /\ f[0] = <<>>
            /\ \A i \in 1..Len(seqs) : f[i] = f[i - 1] \o seqs[i]
            /\ FlattenSeq(seqs) = f[Len(seqs)]
    BY FlattenDef
  <2> QED
    BY <2>1
<1> DEFINE h == [i \in 0..n |-> IF i < n THEN f[i] ELSE f[n] \o tail]
<1>3. /\ h[0] = <<>> /\ h[n] = f[n] \o tail
      /\ \A i \in 0..n : i < n => h[i] = f[i]
  <2>1. n \in Nat /\ 0 < n /\ 0 \in 0..n /\ n \in 0..n /\ ~(n < n)
    OBVIOUS
  <2> QED
    BY <1>2, <2>1
<1> HIDE DEF h
<1>4. \A i \in 1..n : h[i] = h[i - 1] \o more[i]
  <2> TAKE i \in 1..n
  <2>1. i \in 0..n /\ i - 1 \in 0..n /\ i - 1 < n
    OBVIOUS
  <2>2. h[i - 1] = f[i - 1] /\ f[i] = f[i - 1] \o seqs[i] /\ f[i - 1] \in Seq(S)
    BY <1>2, <1>3, <2>1
  <2>3. CASE i < n
    <3>1. h[i] = f[i] /\ more[i] = seqs[i]
      BY <1>3, <2>1, <2>3
    <3> QED
      BY <2>2, <3>1
  <2>4. CASE i = n
    <3>1. h[i] = f[i] \o tail /\ more[i] = seqs[i] \o tail
      <4>1. ~(i < n)
        BY <2>4
      <4> QED
        BY <1>3, <2>4, <4>1
    <3>2. (f[i - 1] \o seqs[i]) \o tail = f[i - 1] \o (seqs[i] \o tail)
      <4> DEFINE u == f[i - 1]
                 v == seqs[i]
                 w == tail
      <4>1. u \in Seq(S) /\ v \in Seq(S) /\ w \in Seq(S)
        BY <1>1, <2>2
      <4> HIDE DEF u, v, w
      <4>2. (u \o v) \o w = u \o (v \o w)
        BY <1>0, <4>1, Zenon DEF Associates
      <4> QED
        BY <4>2 DEF u, v, w
    <3> QED
      BY <2>2, <3>1, <3>2
  <2> QED
    BY <2>3, <2>4, SMTT(30)
<1>5. \A i \in 1..Len(more) : h[i] = h[i - 1] \o more[i]
  BY <1>4
<1>6. h[0] = <<>>
  BY <1>3
<1>7. FlattenSeq(more) = h[Len(more)]
  BY <1>5, <1>6, FlattenIs, Zenon
<1> QED
  BY <1>2, <1>3, <1>7 DEF TailAdded

\* What passes a filter is in it.
LEMMA FilterPasses ==
    ASSUME NEW S, NEW s \in Seq(S), NEW G
    PROVE  Filter(s, G) \in Seq(G)
<1> DEFINE n == Len(s)
           t == Sieve(s, G)
<1>1. n \in Nat
  OBVIOUS
<1>2. /\ t \in Seq(Seq(S)) /\ Len(t) = n
      /\ \A i \in 1..n : t[i] = IF s[i] \in G THEN <<s[i]>> ELSE <<>>
  BY SieveType
<1> HIDE DEF n, t
<1>3. \A i \in 1..n : t[i] \in Seq(G)
  <2> TAKE i \in 1..n
  <2>1. CASE s[i] \in G
    <3>1. t[i] = <<s[i]>>
      BY <1>2, <2>1
    <3> QED
      BY <2>1, <3>1
  <2>2. CASE s[i] \notin G
    <3>1. t[i] = <<>>
      BY <1>2, <2>2
    <3> QED
      BY <3>1
  <2> QED
    BY <2>1, <2>2
<1>4. t \in Seq(Seq(G))
  <2>1. t = [i \in 1..n |-> t[i]]
    BY <1>2
  <2> QED
    BY <1>1, <1>3, <2>1, Tabulated, Zenon
<1>5. FlattenSeq(t) \in Seq(G)
  BY <1>4, FlattenType, Zenon
<1>6. Filter(s, G) = FlattenSeq(t)
  BY FilterSieve DEF t
<1> QED
  BY <1>5, <1>6

-----------------------------------------------------------------------------
(* Listings of listings.                                                   *)

\* Pairs of something in D and a place in it.
Places(D, P) == UNION {{d} \X P[d] : d \in D}

\* A place is a pair of an element of D and one of its positions.
LEMMA PlaceIs ==
    ASSUME NEW D, NEW P
    PROVE  /\ \A d \in D : \A p \in P[d] : <<d, p>> \in Places(D, P)
           /\ \A q \in Places(D, P) : q[1] \in D /\ q[2] \in P[q[1]] /\ q = <<q[1], q[2]>>
<1>1. ASSUME NEW q \in Places(D, P)
      PROVE  q[1] \in D /\ q[2] \in P[q[1]] /\ q = <<q[1], q[2]>>
  <2>1. PICK d \in D : q \in {d} \X P[d]
    BY DEF Places
  <2> QED
    BY <2>1
<1>2. \A d \in D : \A p \in P[d] : <<d, p>> \in Places(D, P)
  BY DEF Places
<1> QED
  BY <1>1, <1>2

\* Each sequence lists the places in what b names; all has the values of val.
EachListed(seqs, b, P, val, R) ==
    \A i \in 1..Len(seqs) : Listed(seqs[i], P[b[i]], val[b[i]], R)
Gathers(all, D, P, val) == \A d \in D : \A p \in P[d] : all[<<d, p>>] = val[d][p]

\* If a sequence lists what is in D, and for each element of it another one the
\* places in that element, then these in a row list all the places.
LEMMA FlattenPlaces ==
    ASSUME NEW S, NEW seqs \in Seq(Seq(S)), NEW x, Len(x) = Len(seqs),
           NEW D, NEW b, NEW v, NEW R0, Listing(x, b, D, v, R0),
           NEW P, NEW val, NEW R, NEW all,
           EachListed(seqs, b, P, val, R), Gathers(all, D, P, val)
    PROVE  Listed(FlattenSeq(seqs), Places(D, P), all, Places(D, P) \X Places(D, P))
<1> DEFINE n == Len(seqs)
           Q == Places(D, P)
           Pn == [i \in 1..n |-> P[b[i]]]
           valn == [i \in 1..n |-> val[b[i]]]
           U == Places(1..n, Pn)
           alln == [u \in U |-> val[b[u[1]]][u[2]]]
           name == [u \in U |-> <<b[u[1]], u[2]>>]
<1>1. /\ n \in Nat /\ b \in [1..n -> D]
      /\ \A k, l \in 1..n : b[k] = b[l] => k = l
      /\ \A d \in D : \E k \in 1..n : b[k] = d
  BY DEF Listing
<1>2. \A i \in 1..n : /\ Pn[i] = P[b[i]] /\ valn[i] = val[b[i]] /\ b[i] \in D
                      /\ Listed(seqs[i], P[b[i]], val[b[i]], R)
  BY <1>1 DEF EachListed
<1> HIDE DEF n, Pn, valn
<1>3. /\ \A i \in 1..n : \A p \in Pn[i] : <<i, p>> \in U
      /\ \A u \in U : u[1] \in 1..n /\ u[2] \in Pn[u[1]] /\ u = <<u[1], u[2]>>
  BY PlaceIs, Zenon
<1>4. /\ \A d \in D : \A p \in P[d] : <<d, p>> \in Q
      /\ \A q \in Q : q[1] \in D /\ q[2] \in P[q[1]] /\ q = <<q[1], q[2]>>
  BY PlaceIs, Zenon
<1> HIDE DEF U, Q
<1>5. \A i \in 1..n : \A p \in Pn[i] : alln[<<i, p>>] = valn[i][p]
  BY <1>2, <1>3
<1> DEFINE UU == U \X U
           QQ == Q \X Q
<1>6. Listed(FlattenSeq(seqs), U, alln, UU)
  <2> HIDE DEF alln
  <2>1. \A i \in 1..Len(seqs) : Listed(seqs[i], Pn[i], valn[i], R)
    BY <1>2 DEF n
  <2>2. \A i \in 1..Len(seqs) : \A p \in Pn[i] : alln[<<i, p>>] = valn[i][p]
    BY <1>5 DEF n
  <2>3. \A i \in 1..Len(seqs) : \A p, q \in Pn[i] :
            <<p, q>> \in R => << <<i, p>>, <<i, q>> >> \in UU
    BY <1>3 DEF n
  <2>4. \A i, j \in 1..Len(seqs) : i < j =>
            \A p \in Pn[i], q \in Pn[j] : << <<i, p>>, <<j, q>> >> \in UU
    BY <1>3 DEF n
  <2>5. seqs \in Seq(Seq(S))
    OBVIOUS
  <2> HIDE DEF UU
  <2>6. Listed(FlattenSeq(seqs), UNION {{i} \X Pn[i] : i \in 1..Len(seqs)}, alln, UU)
    BY <2>1, <2>2, <2>3, <2>4, <2>5, FlattenListed, ZenonT(60)
  <2> QED
    BY <2>6 DEF U, Places, n
<1>7. \A u \in U : name[u] = <<b[u[1]], u[2]>>
  OBVIOUS
<1>8. name \in [U -> Q]
  <2>1. \A u \in U : <<b[u[1]], u[2]>> \in Q
    BY <1>2, <1>3, <1>4
  <2> QED
    BY <2>1
<1>9. \A u \in U : alln[u] = val[b[u[1]]][u[2]]
  OBVIOUS
<1> HIDE DEF name, alln
<1>10. \A u, t \in U : name[u] = name[t] => u = t
  <2> SUFFICES ASSUME NEW u \in U, NEW t \in U, name[u] = name[t]
               PROVE  u = t
    OBVIOUS
  <2>1. b[u[1]] = b[t[1]] /\ u[2] = t[2]
    BY <1>7
  <2>2. u[1] = t[1]
    BY <1>1, <1>3, <2>1
  <2> QED
    BY <1>3, <2>1, <2>2
<1>11. \A q \in Q : \E u \in U : name[u] = q
  <2> SUFFICES ASSUME NEW q \in Q
               PROVE  \E u \in U : name[u] = q
    OBVIOUS
  <2>1. q[1] \in D /\ q[2] \in P[q[1]] /\ q = <<q[1], q[2]>>
    BY <1>4
  <2>2. PICK k \in 1..n : b[k] = q[1]
    BY <1>1, <2>1
  <2>3. <<k, q[2]>> \in U
    BY <1>2, <1>3, <2>1, <2>2
  <2>4. name[<<k, q[2]>>] = q
    BY <1>7, <2>1, <2>2, <2>3
  <2> QED
    BY <2>3, <2>4
<1>12. \A u \in U : all[name[u]] = alln[u]
  <2> TAKE u \in U
  <2>1. b[u[1]] \in D /\ u[2] \in P[b[u[1]]]
    BY <1>2, <1>3
  <2>2. all[<<b[u[1]], u[2]>>] = val[b[u[1]]][u[2]]
    BY <2>1 DEF Gathers
  <2> QED
    BY <1>7, <1>9, <2>2
<1>13. \A u, t \in U : <<u, t>> \in UU => <<name[u], name[t]>> \in QQ
  BY <1>8
<1> DEFINE flat == FlattenSeq(seqs)
<1>14. Listed(flat, U, alln, UU)
  BY <1>6
<1> HIDE DEF UU, QQ, flat
<1>15. Listed(flat, Q, all, QQ)
  BY <1>8, <1>10, <1>11, <1>12, <1>13, <1>14, ListedRenamed
<1> QED
  BY <1>15 DEF Q, QQ, flat

\* A sequence lists its own positions.
LEMMA ListedSelf ==
    ASSUME NEW S, NEW s \in Seq(S)
    PROVE  Listed(s, DOMAIN s, s, Before)
<1> DEFINE n == Len(s)
           b == [k \in 1..n |-> k]
<1>1. n \in Nat /\ DOMAIN s = 1..n
  OBVIOUS
<1> HIDE DEF n
<1>2. b \in [1..n -> 1..n] /\ \A k \in 1..n : b[k] = k
  OBVIOUS
<1> HIDE DEF b
<1>3. \A k, l \in 1..n : k < l => <<b[k], b[l]>> \in Before
  BY <1>1, <1>2 DEF Before
<1>4. Listing(s, b, 1..n, s, Before)
  BY <1>2, <1>3 DEF Listing, n
<1> QED
  BY <1>1, <1>4, Zenon DEF Listed

\* Only the values and the order at the places matter.
LEMMA ListedSame ==
    ASSUME NEW s, NEW P, NEW val, NEW val2, NEW R, NEW R2, Listed(s, P, val, R),
           \A p \in P : val2[p] = val[p],
           \A p, q \in P : <<p, q>> \in R => <<p, q>> \in R2
    PROVE  Listed(s, P, val2, R2)
<1>1. PICK b : Listing(s, b, P, val, R)
  BY DEF Listed
<1>2. \A k \in 1..Len(s) : b[k] \in P
  BY <1>1 DEF Listing
<1>3. \A k \in 1..Len(s) : s[k] = val2[b[k]]
  BY <1>1, <1>2 DEF Listing
<1>4. \A k, l \in 1..Len(s) : k < l => <<b[k], b[l]>> \in R2
  BY <1>1, <1>2 DEF Listing
<1>5. Listing(s, b, P, val2, R2)
  BY <1>1, <1>3, <1>4 DEF Listing
<1> QED
  BY <1>5, Zenon DEF Listed

\* The sum of one number.
LEMMA SumOne ==
    ASSUME NEW k \in Int
    PROVE  Sum(<<k>>) = k
<1> DEFINE s == <<k>>
<1>1. s \in Seq(Int) /\ Len(s) = 1 /\ s[1] = k
  OBVIOUS
<1> HIDE DEF s
<1>2. PICK f \in [0..Len(s) -> Int] : /\ f[0] = 0
                                      /\ \A i \in 1..Len(s) : f[i] = f[i - 1] + s[i]
                                      /\ Sum(s) = f[Len(s)]
  BY <1>1, SumDef
<1>3. f[1] = f[0] + s[1]
  BY <1>1, <1>2
<1> QED
  BY <1>1, <1>2, <1>3 DEF s

\* The sum of the first elements is no more than that of all.
LEMMA SumOfFirst ==
    ASSUME NEW s \in Seq(Nat), NEW k \in 0..Len(s)
    PROVE  /\ SubSeq(s, 1, k) \in Seq(Nat)
           /\ Sum(SubSeq(s, 1, k)) \in Nat /\ Sum(s) \in Nat
           /\ Sum(SubSeq(s, 1, k)) <= Sum(s)
           /\ k = Len(s) => SubSeq(s, 1, k) = s
<1> DEFINE n == Len(s)
           x == SubSeq(s, 1, k)
           y == SubSeq(s, k + 1, n)
<1>1. n \in Nat /\ k \in Nat /\ k <= n /\ n <= Len(s)
  OBVIOUS
<1>2. SubSeq(s, 1, n) = s
  OBVIOUS
<1>3. x \in Seq(Nat) /\ y \in Seq(Nat) /\ SubSeq(s, 1, n) = x \o y
  <2> HIDE DEF n
  <2> QED
    BY <1>1, SubSeqJoin
<1> HIDE DEF x, y
<1>4. x \in Seq(Int) /\ y \in Seq(Int)
  BY <1>3
<1>5. Sum(x \o y) = Sum(x) + Sum(y)
  BY <1>4, SumConcat
<1>6. Sum(x) \in Nat /\ Sum(y) \in Nat /\ Sum(s) \in Nat
  BY <1>3, SumNat, Zenon
<1>7. Sum(s) = Sum(x) + Sum(y)
  BY <1>2, <1>3, <1>5
<1>8. k = n => x = s
  BY <1>2 DEF x
<1> QED
  BY <1>3, <1>6, <1>7, <1>8 DEF x

\* Before the element at d in descending order there are fewer than d that are
\* larger, wherever they are.
LEMMA FewLarger ==
    ASSUME NEW s \in Seq(Int), NEW d \in 1..Len(s)
    PROVE  Cardinality({e \in DOMAIN s : s[e] > Descending(s)[d]}) < d
<1> DEFINE n == Len(s)
           t == Descending(s)
           L == {e \in 1..n : s[e] > t[d]}
<1>1. /\ t \in Seq(Int) /\ Len(t) = n
      /\ Listed(t, 1..n, s, (1..n) \X (1..n))
      /\ \A i, j \in 1..n : i < j => t[i] >= t[j]
  BY DescendingIs
<1>2. n \in Nat /\ DOMAIN s = 1..n /\ d \in 1..n
  OBVIOUS
<1> HIDE DEF t, n
<1>3. PICK b : Listing(t, b, 1..n, s, (1..n) \X (1..n))
  BY <1>1 DEF Listed
<1>4. /\ \A k \in 1..n : b[k] \in 1..n /\ t[k] = s[b[k]]
      /\ \A e \in 1..n : \E k \in 1..n : b[k] = e
  BY <1>1, <1>3 DEF Listing
<1>5. \A i \in 1..n : t[i] \in Int
  BY <1>1
<1> DEFINE K == 1..(d - 1)
           f == [k \in K |-> b[k]]
           I == {f[k] : k \in K}
<1>6. L \subseteq I
  <2> SUFFICES ASSUME NEW e \in 1..n, s[e] > t[d]
               PROVE  e \in I
    OBVIOUS
  <2>1. PICK k \in 1..n : b[k] = e
    BY <1>4
  <2>2. t[k] > t[d]
    BY <1>4, <2>1
  <2>3. ~(d < k) /\ k # d
    BY <1>1, <1>2, <1>5, <2>2
  <2>4. k \in K
    BY <1>2, <2>3
  <2> QED
    BY <2>1, <2>4
<1>7. IsFiniteSet(K) /\ Cardinality(K) = d - 1
  <2>1. 1 \in Int /\ d - 1 \in Int
    BY <1>2
  <2>2. IsFiniteSet(1..(d - 1)) /\ Cardinality(1..(d - 1)) = IF 1 > d - 1 THEN 0 ELSE d - 1 - 1 + 1
    BY <2>1, FS_Interval
  <2> QED
    BY <1>2, <2>2
<1>8. IsFiniteSet(I) /\ Cardinality(I) <= Cardinality(K)
  <2>1. f \in Surjection(K, I)
    BY DEF Surjection
  <2> HIDE DEF f, I, K
  <2> QED
    BY <1>7, <2>1, FS_Surjection
<1> HIDE DEF I, K, L
<1>9. IsFiniteSet(L) /\ Cardinality(L) <= Cardinality(I)
  BY <1>6, <1>8, FS_Subset
<1>10. Cardinality(L) \in Nat /\ Cardinality(I) \in Nat
  BY <1>8, <1>9, FS_CardinalityType
<1>11. Cardinality(L) < d
  BY <1>2, <1>7, <1>8, <1>9, <1>10
<1> QED
  BY <1>2, <1>11 DEF L, t

=============================================================================
