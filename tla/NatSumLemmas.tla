---------------------------- MODULE NatSumLemmas ----------------------------
(***************************************************************************)
(* Facts about NatSums!Sum, for the proofs about budgets.                  *)
(* Each goes by the least m at which the claim fails, since an induction   *)
(* theorem over a predicate cannot be instantiated by the provers.         *)
(***************************************************************************)
EXTENDS NatSums, Integers, WellFoundedInduction, TLAPS

\* g lists the partial sums of f up to n (the equation Sum's part solves).
Running(g, f, n) ==
  g = [i \in 0..n |-> IF i = 0 THEN 0 ELSE g[i - 1] + f[i]]

-----------------------------------------------------------------------------
\* A non-empty set of naturals has a least element.
LEMMA LeastNat ==
  ASSUME NEW S \in SUBSET Nat, S # {}
  PROVE  \E m \in S : \A k \in S : m <= k
<1>1. \E m \in S : \A k \in S : ~(<<k, m>> \in OpToRel(<, Nat))
  BY NatLessThanWellFounded, WFMin
<1>2. \A k, m \in S : ~(<<k, m>> \in OpToRel(<, Nat)) => m <= k
  BY DEF OpToRel
<1> QED
  BY <1>1, <1>2

\* A non-empty set of numbers up to n has a greatest element.
LEMMA GreatestNat ==
  ASSUME NEW n \in Nat, NEW S \in SUBSET (1..n), S # {}
  PROVE  \E m \in S : \A k \in S : k <= m
<1> DEFINE T == {n - k : k \in S}
<1>1. T \in SUBSET Nat /\ T # {}
  <2>1. \A k \in S : n - k \in Nat
    <3> TAKE k \in S
    <3>1. k \in 1..n
      OBVIOUS
    <3> QED
      BY <3>1
  <2> QED
    BY <2>1
<1>2. PICK t \in T : \A u \in T : t <= u
  <2> HIDE DEF T
  <2> QED
    BY <1>1, LeastNat
<1>3. PICK m \in S : t = n - m
  BY <1>2
<1>4. \A k \in S : n - m <= n - k
  BY <1>2, <1>3
<1>5. \A k \in S : k <= m
  <2> TAKE k \in S
  <2>1. n - m <= n - k /\ n \in Int /\ m \in Int /\ k \in Int
    BY <1>4
  <2> QED
    BY <2>1
<1> QED
  BY <1>5

\* Partial sums exist: the recursion of Sum is well founded.
LEMMA RunningExists ==
  ASSUME NEW n \in Nat, NEW f
  PROVE  \E g : Running(g, f, n)
<1> DEFINE Bad == {m \in 0..n : ~ \E g : Running(g, f, m)}
<1> SUFFICES ASSUME Bad # {} PROVE FALSE
  OBVIOUS
<1>1. PICK m \in Bad : \A k \in Bad : m <= k
  <2>1. Bad \in SUBSET Nat
    OBVIOUS
  <2> HIDE DEF Bad
  <2> QED
    BY <2>1, LeastNat
<1>2. m # 0
  <2>1. Running([i \in 0..0 |-> 0], f, 0)
    BY DEF Running
  <2> QED
    BY <2>1
<1>3. m - 1 \in 0..n /\ m - 1 \notin Bad
  BY <1>1, <1>2
<1>4. PICK g : Running(g, f, m - 1)
  BY <1>3
<1> DEFINE h == [i \in 0..m |-> IF i = m THEN g[m - 1] + f[m] ELSE g[i]]
<1>5. \A i \in 0..m : h[i] = IF i = 0 THEN 0 ELSE h[i - 1] + f[i]
  <2>1. g = [i \in 0..(m - 1) |-> IF i = 0 THEN 0 ELSE g[i - 1] + f[i]]
    BY <1>4 DEF Running
  <2> TAKE i \in 0..m
  <2>2. CASE i = m
    BY <2>2, <1>2
  <2>3. CASE i # m
    <3>1. i \in 0..(m - 1)
      BY <2>3
    <3>2. g[i] = IF i = 0 THEN 0 ELSE g[i - 1] + f[i]
      BY <2>1, <3>1
    <3> QED
      BY <2>3, <3>1, <3>2
  <2> QED
    BY <2>2, <2>3
<1>6. Running(h, f, m)
  <2>1. h = [i \in 0..m |-> h[i]]
    OBVIOUS
  <2> HIDE DEF h
  <2> QED
    BY <1>5, <2>1 DEF Running
<1> QED
  BY <1>6

\* Partial sums are natural numbers when the summands are.
LEMMA RunningNat ==
  ASSUME NEW n \in Nat, NEW f, NEW g, Running(g, f, n),
         \A i \in 1..n : f[i] \in Nat
  PROVE  \A i \in 0..n : g[i] \in Nat
<1> DEFINE Bad == {m \in 0..n : g[m] \notin Nat}
<1> SUFFICES ASSUME Bad # {} PROVE FALSE
  OBVIOUS
<1>1. PICK m \in Bad : \A k \in Bad : m <= k
  <2>1. Bad \in SUBSET Nat
    OBVIOUS
  <2> HIDE DEF Bad
  <2> QED
    BY <2>1, LeastNat
<1>2. \A i \in 0..n : g[i] = IF i = 0 THEN 0 ELSE g[i - 1] + f[i]
  BY DEF Running
<1>3. m # 0
  BY <1>2
<1>4. m - 1 \in 0..n /\ g[m - 1] \in Nat
  BY <1>1, <1>3
<1> QED
  BY <1>2, <1>3, <1>4

\* Partial sums are unique, whatever length they were computed for.
LEMMA RunningUnique ==
  ASSUME NEW n \in Nat, NEW k \in 0..n, NEW f, NEW g, NEW h,
         Running(g, f, n), Running(h, f, k)
  PROVE  \A i \in 0..k : g[i] = h[i]
<1> DEFINE Bad == {m \in 0..k : g[m] # h[m]}
<1> SUFFICES ASSUME Bad # {} PROVE FALSE
  OBVIOUS
<1>1. PICK m \in Bad : \A j \in Bad : m <= j
  <2>1. Bad \in SUBSET Nat
    OBVIOUS
  <2> HIDE DEF Bad
  <2> QED
    BY <2>1, LeastNat
<1>2. \A i \in 0..k : /\ g[i] = IF i = 0 THEN 0 ELSE g[i - 1] + f[i]
                      /\ h[i] = IF i = 0 THEN 0 ELSE h[i - 1] + f[i]
  BY DEF Running
<1>3. m # 0
  BY <1>2
<1>4. m - 1 \in 0..k /\ g[m - 1] = h[m - 1]
  BY <1>1, <1>3
<1> QED
  BY <1>2, <1>3, <1>4

\* Sum satisfies the equations it is meant to.
LEMMA SumFacts ==
  ASSUME NEW n \in Nat, NEW f, \A i \in 1..n : f[i] \in Nat
  PROVE  /\ Sum(f, 0) = 0
         /\ \A m \in 0..n : Sum(f, m) \in Nat
         /\ \A m \in 1..n : Sum(f, m) = Sum(f, m - 1) + f[m]
<1>1. \A m \in Nat : \E g : Running(g, f, m) /\ Sum(f, m) = g[m]
  <2> TAKE m \in Nat
  <2> DEFINE part == CHOOSE g :
                       g = [i \in 0..m |-> IF i = 0 THEN 0 ELSE g[i - 1] + f[i]]
  <2>1. Sum(f, m) = part[m]
    BY DEF Sum
  <2>2. Running(part, f, m)
    BY RunningExists DEF Running
  <2> QED
    BY <2>1, <2>2
<1>2. PICK p : Running(p, f, n) /\ Sum(f, n) = p[n]
  BY <1>1
<1>3. \A m \in 0..n : Sum(f, m) = p[m]
  <2> TAKE m \in 0..n
  <2>1. PICK q : Running(q, f, m) /\ Sum(f, m) = q[m]
    BY <1>1
  <2> QED
    BY <1>2, <2>1, RunningUnique
<1>4. \A i \in 0..n : p[i] = IF i = 0 THEN 0 ELSE p[i - 1] + f[i]
  BY <1>2 DEF Running
<1>5. \A i \in 0..n : p[i] \in Nat
  BY <1>2, RunningNat
<1> QED
  BY <1>3, <1>4, <1>5

\* If each summand of h is at most those of f and g together, and one summand
\* r may exceed that by a, then the sum of h exceeds theirs by at most a.
LEMMA SumBound ==
  ASSUME NEW n \in Nat, NEW r \in 1..n, NEW a \in Nat,
         NEW f, NEW g, NEW h,
         \A i \in 1..n : f[i] \in Nat /\ g[i] \in Nat /\ h[i] \in Nat,
         \A i \in 1..n : i # r => h[i] <= f[i] + g[i],
         h[r] <= f[r] + g[r] + a
  PROVE  Sum(h, n) <= Sum(f, n) + Sum(g, n) + a
<1> DEFINE Claim(m) ==
      Sum(h, m) <= Sum(f, m) + Sum(g, m) + (IF r <= m THEN a ELSE 0)
<1> DEFINE Bad == {m \in 0..n : ~Claim(m)}
<1>1. /\ Sum(f, 0) = 0 /\ Sum(g, 0) = 0 /\ Sum(h, 0) = 0
      /\ \A m \in 0..n : Sum(f, m) \in Nat /\ Sum(g, m) \in Nat /\ Sum(h, m) \in Nat
      /\ \A m \in 1..n : /\ Sum(f, m) = Sum(f, m - 1) + f[m]
                         /\ Sum(g, m) = Sum(g, m - 1) + g[m]
                         /\ Sum(h, m) = Sum(h, m - 1) + h[m]
  BY SumFacts
<1>2. Bad = {}
  <2> SUFFICES ASSUME Bad # {} PROVE FALSE
    OBVIOUS
  <2>1. PICK m \in Bad : \A k \in Bad : m <= k
    <3>1. Bad \in SUBSET Nat
      OBVIOUS
    <3> HIDE DEF Bad
    <3> QED
      BY <3>1, LeastNat
  <2>2. m # 0
    BY <1>1
  <2>3. m \in 1..n /\ m - 1 \in 0..n /\ Claim(m - 1)
    BY <2>1, <2>2
  <2>4. Claim(m)
    <3>1. /\ Sum(f, m - 1) \in Nat /\ Sum(g, m - 1) \in Nat /\ Sum(h, m - 1) \in Nat
          /\ Sum(f, m) = Sum(f, m - 1) + f[m]
          /\ Sum(g, m) = Sum(g, m - 1) + g[m]
          /\ Sum(h, m) = Sum(h, m - 1) + h[m]
      BY <1>1, <2>3
    <3>2. CASE m = r
      BY <3>1, <3>2, <2>3
    <3>3. CASE m # r
      BY <3>1, <3>3, <2>3
    <3> QED
      BY <3>2, <3>3
  <2> QED
    BY <2>4
<1> QED
  BY <1>2

\* A sum of zeros is zero.
LEMMA SumOfZeros ==
  ASSUME NEW n \in Nat, NEW z, \A i \in 1..n : z[i] = 0
  PROVE  Sum(z, n) = 0
<1> DEFINE Bad == {m \in 0..n : Sum(z, m) # 0}
<1>1. /\ Sum(z, 0) = 0
      /\ \A m \in 1..n : Sum(z, m) = Sum(z, m - 1) + z[m]
  BY SumFacts
<1> SUFFICES ASSUME Bad # {} PROVE FALSE
  <2>1. Bad = {} => Sum(z, n) = 0
    OBVIOUS
  <2> QED
    BY <2>1
<1>2. PICK m \in Bad : \A k \in Bad : m <= k
  <2>1. Bad \in SUBSET Nat
    OBVIOUS
  <2> HIDE DEF Bad
  <2> QED
    BY <2>1, LeastNat
<1>3. m # 0
  BY <1>1
<1>4. m \in 1..n /\ m - 1 \in 0..n /\ Sum(z, m - 1) = 0
  BY <1>2, <1>3
<1> QED
  BY <1>1, <1>4

\* One summand that grows by at most a makes the sum grow by at most a.
LEMMA SumGrowth ==
  ASSUME NEW n \in Nat, NEW r \in 1..n, NEW a \in Nat, NEW f, NEW h,
         \A i \in 1..n : f[i] \in Nat /\ h[i] \in Nat,
         \A i \in 1..n : i # r => h[i] <= f[i],
         h[r] <= f[r] + a
  PROVE  Sum(h, n) <= Sum(f, n) + a
<1> DEFINE zero == [i \in 1..n |-> 0]
<1>1. \A i \in 1..n : zero[i] = 0
  OBVIOUS
<1> HIDE DEF zero
<1>2. Sum(zero, n) = 0
  BY <1>1, SumOfZeros
<1>3. \A i \in 1..n : f[i] \in Nat /\ zero[i] \in Nat /\ h[i] \in Nat
  BY <1>1
<1>4. (\A i \in 1..n : i # r => h[i] <= f[i] + zero[i]) /\ h[r] <= f[r] + zero[r] + a
  BY <1>1, <1>3
<1>5. Sum(h, n) <= Sum(f, n) + Sum(zero, n) + a
  BY <1>3, <1>4, SumBound
<1>6. Sum(f, n) \in Nat /\ Sum(h, n) \in Nat
  <2>1. \A m \in 0..n : Sum(f, m) \in Nat
    BY SumFacts
  <2>2. \A m \in 0..n : Sum(h, m) \in Nat
    BY SumFacts
  <2> QED
    BY <2>1, <2>2
<1> QED
  BY <1>2, <1>5, <1>6

\* Sums are monotone.
LEMMA SumMonotone ==
  ASSUME NEW n \in Nat, NEW f, NEW h,
         \A i \in 1..n : f[i] \in Nat /\ h[i] \in Nat /\ h[i] <= f[i]
  PROVE  Sum(h, n) <= Sum(f, n)
<1>1. CASE n = 0
  BY <1>1, SumFacts
<1>2. CASE n # 0
  <2>1. 1 \in 1..n /\ h[1] <= f[1] + 0
    BY <1>2
  <2>2. Sum(h, n) <= Sum(f, n) + 0
    BY <2>1, SumGrowth
  <2>3. Sum(f, n) \in Nat /\ Sum(h, n) \in Nat
    BY SumFacts
  <2> QED
    BY <2>2, <2>3
<1> QED
  BY <1>1, <1>2

\* Of two functions that differ in one summand, the sums differ by what it differs.
LEMMA SumOneChange ==
  ASSUME NEW n \in Nat, NEW r \in 1..n, NEW f, NEW h,
         \A i \in 1..n : f[i] \in Nat /\ h[i] \in Nat,
         \A i \in 1..n : i # r => h[i] = f[i]
  PROVE  Sum(h, n) + f[r] = Sum(f, n) + h[r]
<1> DEFINE Claim(m) ==
      IF r <= m THEN Sum(h, m) + f[r] = Sum(f, m) + h[r] ELSE Sum(h, m) = Sum(f, m)
<1> DEFINE Bad == {m \in 0..n : ~Claim(m)}
<1>1. /\ Sum(f, 0) = 0 /\ Sum(h, 0) = 0
      /\ \A m \in 0..n : Sum(f, m) \in Nat /\ Sum(h, m) \in Nat
      /\ \A m \in 1..n : /\ Sum(f, m) = Sum(f, m - 1) + f[m]
                         /\ Sum(h, m) = Sum(h, m - 1) + h[m]
  BY SumFacts
<1>2. Bad = {}
  <2> SUFFICES ASSUME Bad # {} PROVE FALSE
    OBVIOUS
  <2>1. PICK m \in Bad : \A k \in Bad : m <= k
    <3>1. Bad \in SUBSET Nat
      OBVIOUS
    <3> HIDE DEF Bad
    <3> QED
      BY <3>1, LeastNat
  <2>2. m # 0
    BY <1>1
  <2>3. m \in 1..n /\ m - 1 \in 0..n /\ Claim(m - 1)
    BY <2>1, <2>2
  <2>4. Claim(m)
    <3>1. /\ Sum(f, m - 1) \in Nat /\ Sum(h, m - 1) \in Nat
          /\ f[m] \in Nat /\ h[m] \in Nat /\ f[r] \in Nat /\ h[r] \in Nat
          /\ Sum(f, m) = Sum(f, m - 1) + f[m]
          /\ Sum(h, m) = Sum(h, m - 1) + h[m]
      BY <1>1, <2>3
    <3>2. CASE m = r
      BY <3>1, <3>2, <2>3
    <3>3. CASE m # r
      BY <3>1, <3>3, <2>3
    <3> QED
      BY <3>2, <3>3
  <2> QED
    BY <2>4
<1> QED
  BY <1>2
=============================================================================
