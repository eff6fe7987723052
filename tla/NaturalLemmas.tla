---------------------------- MODULE NaturalLemmas ----------------------------
EXTENDS Naturals, WellFoundedInduction, TLAPS

\* The code looks for the first position or the first key of something in a
\* loop, the modules with CHOOSE: a set of naturals has a smallest element.
LEMMA SmallestInt ==
  ASSUME NEW S \in SUBSET Nat, S # {}
  PROVE  \E i \in S : \A j \in S : i <= j
<1> DEFINE R == OpToRel(<, Nat)
<1>1. \E i \in S : \A j \in S : ~ (<<j, i>> \in R)
  BY WFMin, NatLessThanWellFounded
<1>2. \A i, j \in Nat : <<j, i>> \in R <=> j < i
  BY DEF OpToRel
<1> HIDE DEF R
<1>3. PICK i \in S : \A j \in S : ~ (<<j, i>> \in R)
  BY <1>1
<1>4. ASSUME NEW j \in S PROVE i <= j
  <2>1. i \in Nat /\ j \in Nat
    OBVIOUS
  <2>2. ~ (j < i)
    BY <1>2, <1>3, <2>1
  <2>3. QED
    BY <2>1, <2>2
<1>5. QED
  BY <1>4

\* A loop from 1 to n, which begins with u and goes on with g.
IsLoop(f, n, V, u, g) ==
  f \in [0..n -> V] /\ f[0] = u /\ \A k \in 1..n : f[k] = g[<<k, f[k - 1]>>]

\* There is such a function.
LEMMA RecursionUpTo ==
  ASSUME NEW V, NEW u \in V, NEW n \in Nat, NEW g \in [(1..n) \X V -> V]
  PROVE  \E f : IsLoop(f, n, V, u, g)
<1> DEFINE Loop(f, m) == f[0] = u /\ \A k \in 1..m : f[k] = g[<<k, f[k - 1]>>]
           S == {m \in 0..n : ~ \E f \in [0..m -> V] : Loop(f, m)}
<1>1. SUFFICES ASSUME S # {} PROVE FALSE
  BY DEF IsLoop
<1>2. S \in SUBSET Nat
  OBVIOUS
<1>3. PICK m \in S : \A j \in S : m <= j
  BY <1>1, <1>2, SmallestInt
<1>4. m # 0
  <2> DEFINE f == [k \in 0..0 |-> u]
  <2>1. f \in [0..0 -> V] /\ Loop(f, 0)
    OBVIOUS
  <2>2. QED
    BY <2>1
<1>5. m \in 1..n /\ m - 1 \in 0..n /\ m - 1 \notin S
  BY <1>3, <1>4
<1>6. PICK f \in [0..(m - 1) -> V] : Loop(f, m - 1)
  BY <1>5
<1> DEFINE h == [k \in 0..m |-> IF k = m THEN g[<<m, f[m - 1]>>] ELSE f[k]]
<1>7. f[m - 1] \in V
  BY <1>5, <1>6
<1>8. h \in [0..m -> V]
  <2>1. g[<<m, f[m - 1]>>] \in V
    BY <1>5, <1>7
  <2>2. \A k \in 0..m : k # m => k \in 0..(m - 1)
    BY <1>5
  <2>3. QED
    BY <1>6, <2>1, <2>2
<1>9. Loop(h, m)
  <2>1. h[0] = u
    BY <1>5, <1>6
  <2>2. ASSUME NEW k \in 1..m PROVE h[k] = g[<<k, h[k - 1]>>]
    <3>1. CASE k = m
      <4>1. m - 1 \in 0..m /\ m \in 0..m /\ m - 1 # m
        BY <1>5
      <4>2. h[m - 1] = f[m - 1] /\ h[m] = g[<<m, f[m - 1]>>]
        BY <4>1
      <4>3. QED
        BY <3>1, <4>2
    <3>2. CASE k # m
      BY <1>5, <1>6, <3>2
    <3>3. QED
      BY <3>1, <3>2
  <2>3. QED
    BY <2>1, <2>2
<1>10. QED
  BY <1>3, <1>8, <1>9 DEF IsLoop
===============================================================================
