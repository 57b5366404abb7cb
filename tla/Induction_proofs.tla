--------------------------- MODULE Induction_proofs ---------------------------
(***************************************************************************)
(* Induction on the natural numbers, as statements about sets: a set of    *)
(* naturals that is not empty has a least element, and one that holds 0    *)
(* and the successor of each of its members holds them all.  The proofs    *)
(* about recursive functions use it with the set of the arguments at which *)
(* the function has the property.  It comes from the library's theorem     *)
(* that strict inclusion of finite sets is well founded, for the intervals *)
(* 0..n; the library's own induction theorems are about operators, which   *)
(* the provers installed here do not instantiate.                          *)
(***************************************************************************)
EXTENDS Integers, Sequences, FiniteSets, FiniteSetTheorems, WellFoundedInduction, TLAPS

LEMMA LeastNatural ==
  ASSUME NEW T, T \subseteq Nat, T # {}
  PROVE  \E x \in T : \A y \in T : x <= y
<1> DEFINE S(n) == 0..n
           F == {S(n) : n \in T}
           R == StrictSubsetOrdering(Nat)
           G == FiniteSubsetsOf(Nat)
<1>1. IsWellFoundedOn(R, G)
  BY FS_StrictSubsetOrderingWellFounded
<1>2. F \subseteq G
  <2>1. \A n \in T : S(n) \subseteq Nat /\ IsFiniteSet(S(n))
    BY FS_Interval
  <2> QED BY <2>1 DEF FiniteSubsetsOf
<1>3. F # {}
  OBVIOUS
<1>4. \E x \in F : \A y \in F : ~(<<y, x>> \in R)
  <2> HIDE DEF F, R, G
  <2> QED BY <1>1, <1>2, <1>3, WFMin
<1>5. PICK n \in T : \A m \in T : ~(<<S(m), S(n)>> \in R)
  BY <1>4
<1>6. ASSUME NEW m \in T, ~(n <= m)
      PROVE  FALSE
  <2>1. n \in S(n) /\ n \notin S(m)
    BY <1>6
  <2>2. S(m) \subseteq S(n)
    BY <1>6
  <2>3. <<S(m), S(n)>> \in R
    BY <2>1, <2>2 DEF StrictSubsetOrdering
  <2> QED BY <2>3, <1>5
<1> QED BY <1>6

LEMMA IntervalInduction ==
  ASSUME NEW n \in Nat, NEW T, 0 \in T,
         \A m \in 0..n : m \in T /\ m < n => m + 1 \in T
  PROVE  0..n \subseteq T
<1> SUFFICES ASSUME (0..n) \ T # {} PROVE FALSE
  OBVIOUS
<1>1. PICK x \in (0..n) \ T : \A y \in (0..n) \ T : x <= y
  <2>1. (0..n) \ T \subseteq Nat
    OBVIOUS
  <2> QED BY <2>1, LeastNatural
<1>2. x # 0 /\ x - 1 \in 0..n /\ x - 1 < n /\ ~(x <= x - 1)
  BY <1>1
<1>3. x - 1 \in T
  BY <1>1, <1>2
<1>4. (x - 1) + 1 \in T
  BY <1>2, <1>3
<1> QED BY <1>1, <1>4

-----------------------------------------------------------------------------
(***************************************************************************)
(* Functions defined by recursion on an interval.                          *)
(***************************************************************************)
\* One step of such a definition: from what Step[n][v] makes of the value v
\* at n - 1.
Recurs(g, a, Step, n) == IF n = 0 THEN a ELSE Step[n][g[n - 1]]

LEMMA RecursionExists ==
    ASSUME NEW N \in Nat, NEW S, NEW a \in S, NEW Step \in [1..N -> [S -> S]]
    PROVE  \E g \in [0..N -> S] : \A n \in 0..N : g[n] = Recurs(g, a, Step, n)
  <1> DEFINE Q(m) == \E g \in [0..m -> S] : \A n \in 0..m : g[n] = Recurs(g, a, Step, n)
             T == {m \in 0..N : Q(m)}
  <1>1. 0 \in T
    <2> DEFINE g == [n \in 0..0 |-> a]
    <2>1. g \in [0..0 -> S] /\ \A n \in 0..0 : g[n] = Recurs(g, a, Step, n)
      BY DEF Recurs
    <2> QED BY <2>1
  <1>2. \A m \in 0..N : m \in T /\ m < N => m + 1 \in T
    <2>1. SUFFICES ASSUME NEW m \in 0..N, Q(m), m < N PROVE Q(m + 1)
      OBVIOUS
    <2>2. PICK g \in [0..m -> S] : \A n \in 0..m : g[n] = Recurs(g, a, Step, n)
      BY <2>1
    <2>3. m + 1 \in 1..N /\ g[m] \in S /\ Step[m + 1][g[m]] \in S
      BY <2>1
    <2> DEFINE h == [n \in 0..(m + 1) |-> IF n = m + 1 THEN Step[m + 1][g[m]] ELSE g[n]]
    <2>4. h \in [0..(m + 1) -> S]
      BY <2>3
    <2>6. h[m + 1] = Step[m + 1][g[m]] /\ \A n \in 0..m : h[n] = g[n]
      OBVIOUS
    <2> HIDE DEF h
    <2>5. \A n \in 0..(m + 1) : h[n] = Recurs(h, a, Step, n)
      <3>1. SUFFICES ASSUME NEW n \in 0..(m + 1) PROVE h[n] = Recurs(h, a, Step, n)
        OBVIOUS
      <3>2. CASE n = m + 1
        <4>1. n # 0 /\ n - 1 = m /\ m \in 0..m
          BY <3>2
        <4>2. h[n] = Step[n][h[n - 1]]
          BY <2>6, <3>2, <4>1
        <4> QED BY <4>1, <4>2 DEF Recurs
      <3>3. CASE n = 0
        <4>1. 0 \in 0..m
          OBVIOUS
        <4>2. g[0] = a
          BY <2>2, <4>1 DEF Recurs
        <4> QED BY <2>6, <3>3, <4>1, <4>2 DEF Recurs
      <3>4. CASE n \in 1..m
        <4>1. h[n] = g[n] /\ h[n - 1] = g[n - 1] /\ g[n] = Recurs(g, a, Step, n)
          BY <2>2, <2>6, <3>4
        <4> QED BY <3>4, <4>1 DEF Recurs
      <3> QED BY <3>2, <3>3, <3>4
    <2> QED BY <2>4, <2>5
  <1> HIDE DEF T
  <1>3. 0..N \subseteq T
    BY <1>1, <1>2, IntervalInduction
  <1> QED BY <1>3 DEF T

-----------------------------------------------------------------------------
(***************************************************************************)
(* Concatenations of n parts.                                              *)
(***************************************************************************)
Parts(n, V, parts) == parts \in [1..n -> Seq(V)]

Joinable(n, V, parts) ==
    \E g \in [0..n -> Seq(V)] : \A k \in 0..n : g[k] = IF k = 0 THEN <<>> ELSE g[k - 1] \o parts[k]

\* Concatenation is defined for any number of parts.
LEMMA JoiningExists ==
    ASSUME NEW n \in Nat, NEW V, NEW parts, Parts(n, V, parts)
    PROVE  Joinable(n, V, parts)
  <1> DEFINE S == Seq(V)
             a == <<>>
             Step == [k \in 1..n |-> [v \in S |-> v \o parts[k]]]
  <1>1. a \in S /\ \A k \in 1..n, v \in S : Step[k][v] \in S
    BY DEF Parts
  <1>2. Step \in [1..n -> [S -> S]]
    BY <1>1
  <1>3. \A k \in 1..n, v \in S : Step[k][v] = v \o parts[k]
    OBVIOUS
  <1> HIDE DEF S, a, Step
  <1>4. PICK g \in [0..n -> S] : \A k \in 0..n : g[k] = Recurs(g, a, Step, k)
    <2>1. n \in Nat /\ a \in S /\ Step \in [1..n -> [S -> S]]
      BY <1>1, <1>2
    <2>2. \E g \in [0..n -> S] : \A k \in 0..n : g[k] = Recurs(g, a, Step, k)
      BY <2>1, RecursionExists, SMTT(60)
    <2> QED BY <2>2
  <1>5. \A k \in 0..n : g[k] = IF k = 0 THEN <<>> ELSE g[k - 1] \o parts[k]
    <2> TAKE k \in 0..n
    <2>1. CASE k = 0
      BY <1>4, <2>1 DEF Recurs, a
    <2>2. CASE k # 0
      <3>1. k \in 1..n /\ k - 1 \in 0..n /\ g[k - 1] \in S
        BY <2>2
      <3>2. g[k] = Step[k][g[k - 1]]
        BY <1>4, <2>2 DEF Recurs
      <3> QED BY <1>3, <2>2, <3>1, <3>2
    <2> QED BY <2>1, <2>2
  <1> QED BY <1>4, <1>5 DEF S, Joinable

-----------------------------------------------------------------------------
(***************************************************************************)
(* Sums.  A running sum of v has at n the sum of v[1], ..., v[n].          *)
(***************************************************************************)
RunningSum(N, s, v) ==
    /\ s \in [0..N -> Int] /\ s[0] = 0
    /\ \A n \in 1..N : s[n] = s[n - 1] + v[n]

\* Every family of integers has a running sum.
LEMMA RunningSumExists ==
    ASSUME NEW N \in Nat, NEW v \in [1..N -> Int]
    PROVE  \E s : RunningSum(N, s, v)
  <1> DEFINE Step == [n \in 1..N |-> [x \in Int |-> x + v[n]]]
             S == Int
             a == 0
  <1>0. Step \in [1..N -> [S -> S]] /\ a \in S
    OBVIOUS
  <1>1. \A n \in 1..N, x \in Int : Step[n][x] = x + v[n]
    OBVIOUS
  <1>2. PICK g \in [0..N -> Int] : \A n \in 0..N : g[n] = Recurs(g, 0, Step, n)
    <2> HIDE DEF Step, S, a
    <2>1. \E g \in [0..N -> S] : \A n \in 0..N : g[n] = Recurs(g, a, Step, n)
      BY <1>0, RecursionExists, SMTT(40)
    <2> QED BY <2>1 DEF S, a
  <1> HIDE DEF Step, S, a
  <1>3. g[0] = 0
    <2>1. 0 \in 0..N
      OBVIOUS
    <2> QED BY <1>2, <2>1 DEF Recurs
  <1>4. \A n \in 1..N : g[n] = g[n - 1] + v[n]
    <2>1. SUFFICES ASSUME NEW n \in 1..N PROVE g[n] = g[n - 1] + v[n]
      OBVIOUS
    <2>2. n \in 0..N /\ n - 1 \in 0..N /\ n # 0 /\ g[n - 1] \in Int
      OBVIOUS
    <2>3. g[n] = Step[n][g[n - 1]]
      BY <1>2, <2>2 DEF Recurs
    <2> QED BY <1>1, <2>2, <2>3
  <1> QED BY <1>2, <1>3, <1>4 DEF RunningSum

\* The function that a recursive definition of a sum chooses is a running sum.
LEMMA SumChosen ==
    ASSUME NEW N \in Nat, NEW v \in [1..N -> Int], NEW s, RunningSum(N, s, v)
    PROVE  (CHOOSE g : g = [n \in 0..N |-> IF n = 0 THEN 0 ELSE g[n - 1] + v[n]])[N] = s[N]
  <1> DEFINE sum == CHOOSE g : g = [n \in 0..N |-> IF n = 0 THEN 0 ELSE g[n - 1] + v[n]]
  <1>1. sum = [n \in 0..N |-> IF n = 0 THEN 0 ELSE sum[n - 1] + v[n]]
    <2>1. s = [n \in 0..N |-> s[n]]
      BY DEF RunningSum
    <2>2. \A n \in 0..N : s[n] = IF n = 0 THEN 0 ELSE s[n - 1] + v[n]
      BY DEF RunningSum
    <2>3. s = [n \in 0..N |-> IF n = 0 THEN 0 ELSE s[n - 1] + v[n]]
      BY <2>1, <2>2
    <2> QED BY <2>3
  <1> HIDE DEF sum
  <1> DEFINE T == {n \in 0..N : sum[n] = s[n]}
  <1>2. 0 \in T
    BY <1>1 DEF RunningSum
  <1>3. \A m \in 0..N : m \in T /\ m < N => m + 1 \in T
    <2>1. SUFFICES ASSUME NEW m \in 0..N, sum[m] = s[m], m < N
                   PROVE  m + 1 \in 0..N /\ sum[m + 1] = s[m + 1]
      OBVIOUS
    <2>2. m + 1 \in 1..N /\ m + 1 \in 0..N /\ (m + 1) - 1 = m /\ m + 1 # 0
      BY <2>1
    <2>3. sum[m + 1] = sum[m] + v[m + 1]
      BY <1>1, <2>2
    <2> QED BY <2>1, <2>2, <2>3 DEF RunningSum
  <1> HIDE DEF T
  <1>4. 0..N \subseteq T
    BY <1>2, <1>3, IntervalInduction
  <1>5. N \in T
    BY <1>4
  <1> QED BY <1>5 DEF T, sum

\* A running sum does not fall where the summands are not negative.
LEMMA RunningSumGrows ==
    ASSUME NEW N \in Nat, NEW v \in [1..N -> Int], NEW s, RunningSum(N, s, v),
           NEW a \in 0..N, NEW c \in a..N, \A b \in (a + 1)..c : v[b] >= 0
    PROVE  s[a] <= s[c]
  <1> DEFINE T == {n \in 0..(c - a) : s[a] <= s[a + n]}
  <1>1. c - a \in Nat /\ \A n \in 0..(c - a) : a + n \in 0..N
    OBVIOUS
  <1>2. \A n \in 0..N : s[n] \in Int
    BY DEF RunningSum
  <1>3. 0 \in T
    <2>1. a + 0 = a /\ a \in 0..N
      OBVIOUS
    <2> QED BY <1>1, <1>2, <2>1
  <1>4. \A m \in 0..(c - a) : m \in T /\ m < c - a => m + 1 \in T
    <2>1. SUFFICES ASSUME NEW m \in 0..(c - a), s[a] <= s[a + m], m < c - a
                   PROVE  m + 1 \in 0..(c - a) /\ s[a] <= s[a + (m + 1)]
      OBVIOUS
    <2>2. /\ m + 1 \in 0..(c - a) /\ a + (m + 1) \in (a + 1)..c /\ a + (m + 1) \in 1..N
          /\ (a + (m + 1)) - 1 = a + m /\ a + m \in 0..N
      BY <2>1
    <2>3. s[a + (m + 1)] = s[a + m] + v[a + (m + 1)]
      BY <2>2 DEF RunningSum
    <2>4. v[a + (m + 1)] >= 0 /\ v[a + (m + 1)] \in Int
      BY <2>2
    <2>5. s[a] \in Int /\ s[a + m] \in Int
      BY <1>2, <2>2
    <2> QED BY <2>1, <2>2, <2>3, <2>4, <2>5
  <1> HIDE DEF T
  <1>5. 0..(c - a) \subseteq T
    BY <1>1, <1>3, <1>4, IntervalInduction
  <1>6. c - a \in T /\ a + (c - a) = c
    BY <1>1, <1>5
  <1> QED BY <1>6 DEF T

=============================================================================
