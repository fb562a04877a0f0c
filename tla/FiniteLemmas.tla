---------------------------- MODULE FiniteLemmas ----------------------------
(***************************************************************************)
(* Facts of finite sets and of numbers that several proofs need: finite    *)
(* sets of integers have a largest and a smallest element ("the newest",   *)
(* "the oldest" row), and running sums exist, are integers and compare as  *)
(* what they add.                                                          *)
(***************************************************************************)
EXTENDS Integers, FiniteSets, FiniteSetTheorems, WellFoundedInduction, TLAPS

\* Every nonempty set of subsets of a finite set has a smallest member.
LEMMA SmallestSubset ==
    \A S : IsFiniteSet(S) =>
        \A F \in SUBSET SUBSET S :
            F # {} => \E U \in F : \A V \in F : V \subseteq U => V = U
<1> SUFFICES ASSUME NEW S, IsFiniteSet(S), NEW F \in SUBSET SUBSET S, F # {}
             PROVE  \E U \in F : \A V \in F : V \subseteq U => V = U
  OBVIOUS
<1>1. IsWellFoundedOn(StrictSubsetOrdering(S), SUBSET S)
  BY FS_StrictSubsetOrderingWellFounded, FS_FiniteSubsetsOfFinite
<1>2. PICK U \in F : \A V \in F : ~(<<V, U>> \in StrictSubsetOrdering(S))
  BY <1>1, WFMin
<1>3. ASSUME NEW V \in F, V \subseteq U PROVE V = U
  <2>1. V \in SUBSET S /\ U \in SUBSET S
    OBVIOUS
  <2>2. V # U => <<V, U>> \in StrictSubsetOrdering(S)
    BY <1>3, <2>1 DEF StrictSubsetOrdering
  <2> QED
    BY <1>2, <2>2
<1> QED
  BY <1>3

\* The image of a finite set under a function is finite.
LEMMA FiniteImage ==
    ASSUME NEW S, IsFiniteSet(S), NEW f
    PROVE  IsFiniteSet({f[x] : x \in S})
<1> DEFINE T == {f[x] : x \in S}
           g == [x \in S |-> f[x]]
<1>1. g \in Surjection(S, T)
  BY DEF Surjection
<1> HIDE DEF g, T
<1> QED
  BY <1>1, FS_Surjection DEF T

\* The newest of finitely many.
LEMMA FiniteHasMax ==
    ASSUME NEW S, IsFiniteSet(S), S # {}
    PROVE  S \subseteq Int => \E x \in S : \A y \in S : y <= x
<1>0. \A G \in SUBSET SUBSET S :
         G # {} => \E U \in G : \A V \in G : V \subseteq U => V = U
  BY SmallestSubset
<1> DEFINE HasMax(U) == \E x \in U : \A y \in U : y <= x
           F == {U \in SUBSET S : U # {} /\ ~HasMax(U)}
<1> SUFFICES ASSUME S \subseteq Int, ~HasMax(S) PROVE FALSE
  OBVIOUS
<1>1. S \in F
  OBVIOUS
<1>2. PICK U \in F : \A V \in F : V \subseteq U => V = U
  <2>1. F \in SUBSET SUBSET S /\ F # {}
    BY <1>1
  <2> HIDE DEF F
  <2> QED
    BY <1>0, <2>1
<1>3. PICK x \in U : TRUE
  OBVIOUS
<1> DEFINE V == U \ {x}
<1>4. V # {}
  <2>1. V = {} => U = {x}
    OBVIOUS
  <2>2. HasMax({x})
    OBVIOUS
  <2> QED
    BY <2>1, <2>2
<1>5. HasMax(V)
  <2>1. V \subseteq U /\ V # U /\ V \in SUBSET S
    BY <1>3
  <2> QED
    BY <1>2, <1>4, <2>1
<1>6. PICK m \in V : \A y \in V : y <= m
  BY <1>5
<1>7. HasMax(U)
  <2>1. m \in Int /\ x \in Int /\ m \in U /\ \A y \in U : y \in Int /\ (y = x \/ y <= m)
    BY <1>6
  <2>2. CASE x <= m
    <3>1. \A y \in U : y <= m
      BY <2>1, <2>2
    <3> QED
      BY <2>1, <3>1
  <2>3. CASE m <= x
    <3>1. \A y \in U : y <= x
      BY <2>1, <2>3
    <3> QED
      BY <3>1
  <2> QED
    BY <2>1, <2>2, <2>3
<1> QED
  BY <1>2, <1>7

\* The oldest of finitely many.
LEMMA FiniteHasMin ==
    ASSUME NEW S, IsFiniteSet(S), S # {}
    PROVE  S \subseteq Int => \E x \in S : \A y \in S : x <= y
<1>0. \A G \in SUBSET SUBSET S :
         G # {} => \E U \in G : \A V \in G : V \subseteq U => V = U
  BY SmallestSubset
<1> DEFINE HasMin(U) == \E x \in U : \A y \in U : x <= y
           F == {U \in SUBSET S : U # {} /\ ~HasMin(U)}
<1> SUFFICES ASSUME S \subseteq Int, ~HasMin(S) PROVE FALSE
  OBVIOUS
<1>1. S \in F
  OBVIOUS
<1>2. PICK U \in F : \A V \in F : V \subseteq U => V = U
  <2>1. F \in SUBSET SUBSET S /\ F # {}
    BY <1>1
  <2> HIDE DEF F
  <2> QED
    BY <1>0, <2>1
<1>3. PICK x \in U : TRUE
  OBVIOUS
<1> DEFINE V == U \ {x}
<1>4. V # {}
  <2>1. V = {} => U = {x}
    OBVIOUS
  <2>2. HasMin({x})
    OBVIOUS
  <2> QED
    BY <2>1, <2>2
<1>5. HasMin(V)
  <2>1. V \subseteq U /\ V # U /\ V \in SUBSET S
    BY <1>3
  <2> QED
    BY <1>2, <1>4, <2>1
<1>6. PICK m \in V : \A y \in V : m <= y
  BY <1>5
<1>7. HasMin(U)
  <2>1. m \in Int /\ x \in Int /\ m \in U /\ \A y \in U : y \in Int /\ (y = x \/ m <= y)
    BY <1>6
  <2>2. CASE m <= x
    <3>1. \A y \in U : m <= y
      BY <2>1, <2>2
    <3> QED
      BY <2>1, <3>1
  <2>3. CASE x <= m
    <3>1. \A y \in U : x <= y
      BY <2>1, <2>3
    <3> QED
      BY <3>1
  <2> QED
    BY <2>1, <2>2, <2>3
<1> QED
  BY <1>2, <1>7

-----------------------------------------------------------------------------

\* Every nonempty set of natural numbers has a smallest member.
LEMMA NatHasMin ==
    ASSUME NEW S \in SUBSET Nat, S # {}
    PROVE  \E x \in S : \A y \in S : x <= y
<1>1. PICK m \in S : TRUE
  OBVIOUS
<1> DEFINE T == {i \in 0 .. m : i \in S}
<1>2. IsFiniteSet(T) /\ T # {} /\ T \subseteq Int
  <2>1. m \in Nat /\ IsFiniteSet(0 .. m)
    BY FS_Interval
  <2>2. T \subseteq 0 .. m
    OBVIOUS
  <2>3. IsFiniteSet(T)
    BY <2>1, <2>2, FS_Subset
  <2>4. m \in T /\ T \subseteq Int
    BY <2>1
  <2> QED
    BY <2>3, <2>4
<1>3. PICK k \in T : \A j \in T : k <= j
  <2> HIDE DEF T
  <2> QED
    BY <1>2, FiniteHasMin
<1>4. ASSUME NEW y \in S PROVE k <= y
  BY <1>3
<1> QED
  BY <1>3, <1>4

\* What holds of zero and passes from a number to the next holds of all.
LEMMA NatSteps ==
    ASSUME NEW S \in SUBSET Nat, 0 \in S, \A n \in S : n + 1 \in S
    PROVE  S = Nat
<1> SUFFICES ASSUME NEW m \in Nat, m \notin S PROVE FALSE
  OBVIOUS
<1> DEFINE T == {i \in 0 .. m : i \notin S}
<1>1. IsFiniteSet(T) /\ T # {} /\ T \subseteq Int
  <2>1. IsFiniteSet(0 .. m)
    BY FS_Interval
  <2>2. T \subseteq 0 .. m
    OBVIOUS
  <2>3. IsFiniteSet(T)
    BY <2>1, <2>2, FS_Subset
  <2>4. m \in T /\ T \subseteq Int
    OBVIOUS
  <2> QED
    BY <2>3, <2>4
<1>2. PICK k \in T : \A j \in T : k <= j
  <2> HIDE DEF T
  <2> QED
    BY <1>1, FiniteHasMin
<1>3. k \in 0 .. m /\ k # 0
  BY <1>2
<1>4. k - 1 \in S
  BY <1>2, <1>3
<1> QED
  BY <1>2, <1>3, <1>4

\* The running sums of finitely many integers exist, as a function.
LEMMA SumsExist ==
    ASSUME NEW n \in Nat, NEW c \in [1 .. n -> Int]
    PROVE  \E f \in [0 .. n -> Int] : \A i \in 0 .. n : f[i] = IF i = 0 THEN 0 ELSE f[i - 1] + c[i]
<1> DEFINE Sums(m, f) ==
        f \in [0 .. m -> Int] /\ \A i \in 0 .. m : f[i] = IF i = 0 THEN 0 ELSE f[i - 1] + c[i]
           S == {m \in Nat : m <= n => \E f : Sums(m, f)}
<1>1. 0 \in S
  <2>1. Sums(0, [i \in 0 .. 0 |-> 0])
    OBVIOUS
  <2> QED
    BY <2>1
<1>2. ASSUME NEW m \in S PROVE m + 1 \in S
  <2> SUFFICES ASSUME m + 1 <= n PROVE \E f : Sums(m + 1, f)
    <3> HIDE DEF Sums
    <3> QED
      OBVIOUS
  <2>1. PICK f : Sums(m, f)
    BY <1>2
  <2> DEFINE g == [i \in 0 .. m + 1 |-> IF i = m + 1 THEN f[m] + c[m + 1] ELSE f[i]]
  <2>2. g \in [0 .. m + 1 -> Int]
    <3>1. f[m] + c[m + 1] \in Int
      BY <2>1
    <3>2. \A i \in 0 .. m + 1 : i # m + 1 => f[i] \in Int
      BY <2>1
    <3> QED
      BY <3>1, <3>2
  <2>3. ASSUME NEW i \in 0 .. m + 1 PROVE g[i] = IF i = 0 THEN 0 ELSE g[i - 1] + c[i]
    <3>1. CASE i = m + 1
      <4>1. g[i] = f[m] + c[m + 1] /\ i # 0 /\ i - 1 \in 0 .. m + 1 /\ i - 1 = m /\ g[i - 1] = f[m]
        BY <3>1
      <4> QED
        BY <3>1, <4>1
    <3>2. CASE i # m + 1
      <4>1. i \in 0 .. m /\ g[i] = f[i] /\ (i # 0 => i - 1 \in 0 .. m /\ g[i - 1] = f[i - 1])
        BY <3>2
      <4>2. f[i] = IF i = 0 THEN 0 ELSE f[i - 1] + c[i]
        BY <2>1, <4>1
      <4> HIDE DEF g
      <4> QED
        BY <4>1, <4>2
    <3> QED
      BY <3>1, <3>2
  <2>4. Sums(m + 1, g)
    <3> HIDE DEF g
    <3> QED
      BY <2>2, <2>3
  <2> QED
    BY <2>4
<1>3. S = Nat
  <2> HIDE DEF S
  <2>1. S \in SUBSET Nat
    BY DEF S
  <2> QED
    BY <1>1, <1>2, <2>1, NatSteps
<1>4. n \in S
  BY <1>3
<1>5. \E f : Sums(n, f)
  BY <1>4
<1> QED
  BY <1>5

\* Running sums are integers.
LEMMA SumsAreInt ==
    ASSUME NEW n \in Nat, NEW c \in [1 .. n -> Int], NEW f,
           \A i \in 0 .. n : f[i] = IF i = 0 THEN 0 ELSE f[i - 1] + c[i]
    PROVE  f[n] \in Int
<1> DEFINE S == {m \in Nat : m <= n => f[m] \in Int}
<1>1. 0 \in S
  OBVIOUS
<1>2. ASSUME NEW m \in S PROVE m + 1 \in S
  <2> SUFFICES ASSUME m + 1 <= n PROVE f[m + 1] \in Int
    OBVIOUS
  <2>1. m + 1 \in 0 .. n /\ m + 1 # 0 /\ (m + 1) - 1 = m /\ m + 1 \in 1 .. n /\ f[m] \in Int
    OBVIOUS
  <2>2. f[m + 1] = f[m] + c[m + 1]
    BY <2>1
  <2> QED
    BY <2>1, <2>2
<1>3. S = Nat
  <2> HIDE DEF S
  <2>1. S \in SUBSET Nat
    BY DEF S
  <2> QED
    BY <1>1, <1>2, <2>1, NatSteps
<1> QED
  BY <1>3

\* Running sums keep the order of what is added, and a difference of one in it.
LEMMA SumsCompare ==
    ASSUME NEW n \in Nat, NEW c \in [1 .. n -> Int], NEW d \in [1 .. n -> Int], NEW f, NEW g,
           \A i \in 0 .. n : f[i] = IF i = 0 THEN 0 ELSE f[i - 1] + c[i],
           \A i \in 0 .. n : g[i] = IF i = 0 THEN 0 ELSE g[i - 1] + d[i],
           \A i \in 1 .. n : c[i] <= d[i]
    PROVE  f[n] <= g[n] /\ \A k \in 1 .. n : c[k] + 1 <= d[k] => f[n] + 1 <= g[n]
<1> DEFINE Ordered(m) == /\ f[m] \in Int /\ g[m] \in Int /\ f[m] <= g[m]
                         /\ \A k \in 1 .. m : c[k] + 1 <= d[k] => f[m] + 1 <= g[m]
           S == {m \in Nat : m <= n => Ordered(m)}
<1>1. 0 \in S
  OBVIOUS
<1>2. ASSUME NEW m \in S PROVE m + 1 \in S
  <2> SUFFICES ASSUME m + 1 <= n PROVE Ordered(m + 1)
    OBVIOUS
  <2>1. m + 1 \in 0 .. n /\ m + 1 # 0 /\ (m + 1) - 1 = m /\ m + 1 \in 1 .. n /\ m \in Nat /\ Ordered(m)
    OBVIOUS
  <2>2. f[m + 1] = f[m] + c[m + 1] /\ g[m + 1] = g[m] + d[m + 1]
    BY <2>1
  <2>3. c[m + 1] \in Int /\ d[m + 1] \in Int /\ c[m + 1] <= d[m + 1]
    BY <2>1
  <2>4. f[m + 1] \in Int /\ g[m + 1] \in Int /\ f[m + 1] <= g[m + 1]
    BY <2>1, <2>2, <2>3, SMTT(20)
  <2>5. ASSUME NEW k \in 1 .. m + 1, c[k] + 1 <= d[k] PROVE f[m + 1] + 1 <= g[m + 1]
    <3>1. CASE k = m + 1
      BY <2>1, <2>2, <2>3, <2>5, <3>1, SMTT(20)
    <3>2. CASE k # m + 1
      <4>1. k \in 1 .. m
        BY <2>1, <3>2
      <4>2. f[m] + 1 <= g[m]
        BY <2>1, <2>5, <4>1
      <4> QED
        BY <2>1, <2>2, <2>3, <4>2, SMTT(20)
    <3> QED
      BY <3>1, <3>2
  <2> QED
    BY <2>4, <2>5
<1>3. S = Nat
  <2> HIDE DEF S
  <2>1. S \in SUBSET Nat
    BY DEF S
  <2> QED
    BY <1>1, <1>2, <2>1, NatSteps
<1>4. n \in S
  BY <1>3
<1>5. Ordered(n)
  <2> HIDE DEF Ordered
  <2> QED
    BY <1>4
<1> QED
  BY <1>5

=============================================================================
