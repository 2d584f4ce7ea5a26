----------------------------- MODULE Inductions -----------------------------
(***************************************************************************)
(* Inductions over data, with sets and functions in the place of           *)
(* predicates and operators: what loops, the recursive functions that      *)
(* stand for them and the sums over peers compute, for the proofs of the   *)
(* components.                                                             *)
(***************************************************************************)
EXTENDS Integers, FiniteSets, FiniteSetsExt, FiniteSetTheorems,
        SequenceTheorems, WellFoundedInduction, TLAPS

\* A set of natural numbers that is not empty has a least one.
LEMMA LeastNat ==
    ASSUME NEW T \in SUBSET Nat, T # {}
    PROVE  \E x \in T : \A y \in T : ~ (y < x)
<1> DEFINE R == OpToRel(<, Nat)
<1>1. IsWellFoundedOn(R, Nat)
  BY NatLessThanWellFounded
<1>2. \A x, y \in Nat : y < x => <<y, x>> \in R
  BY DEF OpToRel
<1> HIDE DEF R
<1>3. \E x \in T : \A y \in T : ~ (<<y, x>> \in R)
  BY <1>1, WFMin
<1> QED BY <1>2, <1>3

\* A set that has 0, and n + 1 with every n, has all natural numbers.
LEMMA NatsIn ==
    ASSUME NEW S, 0 \in S, \A n \in Nat : n \in S => n + 1 \in S
    PROVE  \A n \in Nat : n \in S
<1> DEFINE T == Nat \ S
<1> SUFFICES ASSUME T # {} PROVE FALSE
  OBVIOUS
<1>1. PICK x \in T : \A y \in T : ~ (y < x)
  <2>1. T \in SUBSET Nat
    OBVIOUS
  <2> HIDE DEF T
  <2> QED BY <2>1, LeastNat
<1>2. x - 1 \in Nat /\ x - 1 < x
  BY <1>1
<1>3. x - 1 \in S
  BY <1>1, <1>2
<1> QED BY <1>1, <1>2, <1>3

-----------------------------------------------------------------------------
(* Loops.                                                                  *)

\* The states of S that a loop goes through which starts with base and makes n steps
IsLoop(g, n, S, base, step) ==
    /\ g \in [0 .. n -> S]
    /\ g[0] = base
    /\ \A i \in 1 .. n : g[i] = step[<<i, g[i - 1]>>]

\* A loop whose steps stay in S goes through a sequence of states of S.
LEMMA LoopExists ==
    ASSUME NEW n \in Nat, NEW S, NEW base \in S, NEW step \in [(1 .. n) \X S -> S]
    PROVE  \E g : IsLoop(g, n, S, base, step)
<1> DEFINE Ok(k) == \E g \in [0 .. k -> S] :
                       g[0] = base /\ \A i \in 1 .. k : g[i] = step[<<i, g[i - 1]>>]
           G == {k \in Nat : k <= n => Ok(k)}
<1>1. 0 \in G
  <2> DEFINE g0 == [i \in 0 .. 0 |-> base]
  <2>1. g0 \in [0 .. 0 -> S] /\ g0[0] = base /\ \A i \in 1 .. 0 : g0[i] = step[<<i, g0[i - 1]>>]
    OBVIOUS
  <2>2. Ok(0)
    BY <2>1
  <2> HIDE DEF Ok
  <2> QED BY <2>2
<1>2. ASSUME NEW k \in Nat, k \in G PROVE k + 1 \in G
  <2> SUFFICES ASSUME k + 1 <= n PROVE Ok(k + 1)
    OBVIOUS
  <2>1. PICK g \in [0 .. k -> S] :
               g[0] = base /\ \A i \in 1 .. k : g[i] = step[<<i, g[i - 1]>>]
    BY <1>2
  <2> DEFINE h == [i \in 0 .. k + 1 |-> IF i <= k THEN g[i] ELSE step[<<k + 1, g[k]>>]]
  <2>2. step[<<k + 1, g[k]>>] \in S
    BY <2>1
  <2>3. h \in [0 .. k + 1 -> S]
    BY <2>1, <2>2
  <2>4. h[0] = base
    BY <2>1
  <2>5. ASSUME NEW i \in 1 .. k + 1 PROVE h[i] = step[<<i, h[i - 1]>>]
    <3>1. CASE i <= k
      <4>1. i \in 1 .. k /\ i - 1 \in 0 .. k /\ i - 1 <= k
        BY <3>1
      <4>2. h[i] = g[i] /\ h[i - 1] = g[i - 1]
        BY <3>1, <4>1
      <4> QED BY <2>1, <4>1, <4>2
    <3>2. CASE ~ (i <= k)
      <4>1. i = k + 1 /\ i - 1 = k
        BY <3>2
      <4>2. h[k + 1] = step[<<k + 1, g[k]>>] /\ h[k] = g[k]
        OBVIOUS
      <4> QED BY <4>1, <4>2
    <3> QED BY <3>1, <3>2
  <2> HIDE DEF h
  <2> QED BY <2>3, <2>4, <2>5
<1> HIDE DEF G
<1>3. \A k \in Nat : k \in G
  BY <1>1, <1>2, NatsIn
<1> USE DEF G
<1> HIDE DEF Ok
<1>4. Ok(n)
  BY <1>3
<1> QED BY <1>4 DEF Ok, IsLoop

\* What every step keeps holds at the end.
LEMMA LoopEnds ==
    ASSUME NEW n \in Nat, NEW S, NEW F, F[0] \in S,
           \A i \in 1 .. n : F[i - 1] \in S => F[i] \in S
    PROVE  F[n] \in S
<1> DEFINE G == {k \in Nat : k <= n => F[k] \in S}
<1>1. 0 \in G
  OBVIOUS
<1>2. ASSUME NEW k \in Nat, k \in G PROVE k + 1 \in G
  <2> SUFFICES ASSUME k + 1 <= n PROVE F[k + 1] \in S
    OBVIOUS
  <2>1. k + 1 \in 1 .. n /\ k + 1 - 1 = k /\ F[k] \in S
    BY <1>2
  <2> QED BY <2>1
<1>3. \A k \in Nat : k \in G
  <2> HIDE DEF G
  <2> QED BY <1>1, <1>2, NatsIn
<1> QED BY <1>3

\* A loop, written as the recursive function that stands for it
LEMMA LoopIs ==
    ASSUME NEW n \in Nat, NEW S, NEW base \in S, NEW step \in [(1 .. n) \X S -> S],
           NEW g, DOMAIN g = 0 .. n, g = [i \in 0 .. n |-> g[i]],
           g[0] = base, \A i \in 1 .. n : g[i - 1] \in S => g[i] = step[<<i, g[i - 1]>>]
    PROVE  IsLoop(g, n, S, base, step)
<1>0. ASSUME NEW i \in 1 .. n, g[i - 1] \in S PROVE g[i] \in S
  <2>1. g[i] = step[<<i, g[i - 1]>>] /\ <<i, g[i - 1]>> \in (1 .. n) \X S
    BY <1>0
  <2> QED BY <2>1
<1> DEFINE G == {k \in Nat : k <= n => g[k] \in S}
<1>1. 0 \in G
  OBVIOUS
<1>2. ASSUME NEW k \in Nat, k \in G PROVE k + 1 \in G
  <2> SUFFICES ASSUME k + 1 <= n PROVE g[k + 1] \in S
    OBVIOUS
  <2>1. k + 1 \in 1 .. n /\ k + 1 - 1 = k /\ g[k] \in S
    BY <1>2
  <2> QED BY <1>0, <2>1
<1>3. \A k \in Nat : k \in G
  <2> HIDE DEF G
  <2> QED BY <1>1, <1>2, NatsIn
<1>4. \A i \in 0 .. n : g[i] \in S
  BY <1>3
<1>5. g \in [0 .. n -> S]
  BY <1>4
<1>6. ASSUME NEW i \in 1 .. n PROVE g[i] = step[<<i, g[i - 1]>>]
  <2>1. i - 1 \in 0 .. n
    OBVIOUS
  <2>2. g[i - 1] \in S
    BY <1>4, <2>1
  <2> QED BY <2>2
<1> QED BY <1>5, <1>6 DEF IsLoop

\* Two loops that make the same steps go through the same states.
LEMMA LoopsAgree ==
    ASSUME NEW n \in Nat, NEW m \in Nat, n <= m, NEW S, NEW base, NEW step, NEW step2, NEW g, NEW h,
           IsLoop(g, n, S, base, step), IsLoop(h, m, S, base, step2),
           \A i \in 1 .. n, x \in S : step2[<<i, x>>] = step[<<i, x>>]
    PROVE  \A i \in 0 .. n : h[i] = g[i]
<1> DEFINE G == {k \in Nat : k <= n => h[k] = g[k]}
<1>1. 0 \in G
  BY DEF IsLoop
<1>2. ASSUME NEW k \in Nat, k \in G PROVE k + 1 \in G
  <2> SUFFICES ASSUME k + 1 <= n PROVE h[k + 1] = g[k + 1]
    OBVIOUS
  <2>1. k + 1 \in 1 .. n /\ k + 1 \in 1 .. m /\ k + 1 - 1 = k /\ k \in 0 .. n /\ h[k] = g[k] /\ g[k] \in S
    BY <1>2 DEF IsLoop
  <2>2. g[k + 1] = step[<<k + 1, g[k]>>] /\ h[k + 1] = step2[<<k + 1, h[k]>>]
    BY <2>1 DEF IsLoop
  <2> QED BY <2>1, <2>2
<1>3. \A k \in Nat : k \in G
  <2> HIDE DEF G
  <2> QED BY <1>1, <1>2, NatsIn
<1> QED BY <1>3

\* What every step keeps, and may depend on its number, holds at the end.
LEMMA LoopEndsAt ==
    ASSUME NEW n \in Nat, NEW T, NEW F, F[0] \in T[0],
           \A i \in 1 .. n : F[i - 1] \in T[i - 1] => F[i] \in T[i]
    PROVE  F[n] \in T[n]
<1> DEFINE G == {k \in Nat : k <= n => F[k] \in T[k]}
<1>1. 0 \in G
  OBVIOUS
<1>2. ASSUME NEW k \in Nat, k \in G PROVE k + 1 \in G
  <2> SUFFICES ASSUME k + 1 <= n PROVE F[k + 1] \in T[k + 1]
    OBVIOUS
  <2>1. k + 1 \in 1 .. n /\ k + 1 - 1 = k /\ F[k] \in T[k]
    BY <1>2
  <2> QED BY <2>1
<1>3. \A k \in Nat : k \in G
  <2> HIDE DEF G
  <2> QED BY <1>1, <1>2, NatsIn
<1> QED BY <1>3

-----------------------------------------------------------------------------
(* Sequences.                                                              *)

\* One more element of a sequence
LEMMA PrefixGrows ==
    ASSUME NEW S, NEW s \in Seq(S), NEW k \in Nat, k + 1 <= Len(s)
    PROVE  /\ SubSeq(s, 1, k) \in Seq(S) /\ s[k + 1] \in S
           /\ SubSeq(s, 1, k + 1) = Append(SubSeq(s, 1, k), s[k + 1])
<1>1. SubSeq(s, 1, k) \in Seq(S) /\ s[k + 1] \in S /\ SubSeq(s, 1, k + 1) \in Seq(S)
  OBVIOUS
<1>2. Len(SubSeq(s, 1, k)) = k /\ Len(SubSeq(s, 1, k + 1)) = k + 1
  OBVIOUS
<1>3. \A j \in 1 .. k + 1 : SubSeq(s, 1, k + 1)[j] = s[j]
  OBVIOUS
<1>4. \A j \in 1 .. k + 1 : Append(SubSeq(s, 1, k), s[k + 1])[j] = s[j]
  BY <1>1, <1>2
<1> QED BY <1>1, <1>2, <1>3, <1>4, SeqEqual

\* A sequence given by its two ends
LEMMA JoinIs ==
    ASSUME NEW T, NEW u \in Seq(T), NEW v \in Seq(T), NEW w \in Seq(T), Len(w) = Len(u) + Len(v),
           \A i \in 1 .. Len(u) : w[i] = u[i], \A k \in 1 .. Len(v) : w[Len(u) + k] = v[k]
    PROVE  w = u \o v
<1>1. PICK x \in Seq(T) : x = u \o v
  <2>1. u \o v \in Seq(T)
    BY ConcatProperties
  <2> QED BY <2>1
<1>2. Len(x) = Len(w) /\ Len(u) \in Nat /\ Len(v) \in Nat
  BY <1>1
<1>3. ASSUME NEW i \in 1 .. Len(w) PROVE w[i] = x[i]
  <2>1. CASE i <= Len(u)
    BY <1>1, <1>2, <2>1
  <2>2. CASE ~ (i <= Len(u))
    <3>1. PICK k \in 1 .. Len(v) : i = Len(u) + k
      <4>1. i - Len(u) \in 1 .. Len(v) /\ i = Len(u) + (i - Len(u))
        BY <1>2, <2>2
      <4> QED BY <4>1
    <3>2. x[i] = v[k]
      BY <1>1, <1>2, <3>1
    <3> QED BY <3>1, <3>2
  <2> QED BY <2>1, <2>2
<1> QED BY <1>1, <1>2, <1>3, SeqEqual

-----------------------------------------------------------------------------
(* Sums.                                                                   *)

Total(f, P) == MapThenSumSet(LAMBDA p : f[p], P)

\* The partial sums that MapThenSumSet goes through
Pick(s) == CHOOSE x \in s : TRUE
IsSums(g, f, P) ==
    g = [s \in SUBSET P |-> IF s = {} THEN 0 ELSE f[Pick(s)] + g[s \ {Pick(s)}]]

LEMMA Picked ==
    ASSUME NEW s, IsFiniteSet(s), s # {}
    PROVE  /\ Pick(s) \in s /\ IsFiniteSet(s \ {Pick(s)})
           /\ Cardinality(s) \in Nat /\ Cardinality(s \ {Pick(s)}) = Cardinality(s) - 1
<1>1. Pick(s) \in s
  BY DEF Pick
<1> QED BY <1>1, FS_RemoveElement, FS_CardinalityType

LEMMA SumsExist ==
    ASSUME NEW P, IsFiniteSet(P), NEW f
    PROVE  \E g : IsSums(g, f, P)
<1> DEFINE Small(k) == {s \in SUBSET P : Cardinality(s) <= k}
           Rest(g, s) == IF s = {} THEN 0 ELSE f[Pick(s)] + g[s \ {Pick(s)}]
           Ok(g, k) == g = [s \in Small(k) |-> Rest(g, s)]
           G == {k \in Nat : \E g : Ok(g, k)}
<1>0. \A s \in SUBSET P : IsFiniteSet(s) /\ Cardinality(s) \in Nat /\ (Cardinality(s) = 0 <=> s = {})
  BY FS_Subset, FS_CardinalityType, FS_EmptySet
<1>a. ASSUME NEW s \in SUBSET P, s # {}
      PROVE  /\ s \ {Pick(s)} \in SUBSET P
             /\ Cardinality(s \ {Pick(s)}) = Cardinality(s) - 1 /\ Cardinality(s) \in Nat
  BY <1>0, <1>a, Picked
<1>1. 0 \in G
  <2> DEFINE g0 == [s \in Small(0) |-> 0]
  <2>1. \A s \in Small(0) : s = {}
    BY <1>0
  <2>2. \A s \in Small(0) : Rest(g0, s) = 0
    BY <2>1
  <2>3. Ok(g0, 0)
    <3> HIDE DEF Small, Rest
    <3> QED BY <2>2
  <2> HIDE DEF Ok
  <2> QED BY <2>3
<1>2. ASSUME NEW k \in Nat, k \in G PROVE k + 1 \in G
  <2>1. PICK g : Ok(g, k)
    BY <1>2
  <2> DEFINE h == [s \in Small(k + 1) |-> Rest(g, s)]
  <2>2. ASSUME NEW s \in Small(k + 1), s # {}
        PROVE  s \ {Pick(s)} \in Small(k) /\ s \ {Pick(s)} \in Small(k + 1)
    <3>1. s \in SUBSET P /\ Cardinality(s) <= k + 1
      OBVIOUS
    <3> QED BY <1>a, <2>2, <3>1
  <2>3. \A s \in Small(k) : s \in Small(k + 1) /\ h[s] = g[s]
    <3>1. \A s \in Small(k) : s \in Small(k + 1)
      BY <1>0
    <3>2. \A s \in Small(k) : g[s] = Rest(g, s)
      <4> HIDE DEF Small, Rest
      <4> QED BY <2>1
    <3>3. \A s \in Small(k + 1) : h[s] = Rest(g, s)
      <4> HIDE DEF Small, Rest
      <4> QED OBVIOUS
    <3> HIDE DEF Small, Rest, h
    <3> QED BY <3>1, <3>2, <3>3
  <2>4. \A s \in Small(k + 1) : Rest(h, s) = Rest(g, s)
    <3> HIDE DEF h, Small
    <3> QED BY <2>2, <2>3
  <2>5. Ok(h, k + 1)
    <3> HIDE DEF Small, Rest
    <3> QED BY <2>4
  <2> HIDE DEF Ok, h
  <2> QED BY <2>5
<1>3. \A k \in Nat : k \in G
  <2> HIDE DEF G
  <2> QED BY <1>1, <1>2, NatsIn
<1>4. Cardinality(P) \in Nat /\ Small(Cardinality(P)) = SUBSET P
  BY FS_CardinalityType, FS_Subset
<1>5. PICK g : Ok(g, Cardinality(P))
  <2> HIDE DEF Ok
  <2> QED BY <1>3, <1>4
<1>6. g = [s \in SUBSET P |-> Rest(g, s)]
  <2> HIDE DEF Small, Rest
  <2> QED BY <1>4, <1>5
<1> QED BY <1>6 DEF IsSums

LEMMA SumsAre ==
    ASSUME NEW P, IsFiniteSet(P), NEW f
    PROVE  \E g : IsSums(g, f, P) /\ Total(f, P) = g[P]
<1> DEFINE F == CHOOSE g : IsSums(g, f, P)
<1>1. IsSums(F, f, P)
  BY SumsExist
<1>2. Total(f, P) = F[P]
  BY DEF Total, MapThenSumSet, MapThenFoldSet, IsSums, Pick
<1> QED BY <1>1, <1>2

\* What holds of the empty sum, and of a sum if it does with one element less
LEMMA OverSubsets ==
    ASSUME NEW P, IsFiniteSet(P), NEW S, {} \in S,
           \A s \in SUBSET P : s # {} /\ s \ {Pick(s)} \in S => s \in S
    PROVE  P \in S
<1> DEFINE G == {k \in Nat : \A s \in SUBSET P : Cardinality(s) = k => s \in S}
<1>0. \A s \in SUBSET P : IsFiniteSet(s) /\ Cardinality(s) \in Nat /\ (Cardinality(s) = 0 <=> s = {})
  BY FS_Subset, FS_CardinalityType, FS_EmptySet
<1>1. 0 \in G
  BY <1>0
<1>2. ASSUME NEW k \in Nat, k \in G PROVE k + 1 \in G
  <2> SUFFICES ASSUME NEW s \in SUBSET P, Cardinality(s) = k + 1 PROVE s \in S
    OBVIOUS
  <2>1. s # {}
    BY <1>0
  <2>2. s \ {Pick(s)} \in SUBSET P /\ Cardinality(s \ {Pick(s)}) = k
    BY <1>0, <2>1, Picked
  <2> QED BY <1>2, <2>1, <2>2
<1>3. \A k \in Nat : k \in G
  <2> HIDE DEF G
  <2> QED BY <1>1, <1>2, NatsIn
<1>4. Cardinality(P) \in Nat /\ P \in SUBSET P
  BY FS_CardinalityType
<1> QED BY <1>3, <1>4

LEMMA SumsAt ==
    ASSUME NEW P, NEW f, NEW g, IsSums(g, f, P)
    PROVE  /\ g[{}] = 0
           /\ \A s \in SUBSET P : s # {} => g[s] = f[Pick(s)] + g[s \ {Pick(s)}]
<1>1. \A s \in SUBSET P : g[s] = IF s = {} THEN 0 ELSE f[Pick(s)] + g[s \ {Pick(s)}]
  BY DEF IsSums
<1> QED BY <1>1

LEMMA PickIn == \A s : s # {} => Pick(s) \in s
  BY DEF Pick

LEMMA TotalType ==
    ASSUME NEW P, IsFiniteSet(P), NEW f \in [P -> Int]
    PROVE  Total(f, P) \in Int
<1>1. PICK g : IsSums(g, f, P) /\ Total(f, P) = g[P]
  BY SumsAre
<1>2. /\ g[{}] = 0
      /\ \A s \in SUBSET P : s # {} => g[s] = f[Pick(s)] + g[s \ {Pick(s)}]
  BY <1>1, SumsAt
<1> DEFINE S == {s \in SUBSET P : g[s] \in Int}
<1>3. {} \in S
  BY <1>2
<1>4. ASSUME NEW s \in SUBSET P, s # {}, s \ {Pick(s)} \in S PROVE s \in S
  <2>1. f[Pick(s)] \in Int
    BY <1>4, PickIn
  <2>2. g[s] = f[Pick(s)] + g[s \ {Pick(s)}] /\ g[s \ {Pick(s)}] \in Int
    BY <1>2, <1>4
  <2> QED BY <2>1, <2>2
<1>5. P \in S
  <2> HIDE DEF S
  <2> QED BY <1>3, <1>4, OverSubsets
<1> QED BY <1>1, <1>5

\* The sum of differences
LEMMA TotalDifference ==
    ASSUME NEW P, IsFiniteSet(P), NEW f \in [P -> Int], NEW d \in [P -> Int], NEW h,
           \A p \in P : h[p] = f[p] - d[p]
    PROVE  Total(h, P) = Total(f, P) - Total(d, P)
<1>1. PICK g : IsSums(g, f, P) /\ Total(f, P) = g[P]
  BY SumsAre
<1>2. PICK e : IsSums(e, d, P) /\ Total(d, P) = e[P]
  BY SumsAre
<1>3. PICK k : IsSums(k, h, P) /\ Total(h, P) = k[P]
  BY SumsAre
<1>4. /\ g[{}] = 0 /\ e[{}] = 0 /\ k[{}] = 0
      /\ \A s \in SUBSET P : s # {} => /\ g[s] = f[Pick(s)] + g[s \ {Pick(s)}]
                                      /\ e[s] = d[Pick(s)] + e[s \ {Pick(s)}]
                                      /\ k[s] = h[Pick(s)] + k[s \ {Pick(s)}]
  BY <1>1, <1>2, <1>3, SumsAt
<1> DEFINE S == {s \in SUBSET P : g[s] \in Int /\ e[s] \in Int /\ k[s] = g[s] - e[s]}
<1>5. {} \in S
  BY <1>4
<1>6. ASSUME NEW s \in SUBSET P, s # {}, s \ {Pick(s)} \in S PROVE s \in S
  <2>1. f[Pick(s)] \in Int /\ d[Pick(s)] \in Int /\ h[Pick(s)] = f[Pick(s)] - d[Pick(s)]
    BY <1>6, PickIn
  <2>2. /\ g[s] = f[Pick(s)] + g[s \ {Pick(s)}] /\ e[s] = d[Pick(s)] + e[s \ {Pick(s)}]
        /\ k[s] = h[Pick(s)] + k[s \ {Pick(s)}]
    BY <1>4, <1>6
  <2>3. /\ g[s \ {Pick(s)}] \in Int /\ e[s \ {Pick(s)}] \in Int
        /\ k[s \ {Pick(s)}] = g[s \ {Pick(s)}] - e[s \ {Pick(s)}]
    BY <1>6
  <2> QED BY <2>1, <2>2, <2>3
<1>7. P \in S
  <2> HIDE DEF S
  <2> QED BY <1>5, <1>6, OverSubsets
<1> QED BY <1>1, <1>2, <1>3, <1>7

\* The sum of a function that is 0 but for one argument
LEMMA TotalOfOne ==
    ASSUME NEW P, IsFiniteSet(P), NEW q \in P, NEW n \in Int, NEW d,
           \A p \in P : d[p] = IF p = q THEN n ELSE 0
    PROVE  Total(d, P) = n
<1>1. PICK g : IsSums(g, d, P) /\ Total(d, P) = g[P]
  BY SumsAre
<1>2. /\ g[{}] = 0
      /\ \A s \in SUBSET P : s # {} => g[s] = d[Pick(s)] + g[s \ {Pick(s)}]
  BY <1>1, SumsAt
<1> DEFINE S == {s \in SUBSET P : g[s] = IF q \in s THEN n ELSE 0}
<1>3. {} \in S
  BY <1>2
<1>4. ASSUME NEW s \in SUBSET P, s # {}, s \ {Pick(s)} \in S PROVE s \in S
  <2>1. Pick(s) \in s /\ g[s] = d[Pick(s)] + g[s \ {Pick(s)}]
    BY <1>2, <1>4, PickIn
  <2>2. g[s \ {Pick(s)}] = IF q \in s \ {Pick(s)} THEN n ELSE 0
    BY <1>4
  <2>3. CASE Pick(s) = q
    BY <2>1, <2>2, <2>3
  <2>4. CASE Pick(s) # q
    BY <2>1, <2>2, <2>4
  <2> QED BY <2>3, <2>4
<1>5. P \in S
  <2> HIDE DEF S
  <2> QED BY <1>3, <1>4, OverSubsets
<1> QED BY <1>1, <1>5

\* The sum of zeros
LEMMA TotalOfNone ==
    ASSUME NEW P, IsFiniteSet(P), NEW d, \A p \in P : d[p] = 0
    PROVE  Total(d, P) = 0
<1>1. PICK g : IsSums(g, d, P) /\ Total(d, P) = g[P]
  BY SumsAre
<1>2. /\ g[{}] = 0
      /\ \A s \in SUBSET P : s # {} => g[s] = d[Pick(s)] + g[s \ {Pick(s)}]
  BY <1>1, SumsAt
<1> DEFINE S == {s \in SUBSET P : g[s] = 0}
<1>3. {} \in S
  BY <1>2
<1>4. ASSUME NEW s \in SUBSET P, s # {}, s \ {Pick(s)} \in S PROVE s \in S
  BY <1>2, <1>4, PickIn
<1>5. P \in S
  <2> HIDE DEF S
  <2> QED BY <1>3, <1>4, OverSubsets
<1> QED BY <1>1, <1>5

\* A sum of natural numbers is one.
LEMMA TotalNat ==
    ASSUME NEW P, IsFiniteSet(P), NEW f \in [P -> Nat]
    PROVE  Total(f, P) \in Nat
<1>0. f \in [P -> Int]
  OBVIOUS
<1>1. PICK g : IsSums(g, f, P) /\ Total(f, P) = g[P]
  BY <1>0, SumsAre
<1>2. /\ g[{}] = 0
      /\ \A s \in SUBSET P : s # {} => g[s] = f[Pick(s)] + g[s \ {Pick(s)}]
  BY <1>0, <1>1, SumsAt
<1> DEFINE S == {s \in SUBSET P : g[s] \in Nat}
<1>3. {} \in S
  BY <1>2
<1>4. ASSUME NEW s \in SUBSET P, s # {}, s \ {Pick(s)} \in S PROVE s \in S
  <2>1. f[Pick(s)] \in Nat
    BY <1>4, PickIn
  <2>2. g[s] = f[Pick(s)] + g[s \ {Pick(s)}] /\ g[s \ {Pick(s)}] \in Nat
    BY <1>2, <1>4
  <2> QED BY <2>1, <2>2
<1>5. P \in S
  <2> HIDE DEF S
  <2> QED BY <1>3, <1>4, OverSubsets
<1> QED BY <1>1, <1>5
=============================================================================
