--------------------------- MODULE CountingProofs ---------------------------
(***************************************************************************)
(* Induction over the naturals for proofs about functions defined by       *)
(* recursion.  Shifting a set that is closed under +1 and ends before n    *)
(* would map it into itself without 0, against the pigeon-hole principle.  *)
(***************************************************************************)
EXTENDS Integers, FiniteSetTheorems, TLAPS

\* The predicate is a set.
LEMMA CountingUp ==
    ASSUME NEW T \in SUBSET Nat, 0 \in T, \A n \in T : n + 1 \in T
    PROVE  T = Nat
  <1>1. SUFFICES ASSUME NEW n \in Nat, n \notin T PROVE FALSE
    OBVIOUS
  <1>. DEFINE S == T \cap (0..n)
  <1>2. IsFiniteSet(0..n) /\ S \in SUBSET (0..n)
    BY FS_Interval
  <1>3. IsFiniteSet(S)
    BY <1>2, FS_Subset
  <1>4. 0 \in S
    OBVIOUS
  <1>5. IsFiniteSet(S \ {0}) /\ Cardinality(S \ {0}) = Cardinality(S) - 1
    BY <1>3, <1>4, FS_RemoveElement
  <1>6. \A x \in S : x + 1 \in S \ {0}
    BY <1>1
  <1>. DEFINE f == [x \in S |-> x + 1]
  <1>7. f \in [S -> S \ {0}]
    BY <1>6
  <1>8. Cardinality(S) \in Nat
    BY <1>3, FS_CardinalityType
  <1>9. \E x, y \in S : x # y /\ f[x] = f[y]
    <2>. HIDE DEF S, f
    <2>1. Cardinality(S \ {0}) < Cardinality(S)
      BY <1>5, <1>8
    <2>. QED  BY <1>3, <1>5, <1>7, <2>1, FS_PigeonHole
  <1>. QED  BY <1>9

\* The same up to a bound.
LEMMA CountingTo ==
    ASSUME NEW n \in Nat, NEW T, 0 \in T,
           \A k \in 0..n - 1 : k \in T => k + 1 \in T
    PROVE  0..n \subseteq T
  <1>. DEFINE U == {k \in Nat : k <= n => k \in T}
  <1>1. 0 \in U
    OBVIOUS
  <1>2. ASSUME NEW k \in U PROVE k + 1 \in U
    BY <1>2
  <1>3. U = Nat
    <2>. HIDE DEF U
    <2>1. U \in SUBSET Nat
      BY DEF U
    <2>. QED  BY <1>1, <1>2, <2>1, CountingUp
  <1>. QED  BY <1>3

\* g starts with s0 and takes n steps of F in S.
Iterates(g, S, s0, n, F) ==
    /\ g \in [0..n -> S] /\ g[0] = s0
    /\ \A k \in 1..n : g[k] = F[g[k - 1]][k]

\* A recursion whose steps are a function has a solution, so that definitions by
\* recursion define something.
LEMMA Iteration ==
    ASSUME NEW S, NEW s0 \in S, NEW n \in Nat, NEW F \in [S -> [1..n -> S]]
    PROVE  \E g : Iterates(g, S, s0, n, F)
  <1>. DEFINE Good(m, g) == g[0] = s0 /\ \A k \in 1..m : g[k] = F[g[k - 1]][k]
              T == {m \in 0..n : \E g \in [0..m -> S] : Good(m, g)}
  <1>1. 0 \in T
    <2>. DEFINE g == [k \in 0..0 |-> s0]
    <2>1. g \in [0..0 -> S] /\ Good(0, g)
      OBVIOUS
    <2>2. \E h \in [0..0 -> S] : Good(0, h)
      BY <2>1
    <2>. QED  BY <2>2
  <1>2. ASSUME NEW m \in 0..n - 1, m \in T PROVE m + 1 \in T
    <2>1. PICK g \in [0..m -> S] : Good(m, g)
      BY <1>2
    <2>2. m + 1 \in 1..n /\ g[m] \in S
      BY <2>1
    <2>. DEFINE new == F[g[m]][m + 1]
                h == [k \in 0..m + 1 |-> IF k = m + 1 THEN new ELSE g[k]]
    <2>3. new \in S
      BY <2>2
    <2>. HIDE DEF new
    <2>4. h \in [0..m + 1 -> S]
      BY <2>3
    <2>5. h[0] = s0
      BY <2>1
    <2>6. ASSUME NEW k \in 1..m + 1 PROVE h[k] = F[h[k - 1]][k]
      <3>1. CASE k = m + 1
        <4>1. h[m + 1] = new /\ h[m] = g[m] /\ k - 1 = m
          BY <3>1
        <4>2. new = F[h[m]][k]
          BY <3>1, <4>1 DEF new
        <4>. HIDE DEF h
        <4>. QED  BY <3>1, <4>1, <4>2
      <3>2. CASE k # m + 1
        <4>1. k \in 1..m /\ h[k] = g[k] /\ h[k - 1] = g[k - 1]
          BY <3>2
        <4>. QED  BY <2>1, <4>1
      <3>. QED  BY <3>1, <3>2
    <2>7. \E e \in [0..m + 1 -> S] : Good(m + 1, e)
      <3>. HIDE DEF h
      <3>. QED  BY <2>4, <2>5, <2>6
    <2>8. m + 1 \in 0..n
      BY <2>2
    <2>. HIDE DEF Good
    <2>. QED  BY <2>7, <2>8
  <1>3. 0..n \subseteq T
    <2>. HIDE DEF T
    <2>. QED  BY <1>1, <1>2, CountingTo
  <1>4. n \in T
    BY <1>3
  <1>. QED  BY <1>4 DEF Iterates
=============================================================================
