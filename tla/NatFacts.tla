------------------------------ MODULE NatFacts ------------------------------
(* Facts about the naturals that the proofs need of sets rather than of     *)
(* predicates: least and greatest elements, which strlen and the searches   *)
(* look for, induction, and what a function defined by recursion along a    *)
(* loop computes.  They come from the well-foundedness of "<".              *)
EXTENDS Integers, FiniteSetsExt, WellFoundedInduction, TLAPS

\* A nonempty set of naturals has a least element: a search upwards from 0 through a
\* set that is not empty stops (strlen, the search for a pid, the search for a byte).
LEMMA LeastNatural ==
  ASSUME NEW S, S \subseteq Nat, S # {}
  PROVE  \E m \in S : \A k \in S : m <= k
<1>. DEFINE below == OpToRel(<, Nat)
<1>1. IsWellFoundedOn(below, Nat)
  BY NatLessThanWellFounded
<1>2. \A x, y \in Nat : <<x, y>> \in below <=> x < y
  BY DEF OpToRel
<1>. HIDE DEF below
<1>3. PICK m \in S : \A k \in S : ~(<<k, m>> \in below)
  BY <1>1, WFMin
<1>4. \A k \in S : ~(k < m)
  BY <1>2, <1>3
<1>. QED  BY <1>4

\* Min of a set of naturals is its least element.
LEMMA MinIsLeast ==
  ASSUME NEW S, S \subseteq Nat, S # {}
  PROVE  Min(S) \in S /\ \A k \in S : Min(S) <= k
<1>1. \E m \in S : \A k \in S : m <= k
  BY LeastNatural, Zenon
<1>. QED  BY <1>1 DEF Min

\* Max of a bounded set of naturals is its greatest element.
LEMMA MaxIsGreatest ==
  ASSUME NEW N \in Nat, NEW S, S \subseteq 0..N, S # {}
  PROVE  Max(S) \in S /\ \A k \in S : k <= Max(S)
<1>. DEFINE D == {N - k : k \in S}
<1>1. D \subseteq Nat /\ D # {}
  <2>1. \A k \in S : N - k \in Nat
    OBVIOUS
  <2>2. PICK k : k \in S
    OBVIOUS
  <2>. QED  BY <2>1, <2>2
<1>. HIDE DEF D
<1>2. PICK m \in D : \A k \in D : m <= k
  BY <1>1, LeastNatural, Zenon
<1>3. PICK x \in S : m = N - x
  BY <1>2 DEF D
<1>4. \A k \in S : N - k \in D
  BY DEF D
<1>5. \A k \in S : k <= x
  BY <1>2, <1>3, <1>4
<1>6. \E y \in S : \A k \in S : y >= k
  BY <1>3, <1>5
<1>. QED  BY <1>6 DEF Max

\* A set that holds 0 and with n also n + 1 holds every natural: what each pass of a
\* loop keeps holds after any number of passes.
LEMMA SetInduction ==
  ASSUME NEW S, 0 \in S, \A n \in Nat : n \in S => n + 1 \in S
  PROVE  Nat \subseteq S
<1>. SUFFICES ASSUME Nat \ S # {} PROVE FALSE
  OBVIOUS
<1>1. PICK m \in Nat \ S : \A k \in Nat \ S : m <= k
  BY LeastNatural, Zenon
<1>2. m # 0
  BY <1>1
<1>3. m - 1 \in Nat /\ m - 1 \in S
  BY <1>1, <1>2
<1>. QED  BY <1>1, <1>3

\* The values f that a loop of N passes computes: it starts at h, and G computes the value
\* after each pass from the one before.
Computes(f, N, h, G) == f[0] = h /\ \A k \in 1..N : f[k] = G[<<k, f[k - 1]>>]

\* Every loop computes something.
LEMMA RecursionDefines ==
  ASSUME NEW N \in Nat, NEW S, NEW h \in S, NEW G \in [(1..N) \X S -> S]
  PROVE  \E f \in [0..N -> S] : Computes(f, N, h, G)
<1>. DEFINE Solves(f, n) == f[0] = h /\ \A k \in 1..n : f[k] = G[<<k, f[k - 1]>>]
<1>. DEFINE T == {n \in Nat : n <= N => \E f \in [0..n -> S] : Solves(f, n)}
<1>1. 0 \in T
  <2>1. [k \in 0..0 |-> h] \in [0..0 -> S]
    OBVIOUS
  <2>2. Solves([k \in 0..0 |-> h], 0)
    OBVIOUS
  <2>. HIDE DEF Solves
  <2>. QED  BY <2>1, <2>2
<1>2. ASSUME NEW n \in Nat, n \in T PROVE n + 1 \in T
  <2>. SUFFICES ASSUME n + 1 <= N PROVE \E f \in [0..(n + 1) -> S] : Solves(f, n + 1)
    OBVIOUS
  <2>1. PICK f \in [0..n -> S] : Solves(f, n)
    BY <1>2
  <2>2. PICK v : v = G[<<n + 1, f[n]>>]
    OBVIOUS
  <2>3. v \in S
    <3>1. <<n + 1, f[n]>> \in (1..N) \X S
      OBVIOUS
    <3>. QED  BY <2>2, <3>1
  <2>4. PICK g : g = [k \in 0..(n + 1) |-> IF k = n + 1 THEN v ELSE f[k]]
    OBVIOUS
  <2>5. g \in [0..(n + 1) -> S]
    BY <2>3, <2>4
  <2>6. g[0] = h /\ g[n + 1] = v /\ g[n] = f[n]
    BY <2>1, <2>4
  <2>7. ASSUME NEW k \in 1..(n + 1) PROVE g[k] = G[<<k, g[k - 1]>>]
    <3>1. CASE k = n + 1
      BY <2>2, <2>6, <3>1
    <3>2. CASE k # n + 1
      <4>1. g[k] = f[k] /\ g[k - 1] = f[k - 1] /\ k \in 1..n
        BY <2>4, <3>2
      <4>. QED  BY <2>1, <4>1
    <3>. QED  BY <3>1, <3>2
  <2>. QED  BY <2>5, <2>6, <2>7
<1>. HIDE DEF T
<1>3. N \in T
  BY <1>1, <1>2, SetInduction
<1>. QED  BY <1>3 DEF T, Computes
=============================================================================
