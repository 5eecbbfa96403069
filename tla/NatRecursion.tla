---------------------------- MODULE NatRecursion ----------------------------
(***************************************************************************)
(* Induction and recursion in a first-order form, with sets in the place   *)
(* of predicates: induction over the naturals, minimal elements of a       *)
(* family of subsets, and the function a recursion over the naturals       *)
(* defines.  The proofs about walks over the ring and about the red-black  *)
(* trees rest on these.                                                    *)
(***************************************************************************)
EXTENDS Integers, TLAPS, WellFoundedInduction, FiniteSetTheorems

\* The order of the naturals, as a set of pairs, is well founded.
LEMMA LessWellFounded == IsWellFoundedOn({ss \in Nat \X Nat : ss[1] < ss[2]}, Nat)
BY NatLessThanWellFounded DEF OpToRel

\* Induction: a set that holds 0 and successors holds every natural.
LEMMA SetInduction ==
  ASSUME NEW S, 0 \in S, \A n \in Nat : n \in S => n + 1 \in S
  PROVE  Nat \subseteq S
<1> DEFINE R == {ss \in Nat \X Nat : ss[1] < ss[2]}
           T == Nat \ S
<1> SUFFICES ASSUME T # {} PROVE FALSE
  OBVIOUS
<1>1. IsWellFoundedOn(R, Nat)
  BY LessWellFounded
<1>2. T \subseteq Nat
  OBVIOUS
<1> HIDE DEF R
<1>3. PICK x \in T : \A y \in T : ~(<<y, x>> \in R)
  BY <1>1, <1>2, WFMin
<1>4. x # 0 /\ x - 1 \in Nat
  BY <1>3
<1>5. <<x - 1, x>> \in R
  <2>1. <<x - 1, x>> \in Nat \X Nat /\ x - 1 < x
    BY <1>3, <1>4
  <2> QED
    BY <2>1 DEF R
<1>6. x - 1 \notin T
  BY <1>3, <1>5
<1> QED
  BY <1>3, <1>4, <1>6

\* A family of subsets of a finite set has a minimal member.
LEMMA MinimalSubset ==
  ASSUME NEW L, IsFiniteSet(L), NEW T, T \subseteq SUBSET L, T # {}
  PROVE  \E x \in T : \A y \in T : y \subseteq x => y = x
<1>1. IsWellFoundedOn(StrictSubsetOrdering(L), FiniteSubsetsOf(L))
  BY FS_StrictSubsetOrderingWellFounded
<1>2. \A x \in SUBSET L : IsFiniteSet(x)
  BY FS_Subset
<1>3. T \subseteq FiniteSubsetsOf(L)
  BY <1>2 DEF FiniteSubsetsOf
<1>4. PICK x \in T : \A y \in T : ~(<<y, x>> \in StrictSubsetOrdering(L))
  BY <1>1, <1>3, WFMin
<1>5. ASSUME NEW y \in T, y \subseteq x, y # x PROVE FALSE
  <2>1. <<y, x>> \in (SUBSET L) \X (SUBSET L)
    BY <1>4, <1>5
  <2>2. <<y, x>> \in StrictSubsetOrdering(L)
    BY <2>1, <1>5 DEF StrictSubsetOrdering
  <2> QED
    BY <1>4, <2>2
<1> QED
  BY <1>4, <1>5

\* f[n] is the value after n repetitions of step F from f0.
Iterates(f, S, f0, F) ==
  f \in [Nat -> S] /\ f[0] = f0 /\ \A n \in Nat : f[n + 1] = F[f[n]]

\* Repeating a step from an initial value defines a function of the number
\* of repetitions.
LEMMA Iteration ==
  ASSUME NEW S, NEW f0 \in S, NEW F \in [S -> S]
  PROVE  \E f : Iterates(f, S, f0, F)
<1> DEFINE Runs(k) == {g \in [0..k -> S] : g[0] = f0 /\ \A i \in 0..(k - 1) : g[i + 1] = F[g[i]]}
<1>a. \A k \in Nat : \A g \in Runs(k) : /\ g \in [0..k -> S] /\ g[0] = f0
                                          /\ \A i \in 0..(k - 1) : g[i + 1] = F[g[i]]
  OBVIOUS
<1>b. ASSUME NEW k \in Nat, NEW g \in [0..k -> S], g[0] = f0,
             \A i \in 0..(k - 1) : g[i + 1] = F[g[i]]
      PROVE  g \in Runs(k)
  BY <1>b
<1> HIDE DEF Runs
<1> DEFINE Some == {k \in Nat : \E g : g \in Runs(k)}
           Same == {i \in Nat : \A j, k \in Nat : \A g \in Runs(j), h \in Runs(k) :
                                  i <= j /\ i <= k => g[i] = h[i]}
<1>1. 0 \in Some
  <2>1. [i \in 0..0 |-> f0] \in Runs(0)
    BY DEF Runs
  <2> QED
    BY <2>1
<1>2. ASSUME NEW n \in Nat, n \in Some PROVE n + 1 \in Some
  <2>1. PICK g : g \in Runs(n)
    BY <1>2
  <2>2. [i \in 0..(n + 1) |-> IF i = n + 1 THEN F[g[n]] ELSE g[i]] \in Runs(n + 1)
    <3> DEFINE h == [i \in 0..(n + 1) |-> IF i = n + 1 THEN F[g[n]] ELSE g[i]]
    <3>1. g \in [0..n -> S] /\ g[n] \in S /\ F[g[n]] \in S
      BY <2>1, <1>a
    <3>2. h \in [0..(n + 1) -> S]
      BY <3>1
    <3>3. h[0] = f0
      BY <2>1, <1>a
    <3>4. ASSUME NEW i \in 0..n PROVE h[i + 1] = F[h[i]]
      <4>1. CASE i = n
        BY <4>1
      <4>2. CASE i # n
        BY <4>2, <2>1, <1>a
      <4> QED
        BY <4>1, <4>2
    <3> HIDE DEF h
    <3>5. n + 1 \in Nat /\ 0..n = 0..((n + 1) - 1)
      OBVIOUS
    <3>6. h \in Runs(n + 1)
      BY <3>2, <3>3, <3>4, <3>5, <1>b
    <3> QED
      BY <3>6 DEF h
  <2> QED
    BY <2>2
<1>3. Nat \subseteq Some
  <2> HIDE DEF Some
  <2> QED
    BY <1>1, <1>2, SetInduction
<1>4. 0 \in Same
  BY <1>a
<1>5. ASSUME NEW n \in Nat, n \in Same PROVE n + 1 \in Same
  <2> SUFFICES ASSUME NEW j \in Nat, NEW k \in Nat, NEW g \in Runs(j), NEW h \in Runs(k),
                      n + 1 <= j, n + 1 <= k
               PROVE  g[n + 1] = h[n + 1]
    OBVIOUS
  <2>1. g[n] = h[n]
    BY <1>5
  <2>2. g[n + 1] = F[g[n]] /\ h[n + 1] = F[h[n]]
    BY <1>a
  <2> QED
    BY <2>1, <2>2
<1>6. Nat \subseteq Same
  <2> HIDE DEF Same
  <2> QED
    BY <1>4, <1>5, SetInduction
<1> DEFINE run(k) == CHOOSE g : g \in Runs(k)
           f == [k \in Nat |-> run(k)[k]]
<1>7. \A k \in Nat : run(k) \in Runs(k)
  BY <1>3
<1>8. \A k \in Nat : run(k)[k] \in S
  <2> HIDE DEF run
  <2> QED
    BY <1>7, <1>a
<1>9. f \in [Nat -> S]
  BY <1>8
<1>10. f[0] = f0
  <2>1. run(0) \in Runs(0)
    BY <1>7
  <2> HIDE DEF run
  <2> QED
    BY <2>1, <1>a
<1>11. ASSUME NEW n \in Nat PROVE f[n + 1] = F[f[n]]
  <2>1. run(n) \in Runs(n) /\ run(n + 1) \in Runs(n + 1) /\ n \in Same
    <3> HIDE DEF run, Same
    <3> QED
      BY <1>6, <1>7
  <2> HIDE DEF run
  <2>2. run(n + 1)[n + 1] = F[run(n + 1)[n]]
    BY <2>1, <1>a
  <2>3. run(n)[n] = run(n + 1)[n]
    BY <2>1
  <2> QED
    BY <2>2, <2>3
<1> QED
  BY <1>9, <1>10, <1>11 DEF Iterates
=============================================================================
