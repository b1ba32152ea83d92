------------------------------ MODULE FoldFacts ------------------------------
(***************************************************************************)
(* Induction over the natural numbers and what it says of FoldLeft: the    *)
(* recursive function that a fold is defined with exists.                  *)
(***************************************************************************)
EXTENDS Naturals, SequencesExt, WellFoundedInduction, TLAPS

-----------------------------------------------------------------------------
(* Induction.  The library's induction theorems take a predicate; these    *)
(* take a set, which is all that the provers need.                         *)

\* A set of naturals that is not empty has a least member.
LEMMA Least ==
    ASSUME NEW T, T \subseteq Nat, T # {}
    PROVE  \E n \in T : \A k \in T : n <= k
<1> DEFINE R == OpToRel(<, Nat)
<1>1. \E x \in T : \A y \in T : ~(<<y, x>> \in R)
  <2>1. IsWellFoundedOn(R, Nat)  BY NatLessThanWellFounded
  <2> HIDE DEF R
  <2> QED  BY <2>1, WFMin
<1>2. \A x, y \in Nat : y < x => <<y, x>> \in R
  BY DEF OpToRel
<1>3. PICK x \in T : \A y \in T : ~(<<y, x>> \in R)  BY <1>1
<1> HIDE DEF R
<1>4. \A y \in T : ~(y < x)  BY <1>2, <1>3
<1>5. \A y \in T : x <= y  BY <1>4
<1> QED  BY <1>5

\* A set that has 0 and is closed under + 1 has every natural number.
LEMMA SetInduction ==
    ASSUME NEW T, 0 \in T, \A n \in Nat : n \in T => n + 1 \in T
    PROVE  Nat \subseteq T
<1> SUFFICES ASSUME Nat \ T # {} PROVE FALSE  OBVIOUS
<1>1. PICK n \in Nat \ T : \A k \in Nat \ T : n <= k
  BY Least
<1> QED
  <2>1. n # 0  OBVIOUS
  <2>2. n - 1 \in Nat /\ n - 1 \in T  BY <1>1, <2>1
  <2> QED  BY <2>2

\* Max of a set of positions.
LEMMA MaxOf ==
    ASSUME NEW N \in Nat, NEW s \in SUBSET (1..N), s # {}
    PROVE  Max(s) \in s /\ \A k \in s : Max(s) >= k
<1> DEFINE T == {N - k : k \in s}
<1>1. T \subseteq Nat /\ T # {}
  <2>1. PICK x : x \in s  OBVIOUS
  <2>2. N - x \in T  BY <2>1
  <2>3. \A k \in s : N - k \in Nat  OBVIOUS
  <2> QED  BY <2>2, <2>3
<1>2. PICK t \in T : \A u \in T : t <= u
  <2> HIDE DEF T
  <2> QED  BY <1>1, Least
<1>3. PICK x \in s : t = N - x  BY <1>2
<1>4. \A k \in s : x >= k
  <2> TAKE k \in s
  <2>1. N - x <= N - k  BY <1>2, <1>3
  <2> QED  BY <2>1
<1> QED  BY <1>4 DEF Max

\* The positions up to k, for the loops that are folds.
LEMMA Prefix ==
    ASSUME NEW k \in Nat, k > 0
    PROVE  Max(1..k) = k /\ (1..k) \ {k} = 1..k-1 /\ 1..k # {}
<1>1. 1..k # {} /\ 1..k \in SUBSET (1..k)  OBVIOUS
<1>2. Max(1..k) \in 1..k /\ \A j \in 1..k : Max(1..k) >= j  BY <1>1, MaxOf
<1>3. Max(1..k) = k  BY <1>2
<1>4. (1..k) \ {k} = 1..k-1  OBVIOUS
<1> QED  BY <1>1, <1>3, <1>4

\* iter is the recursive function that a fold of N turns evaluates, F[i] being
\* what turn i does to a value of T.
IsFold(T, base, N, F, iter) ==
    /\ iter \in [SUBSET (1..N) -> T]
    /\ \A s \in SUBSET (1..N) :
          iter[s] = IF s = {} THEN base ELSE F[Max(s)][iter[s \ {Max(s)}]]

\* There is such a function.
LEMMA FoldExists ==
    ASSUME NEW T, NEW base \in T, NEW N \in Nat, NEW F \in [1..N -> [T -> T]]
    PROVE  \E iter : IsFold(T, base, N, F, iter)
<1> DEFINE Good(n, iter) == \A s \in SUBSET (1..n) :
              iter[s] = IF s = {} THEN base ELSE F[Max(s)][iter[s \ {Max(s)}]]
           Q(n) == n <= N => \E iter \in [SUBSET (1..n) -> T] : Good(n, iter)
<1>1. Q(0)
  <2> DEFINE g == [s \in SUBSET (1..0) |-> base]
  <2>1. \A s \in SUBSET (1..0) : s = {}  OBVIOUS
  <2>2. g \in [SUBSET (1..0) -> T]  OBVIOUS
  <2>3. Good(0, g)  BY <2>1
  <2> HIDE DEF g, Good
  <2> QED  BY <2>2, <2>3
<1>2. ASSUME NEW n \in Nat, Q(n)  PROVE Q(n + 1)
  <2> HIDE DEF Good
  <2> SUFFICES ASSUME n + 1 <= N
               PROVE  \E iter \in [SUBSET (1..(n+1)) -> T] : Good(n + 1, iter)
    OBVIOUS
  <2>0. n <= N /\ n + 1 \in Nat /\ n + 1 \in 1..N  OBVIOUS
  <2>1. PICK f \in [SUBSET (1..n) -> T] : Good(n, f)  BY <1>2, <2>0
  <2> DEFINE g == [s \in SUBSET (1..(n+1)) |->
                      IF n + 1 \in s THEN F[n+1][f[s \ {n+1}]] ELSE f[s]]
  <2>2. \A s \in SUBSET (1..(n+1)) : /\ s \ {n+1} \in SUBSET (1..n)
                                   /\ n + 1 \notin s => s \in SUBSET (1..n)
    OBVIOUS
  <2>3. g \in [SUBSET (1..(n+1)) -> T]  BY <2>2, <2>0
  <2>4. Good(n + 1, g)
    <3>1. ASSUME NEW s \in SUBSET (1..(n+1)), n + 1 \in s
          PROVE  g[s] = F[Max(s)][g[s \ {Max(s)}]]
      <4>1. Max(s) \in s /\ Max(s) >= n + 1
        <5> HIDE DEF g
        <5> QED  BY <3>1, <2>0, MaxOf
      <4>2. Max(s) = n + 1
        <5>1. Max(s) \in 1..(n+1)  BY <4>1
        <5> HIDE DEF g
        <5> QED  BY <4>1, <5>1
      <4>3. g[s \ {n+1}] = f[s \ {n+1}]  BY <2>2
      <4> QED  BY <3>1, <4>2, <4>3
    <3>2. ASSUME NEW s \in SUBSET (1..(n+1)), n + 1 \notin s
          PROVE  g[s] = IF s = {} THEN base ELSE F[Max(s)][g[s \ {Max(s)}]]
      <4>1. s \in SUBSET (1..n)  BY <2>2, <3>2
      <4>2. g[s] = f[s]  BY <3>2
      <4>3. g[s \ {Max(s)}] = f[s \ {Max(s)}]  BY <3>2
      <4>4. f[s] = IF s = {} THEN base ELSE F[Max(s)][f[s \ {Max(s)}]]  BY <2>1, <4>1 DEF Good
      <4> HIDE DEF g
      <4> QED  BY <4>2, <4>3, <4>4
    <3> HIDE DEF g
    <3> QED  BY <3>1, <3>2 DEF Good
  <2> HIDE DEF g
  <2> QED  BY <2>3, <2>4
<1> HIDE DEF Q
<1> DEFINE Up == {n \in Nat : Q(n)}
<1>3. 0 \in Up /\ \A n \in Nat : n \in Up => n + 1 \in Up  BY <1>1, <1>2
<1> HIDE DEF Up
<1>4. Nat \subseteq Up  BY <1>3, SetInduction
<1>5. Q(N)  BY <1>4 DEF Up
<1>6. \E iter \in [SUBSET (1..N) -> T] : Good(N, iter)
  <2>1. N <= N  OBVIOUS
  <2> HIDE DEF Good
  <2>2. N <= N => \E iter \in [SUBSET (1..N) -> T] : Good(N, iter)  BY <1>5 DEF Q
  <2> QED  BY <2>1, <2>2
<1> QED  BY <1>6 DEF IsFold
=============================================================================
