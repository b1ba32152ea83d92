------------------------ MODULE CertificationProofs ------------------------
(***************************************************************************)
(* Proofs about a certification run: the loops over levels and manifests   *)
(* compute what they should for every manifest, and what every reachable   *)
(* state of a run says of its documents.                                   *)
(***************************************************************************)
EXTENDS Certification, FoldFacts

-----------------------------------------------------------------------------
(* The loops of the model.                                                 *)

\* FirstSeen, turn by turn.
LEMMA FirstSeenTurns ==
    ASSUME NEW S, NEW U, NEW seq \in Seq(U)
    PROVE  \E turn \in [0..Len(seq) -> Seq(S)] :
              /\ turn[0] = <<>>
              /\ \A i \in 1..Len(seq) : turn[i] = See(S, turn[i-1], seq[i])
              /\ FirstSeen(S, seq) = turn[Len(seq)]
<1> DEFINE N == Len(seq)
           F == [i \in 1..N |-> [seen \in Seq(S) |-> See(S, seen, seq[i])]]
           Turns(iter) == [s \in SUBSET DOMAIN seq |->
                              IF s = {} THEN <<>>
                              ELSE See(S, iter[s \ {Max(s)}], seq[Max(s)])]
<1>0. N \in Nat /\ DOMAIN seq = 1..N /\ <<>> \in Seq(S)  OBVIOUS
<1>1. F \in [1..N -> [Seq(S) -> Seq(S)]]  BY DEF See
<1>2. PICK it : IsFold(Seq(S), <<>>, N, F, it)
  <2> HIDE DEF F, N
  <2> QED  BY <1>0, <1>1, FoldExists
<1>3. it = Turns(it)
  <2>1. ASSUME NEW s \in SUBSET (1..N), s # {}
        PROVE  it[s] = See(S, it[s \ {Max(s)}], seq[Max(s)])
    <3>1. Max(s) \in 1..N
      <4> HIDE DEF N
      <4> QED  BY <1>0, <2>1, MaxOf
    <3>2. it[s \ {Max(s)}] \in Seq(S)  BY <1>2 DEF IsFold
    <3>3. F[Max(s)][it[s \ {Max(s)}]] = See(S, it[s \ {Max(s)}], seq[Max(s)])  BY <3>1, <3>2
    <3> HIDE DEF F, N
    <3> QED  BY <1>2, <2>1, <3>3 DEF IsFold
  <2> HIDE DEF F, N
  <2>2. DOMAIN it = SUBSET (1..N) /\ it = [s \in SUBSET (1..N) |-> it[s]]  BY <1>2 DEF IsFold
  <2>3. \A s \in SUBSET (1..N) : it[s] = IF s = {} THEN <<>>
                                         ELSE See(S, it[s \ {Max(s)}], seq[Max(s)])
    BY <1>2, <2>1 DEF IsFold
  <2> QED  BY <1>0, <2>2, <2>3
<1> DEFINE iter == CHOOSE g : g = Turns(g)
<1>4. iter = Turns(iter)  BY <1>3
<1>5. FirstSeen(S, seq) = iter[1..N]
  BY <1>0 DEF FirstSeen, FoldLeft, MapThenFoldSet
<1> HIDE DEF iter
<1> DEFINE turn == [i \in 0..N |-> iter[1..i]]
<1>6. turn[0] = <<>>
  <2>1. iter[{}] = <<>>  BY <1>4
  <2> QED  BY <2>1, 1..0 = {}
<1>7. ASSUME NEW i \in 1..N  PROVE turn[i] = See(S, turn[i-1], seq[i])
  <2>1. Max(1..i) = i /\ (1..i) \ {i} = 1..i-1 /\ 1..i # {}  BY Prefix
  <2>2. iter[1..i] = See(S, iter[(1..i) \ {Max(1..i)}], seq[Max(1..i)])
    <3>1. 1..i \in SUBSET DOMAIN seq  OBVIOUS
    <3> QED  BY <1>4, <2>1, <3>1
  <2>3. i \in 0..N /\ i - 1 \in 0..N  BY <1>0
  <2>4. turn[i] = iter[1..i] /\ turn[i-1] = iter[1..i-1]  BY <2>3
  <2> HIDE DEF turn
  <2> QED  BY <2>1, <2>2, <2>4
<1> HIDE DEF turn
<1> DEFINE Up == {n \in Nat : n <= N => turn[n] \in Seq(S)}
<1>8. Nat \subseteq Up
  <2>1. 0 \in Up  BY <1>0, <1>6
  <2>2. ASSUME NEW n \in Nat, n \in Up  PROVE n + 1 \in Up
    <3> SUFFICES ASSUME n + 1 <= N  PROVE turn[n+1] \in Seq(S)  OBVIOUS
    <3>1. turn[n] \in Seq(S)  BY <2>2
    <3>2. turn[n+1] = See(S, turn[n], seq[n+1])
      <4>1. n + 1 \in 1..N /\ (n + 1) - 1 = n  OBVIOUS
      <4> QED  BY <1>7, <4>1
    <3> QED  BY <3>1, <3>2 DEF See
  <2> HIDE DEF Up
  <2> QED  BY <2>1, <2>2, SetInduction
<1>9. turn \in [0..N -> Seq(S)]
  <2>1. \A n \in 0..N : turn[n] \in Seq(S)  BY <1>8
  <2>2. turn = [i \in 0..N |-> turn[i]]  BY DEF turn
  <2> QED  BY <2>1, <2>2
<1> QED
  <2>1. turn[N] = iter[1..N]  BY <1>0 DEF turn
  <2> HIDE DEF N
  <2> QED  BY <1>5, <1>6, <1>7, <1>9, <2>1 DEF N

\* seen holds the members of S among the first n of seq, in the order in which
\* they first appear: a later one never stands before an earlier one did.
SeenUpTo(S, seq, n, seen) ==
    /\ seen \in Seq(S)
    /\ \A k \in 1..n : seq[k] \in S => \E i \in 1..Len(seen) : seen[i] = seq[k]
    /\ \A i \in 1..Len(seen) : \E k \in 1..n : seq[k] = seen[i]
    /\ \A j \in 1..Len(seen) : \A i \in 1..j-1 : \A a \in 1..n :
           seq[a] = seen[j] => \E b \in 1..a-1 : seq[b] = seen[i]

\* What FirstSeen returns.
LEMMA FirstSeenFacts ==
    ASSUME NEW S, NEW U, NEW seq \in Seq(U)
    PROVE  SeenUpTo(S, seq, Len(seq), FirstSeen(S, seq))
<1> DEFINE N == Len(seq)
<1>0. N \in Nat  OBVIOUS
<1>1. PICK turn \in [0..N -> Seq(S)] :
          /\ turn[0] = <<>>
          /\ \A i \in 1..N : turn[i] = See(S, turn[i-1], seq[i])
          /\ FirstSeen(S, seq) = turn[N]
  BY FirstSeenTurns
<1> DEFINE P(n) == SeenUpTo(S, seq, n, turn[n])
           Up   == {n \in Nat : n <= N => P(n)}
<1>2. P(0)  BY <1>1 DEF SeenUpTo
<1>3. ASSUME NEW n \in Nat, n + 1 <= N, P(n)  PROVE P(n + 1)
  <2> DEFINE t == turn[n]  u == turn[n+1]  x == seq[n+1]
  <2>0. n \in 0..N /\ n + 1 \in 1..N /\ (n + 1) - 1 = n  BY <1>0, <1>3
  <2>1. t \in Seq(S) /\ u = See(S, t, x)  BY <1>1, <2>0
  <2>2. SeenUpTo(S, seq, n, t)  BY <1>3
  <2> HIDE DEF t, u, x, N, P
  <2>3. \A k \in 1..(n+1) : k \in 1..n \/ (k = n + 1 /\ seq[k] = x)  BY DEF x
  <2>4. CASE x \in S /\ ~Contains(t, x)
    <3>1. u = Append(t, x)  BY <2>1, <2>4 DEF See
    <3>2. /\ u \in Seq(S) /\ Len(u) = Len(t) + 1 /\ u[Len(t) + 1] = x /\ Len(t) \in Nat
          /\ \A i \in 1..Len(t) : u[i] = t[i]
      BY <2>1, <2>4, <3>1
    <3>3. \A i \in 1..Len(t) : t[i] # x  BY <2>4 DEF Contains
    <3>4. \A i \in 1..Len(u) : i \in 1..Len(t) \/ i = Len(t) + 1  BY <3>2
    <3>5. ASSUME NEW k \in 1..(n+1), seq[k] \in S
          PROVE  \E i \in 1..Len(u) : u[i] = seq[k]
      <4>1. CASE k \in 1..n
        <5>1. PICK i \in 1..Len(t) : t[i] = seq[k]  BY <2>2, <3>5, <4>1 DEF SeenUpTo
        <5> QED  BY <3>2, <5>1
      <4>2. CASE k = n + 1 /\ seq[k] = x  BY <3>2, <4>2
      <4> QED  BY <2>3, <4>1, <4>2
    <3>6. ASSUME NEW i \in 1..Len(u)  PROVE \E k \in 1..(n+1) : seq[k] = u[i]
      <4>1. CASE i \in 1..Len(t)
        <5>1. PICK k \in 1..n : seq[k] = t[i]  BY <2>2, <4>1 DEF SeenUpTo
        <5> QED  BY <3>2, <4>1, <5>1
      <4>2. CASE i = Len(t) + 1  BY <3>2, <4>2 DEF x
      <4> QED  BY <3>4, <4>1, <4>2
    <3>7. ASSUME NEW j \in 1..Len(u), NEW i \in 1..j-1, NEW a \in 1..(n+1), seq[a] = u[j]
          PROVE  \E b \in 1..a-1 : seq[b] = u[i]
      <4>1. i \in 1..Len(t) /\ u[i] = t[i]  BY <3>2, <3>4
      <4>2. PICK k \in 1..n : seq[k] = t[i]  BY <2>2, <4>1 DEF SeenUpTo
      <4>3. CASE j \in 1..Len(t)
        <5>1. u[j] = t[j] /\ t[j] # x  BY <3>2, <3>3, <4>3
        <5>2. a \in 1..n  BY <2>3, <3>7, <5>1
        <5> QED  BY <2>2, <3>7, <4>1, <4>3, <5>1, <5>2 DEF SeenUpTo
      <4>4. CASE j = Len(t) + 1
        <5>1. seq[a] = x  BY <3>2, <3>7, <4>4
        <5>2. a \notin 1..n
          <6> SUFFICES ASSUME a \in 1..n  PROVE FALSE  OBVIOUS
          <6>1. PICK l \in 1..Len(t) : t[l] = seq[a]  BY <2>2, <2>4, <5>1 DEF SeenUpTo
          <6> QED  BY <3>3, <5>1, <6>1
        <5>3. a = n + 1  BY <5>2
        <5> QED  BY <4>1, <4>2, <5>3
      <4> QED  BY <3>4, <4>3, <4>4
    <3>8. SeenUpTo(S, seq, n + 1, u)  BY <3>2, <3>5, <3>6, <3>7 DEF SeenUpTo
    <3> QED  BY <3>8 DEF P, u
  <2>5. CASE ~(x \in S /\ ~Contains(t, x))
    <3>1. u = t  BY <2>1, <2>5 DEF See
    <3>2. x \in S => \E i \in 1..Len(t) : t[i] = x  BY <2>5 DEF Contains
    <3>3. ASSUME NEW k \in 1..(n+1), seq[k] \in S
          PROVE  \E i \in 1..Len(t) : t[i] = seq[k]
      BY <2>2, <2>3, <3>2, <3>3 DEF SeenUpTo
    <3>4. ASSUME NEW i \in 1..Len(t)  PROVE \E k \in 1..(n+1) : seq[k] = t[i]
      <4>1. PICK k \in 1..n : seq[k] = t[i]  BY <2>2 DEF SeenUpTo
      <4> QED  BY <4>1
    <3>5. ASSUME NEW j \in 1..Len(t), NEW i \in 1..j-1, NEW a \in 1..(n+1), seq[a] = t[j]
          PROVE  \E b \in 1..a-1 : seq[b] = t[i]
      <4>1. CASE a \in 1..n  BY <2>2, <3>5, <4>1 DEF SeenUpTo
      <4>2. CASE a = n + 1
        <5>1. PICK k \in 1..n : seq[k] = t[j]  BY <2>2 DEF SeenUpTo
        <5>2. PICK b \in 1..k-1 : seq[b] = t[i]  BY <2>2, <5>1 DEF SeenUpTo
        <5> QED  BY <4>2, <5>2
      <4> QED  BY <2>3, <4>1, <4>2
    <3>6. SeenUpTo(S, seq, n + 1, t)  BY <2>1, <3>3, <3>4, <3>5 DEF SeenUpTo
    <3> QED  BY <3>1, <3>6 DEF P, u
  <2> QED  BY <2>4, <2>5
<1> HIDE DEF P
<1>4. 0 \in Up /\ \A n \in Nat : n \in Up => n + 1 \in Up  BY <1>0, <1>2, <1>3
<1> HIDE DEF Up
<1>5. Nat \subseteq Up  BY <1>4, SetInduction
<1>6. P(N)  BY <1>0, <1>5 DEF Up
<1> QED  BY <1>1, <1>6 DEF P

-----------------------------------------------------------------------------
(* Levels.                                                                 *)

\* The manifests that the lemmas are about.
IsManifest(man) ==
    /\ man.tests \in Seq(Levels \cup {NoLevel})
    /\ man.cap \in Levels \cup {NoLevel}

\* A test that has the level of test k has a first one.
LEMMA RankFacts ==
    ASSUME NEW man, IsManifest(man), NEW k \in DOMAIN man.tests
    PROVE  /\ Rank(man, man.tests[k]) \in 1..k
           /\ man.tests[Rank(man, man.tests[k])] = man.tests[k]
           /\ \A j \in 1..Rank(man, man.tests[k]) - 1 : man.tests[j] # man.tests[k]
<1> DEFINE T == {j \in DOMAIN man.tests : man.tests[j] = man.tests[k]}
           l == man.tests[k]
<1>0. DOMAIN man.tests = 1..Len(man.tests) /\ Len(man.tests) \in Nat
  BY DEF IsManifest
<1>1. T \subseteq Nat /\ T # {}  BY <1>0
<1>2. PICK n \in T : \A j \in T : n <= j
  <2> HIDE DEF T
  <2> QED  BY <1>1, Least
<1>3. /\ n \in DOMAIN man.tests /\ man.tests[n] = l
      /\ \A j \in 1..n-1 : man.tests[j] # l
  BY <1>0, <1>2
<1>4. ASSUME NEW r \in DOMAIN man.tests, man.tests[r] = l,
             \A j \in 1..r-1 : man.tests[j] # l
      PROVE  r = n
  <2>1. r >= n  BY <1>2, <1>4
  <2>2. ~(n <= r - 1)  BY <1>0, <1>3, <1>4
  <2> QED  BY <1>0, <1>3, <2>1, <2>2
<1>5. Rank(man, l) = n
  <2> HIDE DEF l, T
  <2> QED  BY <1>3, <1>4 DEF Rank
<1>6. n <= k  BY <1>0, <1>2
<1> QED  BY <1>0, <1>3, <1>5, <1>6

\* AllLevels has every level of the tests once, by rank.
LEMMA LevelFacts ==
    ASSUME NEW man, IsManifest(man)
    PROVE  LET L == AllLevels(man)
           IN  /\ L \in Seq(Levels)
               /\ \A k \in DOMAIN man.tests : man.tests[k] # NoLevel =>
                      \E i \in 1..Len(L) : L[i] = man.tests[k]
               /\ \A i \in 1..Len(L) : \E k \in DOMAIN man.tests : man.tests[k] = L[i]
               /\ \A i, j \in 1..Len(L) : i < j => Rank(man, L[i]) < Rank(man, L[j])
               /\ \A i \in 1..Len(L) : Rank(man, L[i]) \in Nat
<1> DEFINE L == AllLevels(man)
<1>0. DOMAIN man.tests = 1..Len(man.tests) /\ Len(man.tests) \in Nat
  BY DEF IsManifest
<1>1. SeenUpTo(Levels, man.tests, Len(man.tests), L)
  BY FirstSeenFacts DEF IsManifest, AllLevels
<1> HIDE DEF L
<1>2. L \in Seq(Levels)  BY <1>1 DEF SeenUpTo
<1>3. ASSUME NEW k \in DOMAIN man.tests, man.tests[k] # NoLevel
      PROVE  \E i \in 1..Len(L) : L[i] = man.tests[k]
  <2>1. man.tests[k] \in Levels  BY <1>3 DEF IsManifest
  <2> QED  BY <1>0, <1>1, <2>1 DEF SeenUpTo
<1>4. ASSUME NEW i \in 1..Len(L)  PROVE \E k \in DOMAIN man.tests : man.tests[k] = L[i]
  BY <1>0, <1>1 DEF SeenUpTo
<1>5. ASSUME NEW i \in 1..Len(L)
      PROVE  Rank(man, L[i]) \in DOMAIN man.tests /\ man.tests[Rank(man, L[i])] = L[i]
  <2>1. PICK k \in DOMAIN man.tests : man.tests[k] = L[i]  BY <1>4
  <2>2. Rank(man, L[i]) \in 1..k /\ man.tests[Rank(man, L[i])] = L[i]  BY <2>1, RankFacts
  <2> QED  BY <1>0, <2>2
<1>6. ASSUME NEW i \in 1..Len(L), NEW j \in 1..Len(L), i < j
      PROVE  Rank(man, L[i]) < Rank(man, L[j])
  <2> DEFINE a == Rank(man, L[j])
  <2>1. a \in 1..Len(man.tests) /\ man.tests[a] = L[j]  BY <1>0, <1>5
  <2> HIDE DEF a
  <2>2. i \in 1..j-1  BY <1>2, <1>6
  <2>3. PICK b \in 1..a-1 : man.tests[b] = L[i]  BY <1>1, <2>1, <2>2 DEF SeenUpTo
  <2>4. b \in DOMAIN man.tests  BY <1>0, <2>1
  <2>5. Rank(man, L[i]) \in 1..b  BY <2>3, <2>4, RankFacts
  <2> QED  BY <2>1, <2>3, <2>5 DEF a
<1> QED
  <2>1. \A i \in 1..Len(L) : Rank(man, L[i]) \in Nat  BY <1>0, <1>5
  <2> QED  BY <1>2, <1>3, <1>4, <1>6, <2>1 DEF L

\* The position of a level of the list.
LEMMA PositionFacts ==
    ASSUME NEW man, IsManifest(man), NEW i \in 1..Len(AllLevels(man))
    PROVE  Position(man, AllLevels(man)[i]) = i
<1> DEFINE L == AllLevels(man)
<1>1. /\ L \in Seq(Levels)
      /\ \A a, b \in 1..Len(L) : a < b => Rank(man, L[a]) < Rank(man, L[b])
      /\ \A a \in 1..Len(L) : Rank(man, L[a]) \in Nat
  BY LevelFacts
<1> HIDE DEF L
<1>2. DOMAIN L = 1..Len(L) /\ i \in 1..Len(L)  BY <1>1 DEF L
<1>3. ASSUME NEW k \in DOMAIN L, L[k] = L[i]  PROVE k = i
  <2>1. ~(k < i) /\ ~(i < k)  BY <1>1, <1>2, <1>3
  <2> QED  BY <1>1, <1>2, <2>1
<1>4. Position(man, L[i]) = i  BY <1>2, <1>3 DEF Position, L
<1> QED  BY <1>4 DEF L

-----------------------------------------------------------------------------
(* The certified level.                                                    *)

\* What the loop of _highest_certified_level carries.
Walks     == [highest : Levels \cup {NoLevel}, broken : BOOLEAN]
WalkStart == [highest |-> NoLevel, broken |-> FALSE]

\* All tests of the level that ran passed, and one did run.
Clean(man, res, level) == ResultsAt(man, res, level) = {"pass"}

\* Where the walk is behind n levels: the first p are clean and the next is not.
WalkedTo(man, res, n, acc) ==
    \E p \in 0..n :
        /\ \A i \in 1..p : Clean(man, res, AllLevels(man)[i])
        /\ acc.highest = IF p = 0 THEN NoLevel ELSE AllLevels(man)[p]
        /\ acc.broken => p < n /\ ~Clean(man, res, AllLevels(man)[p + 1])
        /\ ~acc.broken => p = n

\* The value of the loop of _highest_certified_level.
Walked(man, res) ==
    FoldLeft(LAMBDA acc, l : Walk(man, res, acc, l), WalkStart, AllLevels(man))

\* One turn of the loop.
LEMMA WalkTurn ==
    ASSUME NEW man, NEW res, IsManifest(man), NEW n \in Nat, n + 1 <= Len(AllLevels(man)),
           NEW acc \in Walks, WalkedTo(man, res, n, acc)
    PROVE  LET next == Walk(man, res, acc, AllLevels(man)[n + 1])
           IN  next \in Walks /\ WalkedTo(man, res, n + 1, next)
<1> DEFINE L == AllLevels(man)
           next == Walk(man, res, acc, L[n + 1])
<1>0. L \in Seq(Levels) /\ n + 1 \in 1..Len(L) /\ L[n + 1] \in Levels
  <2>1. L \in Seq(Levels)  BY LevelFacts
  <2> HIDE DEF L
  <2>2. n + 1 \in 1..Len(L)  BY <2>1 DEF L
  <2> QED  BY <2>1, <2>2
<1>1. PICK p \in 0..n :
        /\ \A i \in 1..p : Clean(man, res, L[i])
        /\ acc.highest = IF p = 0 THEN NoLevel ELSE L[p]
        /\ acc.broken => p < n /\ ~Clean(man, res, L[p + 1])
        /\ ~acc.broken => p = n
  BY DEF WalkedTo
<1> HIDE DEF L
<1>2. CASE acc.broken
  <2>1. next = [acc EXCEPT !.broken = TRUE]  BY <1>2 DEF Walk
  <2>2. next = acc  BY <1>2, <2>1 DEF Walks
  <2>3. WalkedTo(man, res, n + 1, acc)
    <3>1. p \in 0..(n + 1) /\ p < n + 1  OBVIOUS
    <3> QED  BY <1>1, <1>2, <3>1 DEF WalkedTo, L
  <2> HIDE DEF next
  <2> QED  BY <2>2, <2>3 DEF next, L
<1>3. CASE ~acc.broken /\ ~Clean(man, res, L[n + 1])
  <2>1. next = [acc EXCEPT !.broken = TRUE]  BY <1>3 DEF Walk, Clean
  <2>2. next \in Walks /\ next.broken /\ next.highest = acc.highest  BY <2>1 DEF Walks
  <2> HIDE DEF next
  <2>3. p = n /\ p \in 0..(n + 1) /\ p < n + 1  BY <1>1, <1>3
  <2>4. WalkedTo(man, res, n + 1, next)  BY <1>1, <1>3, <2>2, <2>3 DEF WalkedTo, L
  <2> QED  BY <2>2, <2>4 DEF next, L
<1>4. CASE ~acc.broken /\ Clean(man, res, L[n + 1])
  <2>1. next = [acc EXCEPT !.highest = L[n + 1]]  BY <1>4 DEF Walk, Clean
  <2>2. next \in Walks /\ ~next.broken /\ next.highest = L[n + 1]
    BY <1>0, <1>4, <2>1 DEF Walks
  <2> HIDE DEF next
  <2>3. p = n  BY <1>1, <1>4
  <2>4. \A i \in 1..(n + 1) : i \in 1..p \/ i = n + 1  BY <2>3
  <2>5. \A i \in 1..(n + 1) : Clean(man, res, L[i])  BY <1>1, <1>4, <2>4
  <2>6. n + 1 \in 0..(n + 1) /\ n + 1 # 0  OBVIOUS
  <2>7. WalkedTo(man, res, n + 1, next)  BY <2>2, <2>5, <2>6 DEF WalkedTo, L
  <2> QED  BY <2>2, <2>7 DEF next, L
<1> QED  BY <1>2, <1>3, <1>4

\* The loop, turn by turn.
LEMMA WalkTurns ==
    ASSUME NEW man, NEW res, IsManifest(man)
    PROVE  \E turn :
              /\ turn[0] = WalkStart
              /\ \A i \in 1..Len(AllLevels(man)) :
                     turn[i] = Walk(man, res, turn[i-1], AllLevels(man)[i])
              /\ Walked(man, res) = turn[Len(AllLevels(man))]
<1> DEFINE L == AllLevels(man)
           N == Len(L)
           F == [i \in 1..N |-> [acc \in Walks |-> Walk(man, res, acc, L[i])]]
           Turns(iter) == [s \in SUBSET DOMAIN L |->
                              IF s = {} THEN WalkStart
                              ELSE Walk(man, res, iter[s \ {Max(s)}], L[Max(s)])]
<1>0. /\ L \in Seq(Levels) /\ N \in Nat /\ DOMAIN L = 1..N
      /\ WalkStart \in Walks
  <2>1. L \in Seq(Levels)  BY LevelFacts
  <2> HIDE DEF L
  <2> QED  BY <2>1 DEF WalkStart, Walks
<1> HIDE DEF L
<1>1. F \in [1..N -> [Walks -> Walks]]
  <2>1. ASSUME NEW i \in 1..N, NEW acc \in Walks  PROVE Walk(man, res, acc, L[i]) \in Walks
    <3>1. L[i] \in Levels  BY <1>0
    <3> HIDE DEF N
    <3> QED  BY <3>1 DEF Walk, Walks
  <2> HIDE DEF N
  <2> QED  BY <2>1
<1>2. PICK it : IsFold(Walks, WalkStart, N, F, it)
  <2> HIDE DEF F, N
  <2> QED  BY <1>0, <1>1, FoldExists
<1>3. it = Turns(it)
  <2>1. ASSUME NEW s \in SUBSET (1..N), s # {}
        PROVE  it[s] = Walk(man, res, it[s \ {Max(s)}], L[Max(s)])
    <3>1. Max(s) \in 1..N
      <4> HIDE DEF N
      <4> QED  BY <1>0, <2>1, MaxOf
    <3>2. it[s \ {Max(s)}] \in Walks  BY <1>2 DEF IsFold
    <3>3. F[Max(s)][it[s \ {Max(s)}]] = Walk(man, res, it[s \ {Max(s)}], L[Max(s)])
      BY <3>1, <3>2
    <3> HIDE DEF F, N
    <3> QED  BY <1>2, <2>1, <3>3 DEF IsFold
  <2> HIDE DEF F, N
  <2>2. DOMAIN it = SUBSET (1..N) /\ it = [s \in SUBSET (1..N) |-> it[s]]  BY <1>2 DEF IsFold
  <2>3. \A s \in SUBSET (1..N) : it[s] = IF s = {} THEN WalkStart
                                         ELSE Walk(man, res, it[s \ {Max(s)}], L[Max(s)])
    BY <1>2, <2>1 DEF IsFold
  <2> QED  BY <1>0, <2>2, <2>3
<1> DEFINE iter == CHOOSE g : g = Turns(g)
<1>4. iter = Turns(iter)  BY <1>3
<1>5. Walked(man, res) = iter[1..N]
  BY <1>0 DEF Walked, FoldLeft, MapThenFoldSet, L
<1> HIDE DEF iter
<1> DEFINE turn == [i \in 0..N |-> iter[1..i]]
<1>6. turn[0] = WalkStart
  <2>1. iter[{}] = WalkStart  BY <1>4
  <2> QED  BY <1>0, <2>1, 1..0 = {}
<1>7. ASSUME NEW i \in 1..N  PROVE turn[i] = Walk(man, res, turn[i-1], L[i])
  <2>1. Max(1..i) = i /\ (1..i) \ {i} = 1..i-1 /\ 1..i # {}  BY <1>0, Prefix
  <2>2. iter[1..i] = Walk(man, res, iter[(1..i) \ {Max(1..i)}], L[Max(1..i)])
    <3>1. 1..i \in SUBSET DOMAIN L  BY <1>0
    <3> QED  BY <1>4, <2>1, <3>1
  <2>3. i \in 0..N /\ i - 1 \in 0..N  BY <1>0
  <2>4. turn[i] = iter[1..i] /\ turn[i-1] = iter[1..i-1]  BY <2>3
  <2> HIDE DEF turn
  <2> QED  BY <2>1, <2>2, <2>4
<1>8. turn[N] = iter[1..N]  BY <1>0
<1> HIDE DEF turn
<1> QED
  <2> HIDE DEF N
  <2> QED  BY <1>5, <1>6, <1>7, <1>8 DEF N, L

\* Where the loop ends.
LEMMA WalkedFacts ==
    ASSUME NEW man, NEW res, IsManifest(man)
    PROVE  WalkedTo(man, res, Len(AllLevels(man)), Walked(man, res))
<1> DEFINE L == AllLevels(man)
           N == Len(L)
<1>0. N \in Nat
  <2>1. L \in Seq(Levels)  BY LevelFacts
  <2> HIDE DEF L
  <2> QED  BY <2>1
<1>1. PICK turn :
          /\ turn[0] = WalkStart
          /\ \A i \in 1..N : turn[i] = Walk(man, res, turn[i-1], L[i])
          /\ Walked(man, res) = turn[N]
  BY WalkTurns
<1> HIDE DEF N
<1> DEFINE P(n) == turn[n] \in Walks /\ WalkedTo(man, res, n, turn[n])
           Up   == {n \in Nat : n <= N => P(n)}
<1>2. P(0)
  <2>1. turn[0] \in Walks /\ turn[0].highest = NoLevel /\ turn[0].broken = FALSE
    BY <1>1 DEF WalkStart, Walks
  <2> QED  BY <2>1 DEF WalkedTo
<1>3. ASSUME NEW n \in Nat, n + 1 <= N, P(n)  PROVE P(n + 1)
  <2>1. n + 1 \in 1..N /\ (n + 1) - 1 = n  BY <1>0, <1>3
  <2>2. turn[n + 1] = Walk(man, res, turn[n], L[n + 1])  BY <1>1, <2>1
  <2> HIDE DEF L
  <2> QED  BY <1>3, <2>2, WalkTurn DEF L, N
<1> HIDE DEF P
<1>4. 0 \in Up /\ \A n \in Nat : n \in Up => n + 1 \in Up  BY <1>0, <1>2, <1>3
<1> HIDE DEF Up
<1>5. Nat \subseteq Up  BY <1>4, SetInduction
<1>6. P(N)  BY <1>0, <1>5 DEF Up
<1> QED  BY <1>1, <1>6 DEF P, N

\* The certified level is that of a clean prefix of the levels, up to the cap,
\* and the prefix ends at the cap or before a level that is not clean.
LEMMA CertifiedPrefix ==
    ASSUME NEW man, NEW res, IsManifest(man), WellFormed(man)
    PROVE  LET L == AllLevels(man)
               c == HighestCertifiedLevel(man, res)
           IN  \E q \in 0..Len(L) :
                  /\ c = IF q = 0 THEN NoLevel ELSE L[q]
                  /\ \A i \in 1..q : Clean(man, res, L[i])
                  /\ q < Len(L) => \/ ~Clean(man, res, L[q + 1])
                                   \/ q > 0 /\ man.cap = L[q]
                  /\ q > 0 /\ man.cap # NoLevel =>
                         \E i \in q..Len(L) : man.cap = L[i]
<1> DEFINE L == AllLevels(man)
           N == Len(L)
           w == Walked(man, res)
           c == HighestCertifiedLevel(man, res)
<1>0. L \in Seq(Levels) /\ N \in Nat /\ DOMAIN L = 1..N /\ NoLevel \notin Levels
  <2>1. L \in Seq(Levels)  BY LevelFacts
  <2> HIDE DEF L
  <2> QED  BY <2>1, LevelAssumption DEF LevelAssumption
<1>1. PICK p \in 0..N :
        /\ \A i \in 1..p : Clean(man, res, L[i])
        /\ w.highest = IF p = 0 THEN NoLevel ELSE L[p]
        /\ w.broken => p < N /\ ~Clean(man, res, L[p + 1])
        /\ ~w.broken => p = N
  BY WalkedFacts DEF WalkedTo
<1>2. c = Clamp(man, w.highest)
  BY DEF HighestCertifiedLevel, Walked, WalkStart
<1>3. \A i \in 1..N : Position(man, L[i]) = i  BY PositionFacts
<1>4. man.cap = NoLevel \/ L = <<>> \/ \E i \in DOMAIN L : man.cap = L[i]
  BY DEF WellFormed, ToSet
<1> HIDE DEF L, N, w, c
<1>5. CASE w.highest = NoLevel \/ man.cap = NoLevel
  <2>1. c = w.highest  BY <1>2, <1>5 DEF Clamp
  <2>2. w.highest = NoLevel => p = 0  BY <1>0, <1>1
  <2>3. p < N => ~Clean(man, res, L[p + 1])  BY <1>0, <1>1
  <2>4. ~(p > 0 /\ man.cap # NoLevel)  BY <1>5, <2>2
  <2> QED  BY <1>1, <2>1, <2>3, <2>4 DEF L, N, c
<1>6. CASE w.highest # NoLevel /\ man.cap # NoLevel
  <2>1. p > 0 /\ w.highest = L[p] /\ p \in 1..N  BY <1>0, <1>1, <1>6
  <2>2. PICK k \in 1..N : man.cap = L[k]
    <3>1. L # <<>>  BY <1>0, <2>1 DEF N
    <3> QED  BY <1>0, <1>4, <1>6, <3>1
  <2>3. Position(man, man.cap) = k /\ Position(man, w.highest) = p
    BY <1>3, <2>1, <2>2
  <2>4. CASE k < p
    <3>1. c = man.cap  BY <1>2, <1>6, <2>3, <2>4 DEF Clamp
    <3>2. k \in 0..N /\ k > 0 /\ k # 0 /\ k \in k..N  BY <1>0, <2>2
    <3>3. \A i \in 1..k : Clean(man, res, L[i])  BY <1>0, <1>1, <2>1, <2>2, <2>4
    <3> QED  BY <2>2, <3>1, <3>2, <3>3 DEF L, N, c
  <2>5. CASE ~(k < p)
    <3>1. c = L[p]  BY <1>2, <2>1, <2>3, <2>5 DEF Clamp
    <3>2. k \in p..N /\ p # 0  BY <1>0, <2>1, <2>2, <2>5
    <3>3. p < N => ~Clean(man, res, L[p + 1])  BY <1>1
    <3> QED  BY <1>1, <2>2, <3>1, <3>2, <3>3 DEF L, N, c
  <2> QED  BY <2>4, <2>5
<1> QED  BY <1>5, <1>6

\* All tests of a level run, or none.
ByLevel(man, res) ==
    \A k, j \in DOMAIN man.tests :
        man.tests[k] # NoLevel /\ man.tests[j] = man.tests[k] =>
            (res[k] # "none" <=> res[j] # "none")

\* What Earned says of a manifest and its verdicts.
EarnedBy(man, res, level) ==
    \A k \in DOMAIN man.tests :
        /\ man.tests[k] # NoLevel
        /\ Rank(man, man.tests[k]) <= Rank(man, level)
        => res[k] = "pass"

\* A level is earned exactly when the levels up to it are clean.
LEMMA EarnedIsClean ==
    ASSUME NEW man, NEW res, IsManifest(man), ByLevel(man, res),
           NEW q \in 1..Len(AllLevels(man))
    PROVE  EarnedBy(man, res, AllLevels(man)[q])
               <=> \A i \in 1..q : Clean(man, res, AllLevels(man)[i])
<1> DEFINE L == AllLevels(man)
<1>0. /\ L \in Seq(Levels) /\ NoLevel \notin Levels
      /\ \A k \in DOMAIN man.tests : man.tests[k] # NoLevel =>
            \E i \in 1..Len(L) : L[i] = man.tests[k]
      /\ \A i \in 1..Len(L) : \E k \in DOMAIN man.tests : man.tests[k] = L[i]
      /\ \A i, j \in 1..Len(L) : i < j => Rank(man, L[i]) < Rank(man, L[j])
      /\ \A i \in 1..Len(L) : Rank(man, L[i]) \in Nat
  BY LevelFacts, LevelAssumption DEF LevelAssumption
<1> HIDE DEF L
<1>1. q \in 1..Len(L) /\ Len(L) \in Nat  BY <1>0 DEF L
<1>2. ASSUME EarnedBy(man, res, L[q]), NEW i \in 1..q  PROVE Clean(man, res, L[i])
  <2>1. i \in 1..Len(L) /\ L[i] # NoLevel  BY <1>0, <1>1
  <2>2. Rank(man, L[i]) <= Rank(man, L[q])  BY <1>0, <1>1, <2>1
  <2>3. \A k \in DOMAIN man.tests : man.tests[k] = L[i] => res[k] = "pass"
    BY <1>2, <2>1, <2>2 DEF EarnedBy
  <2>4. PICK k \in DOMAIN man.tests : man.tests[k] = L[i]  BY <1>0, <2>1
  <2> QED  BY <2>3, <2>4 DEF Clean, ResultsAt
<1>3. ASSUME \A i \in 1..q : Clean(man, res, L[i])  PROVE EarnedBy(man, res, L[q])
  <2> SUFFICES ASSUME NEW k \in DOMAIN man.tests, man.tests[k] # NoLevel,
                      Rank(man, man.tests[k]) <= Rank(man, L[q])
               PROVE  res[k] = "pass"
    BY DEF EarnedBy
  <2>1. PICK i \in 1..Len(L) : L[i] = man.tests[k]  BY <1>0
  <2>2. i \in 1..q
    <3>1. ~(q < i)  BY <1>0, <1>1, <2>1
    <3> QED  BY <1>1, <3>1
  <2>3. ResultsAt(man, res, L[i]) = {"pass"}  BY <1>3, <2>2 DEF Clean
  <2>4. PICK j \in DOMAIN man.tests : man.tests[j] = L[i] /\ res[j] = "pass"
    BY <2>3 DEF ResultsAt
  <2>5. res[k] # "none"  BY <2>1, <2>4 DEF ByLevel
  <2>6. res[k] \in ResultsAt(man, res, L[i])  BY <2>1, <2>5 DEF ResultsAt
  <2> QED  BY <2>3, <2>6
<1> QED  BY <1>2, <1>3 DEF L

\* Within the cap of a manifest, by rank.
Within(man, level) == man.cap = NoLevel \/ Rank(man, level) <= Rank(man, man.cap)

\* The levels that a manifest's verdicts earn.
EarnedLevels(man, res) ==
    {l \in Levels : /\ \E k \in DOMAIN man.tests : man.tests[k] = l
                    /\ Within(man, l) /\ EarnedBy(man, res, l)}

\* The certified level is the highest earned one, for every manifest, cap and
\* verdicts.
LEMMA CertifiedIsHighestEarned ==
    ASSUME NEW man, NEW res, IsManifest(man), WellFormed(man), ByLevel(man, res)
    PROVE  LET c      == HighestCertifiedLevel(man, res)
               earned == EarnedLevels(man, res)
           IN  /\ c \in Levels \cup {NoLevel}
               /\ c = NoLevel => earned = {}
               /\ c # NoLevel => c \in earned /\ \A l \in earned : Rank(man, l) <= Rank(man, c)
<1> DEFINE L == AllLevels(man)
           c == HighestCertifiedLevel(man, res)
           earned == EarnedLevels(man, res)
<1>0. /\ L \in Seq(Levels) /\ NoLevel \notin Levels
      /\ \A k \in DOMAIN man.tests : man.tests[k] # NoLevel =>
            \E i \in 1..Len(L) : L[i] = man.tests[k]
      /\ \A i \in 1..Len(L) : \E k \in DOMAIN man.tests : man.tests[k] = L[i]
      /\ \A i, j \in 1..Len(L) : i < j => Rank(man, L[i]) < Rank(man, L[j])
      /\ \A i \in 1..Len(L) : Rank(man, L[i]) \in Nat
  BY LevelFacts, LevelAssumption DEF LevelAssumption
<1>1. PICK q \in 0..Len(L) :
        /\ c = IF q = 0 THEN NoLevel ELSE L[q]
        /\ \A i \in 1..q : Clean(man, res, L[i])
        /\ q < Len(L) => ~Clean(man, res, L[q + 1]) \/ (q > 0 /\ man.cap = L[q])
        /\ q > 0 /\ man.cap # NoLevel => \E i \in q..Len(L) : man.cap = L[i]
  BY CertifiedPrefix
<1>2. \A i \in 1..Len(L) : EarnedBy(man, res, L[i]) <=> \A j \in 1..i : Clean(man, res, L[j])
  BY EarnedIsClean
<1> HIDE DEF L, c
<1>3. Len(L) \in Nat /\ \A i \in 1..Len(L) : L[i] \in Levels /\ L[i] # NoLevel
  BY <1>0
<1>4. ASSUME NEW l \in earned
      PROVE  \E i \in 1..Len(L) : l = L[i] /\ i <= q
  <2>1. l \in Levels /\ Within(man, l) /\ EarnedBy(man, res, l)  BY DEF EarnedLevels
  <2>2. PICK i \in 1..Len(L) : L[i] = l
    <3>1. PICK k \in DOMAIN man.tests : man.tests[k] = l  BY DEF EarnedLevels
    <3> QED  BY <1>0, <2>1, <3>1
  <2>3. ASSUME q < i  PROVE FALSE
    <3>1. q + 1 \in 1..i /\ q < Len(L)  BY <1>3, <2>2, <2>3
    <3>2. Clean(man, res, L[q + 1])  BY <1>2, <2>1, <2>2, <3>1
    <3>3. q > 0 /\ man.cap = L[q]  BY <1>1, <3>1, <3>2
    <3>4. q \in 1..Len(L)  BY <1>3, <3>3
    <3>5. Rank(man, L[q]) < Rank(man, L[i])  BY <1>0, <2>3, <3>4
    <3>6. Rank(man, L[i]) <= Rank(man, L[q])
      <4>1. man.cap # NoLevel  BY <1>3, <3>3, <3>4
      <4> QED  BY <2>1, <2>2, <3>3, <4>1 DEF Within
    <3> QED  BY <1>0, <3>4, <3>5, <3>6
  <2> QED  BY <1>3, <2>2, <2>3
<1>5. CASE q = 0
  <2>1. c = NoLevel  BY <1>1, <1>5
  <2>2. earned = {}
    <3>1. \A l \in earned : FALSE  BY <1>3, <1>4, <1>5
    <3> HIDE DEF earned
    <3> QED  BY <3>1
  <2> QED  BY <2>1, <2>2 DEF c
<1>6. CASE q > 0
  <2>1. q \in 1..Len(L) /\ c = L[q]  BY <1>1, <1>3, <1>6
  <2>2. c \in Levels /\ c # NoLevel  BY <1>3, <2>1
  <2>3. \A i \in 1..Len(L) : i <= q => Rank(man, L[i]) <= Rank(man, c)
    <3> TAKE i \in 1..Len(L)
    <3>1. i < q => Rank(man, L[i]) < Rank(man, L[q])  BY <1>0, <2>1
    <3>2. i <= q => i < q \/ i = q  BY <1>3, <2>1
    <3>3. Rank(man, L[i]) \in Nat /\ Rank(man, L[q]) \in Nat  BY <1>0, <2>1
    <3> QED  BY <2>1, <3>1, <3>2, <3>3
  <2>4. \A l \in earned : Rank(man, l) <= Rank(man, c)
    <3> HIDE DEF earned
    <3> QED  BY <1>4, <2>3
  <2>5. Within(man, c)
    <3> SUFFICES ASSUME man.cap # NoLevel  PROVE Rank(man, c) <= Rank(man, man.cap)
      BY DEF Within
    <3>1. PICK i \in q..Len(L) : man.cap = L[i]  BY <1>1, <1>6
    <3>2. i \in 1..Len(L) /\ (q < i \/ q = i)  BY <1>3, <2>1, <3>1
    <3>3. q < i => Rank(man, L[q]) < Rank(man, L[i])  BY <1>0, <2>1, <3>2
    <3>4. Rank(man, L[i]) \in Nat /\ Rank(man, L[q]) \in Nat  BY <1>0, <2>1, <3>2
    <3> QED  BY <2>1, <3>1, <3>2, <3>3, <3>4
  <2>6. EarnedBy(man, res, c)  BY <1>1, <1>2, <2>1
  <2>7. \E k \in DOMAIN man.tests : man.tests[k] = c  BY <1>0, <2>1
  <2>8. c \in earned  BY <2>2, <2>5, <2>6, <2>7 DEF EarnedLevels
  <2> HIDE DEF earned
  <2> QED  BY <2>2, <2>4, <2>8 DEF c, earned
<1> QED
  <2>1. q = 0 \/ q > 0  BY <1>1, <1>3
  <2> QED  BY <1>5, <1>6, <2>1

-----------------------------------------------------------------------------
(* The manifests of a run.                                                 *)

\* What may be started.
LEMMA RunFacts ==
    ASSUME NEW r \in Runs
    PROVE  /\ r.installed \in Seq(Installed) /\ r.asked \in Seq(Filters) /\ r.prereqs \in Nat
           /\ DOMAIN r.installed = 1..Len(r.installed)
           /\ ToSet(r.installed) \subseteq Installed
           /\ \A a, b \in ToSet(r.installed) : a.version = b.version => a = b
           /\ \A man \in ToSet(r.installed) : \A k \in DOMAIN man.tests :
                  man.tests[k] # NoLevel => VersionOf[man.tests[k]] = man.version
<1>1. r \in Run  BY RunAssumption DEF RunAssumption
<1>2. /\ r.installed \in Seq(Installed) /\ r.asked \in Seq(Filters) /\ r.prereqs \in Nat
      /\ DOMAIN r.installed = 1..Len(r.installed)
  BY <1>1 DEF Run
<1>3. ToSet(r.installed) \subseteq Installed  BY <1>2 DEF ToSet
<1>4. ASSUME NEW a \in ToSet(r.installed), NEW b \in ToSet(r.installed), a.version = b.version
      PROVE  a = b
  <2>1. PICK i \in DOMAIN r.installed : r.installed[i] = a  BY DEF ToSet
  <2>2. PICK j \in DOMAIN r.installed : r.installed[j] = b  BY DEF ToSet
  <2>3. i = j  BY <1>4, <2>1, <2>2, InstalledAssumption DEF InstalledAssumption
  <2> QED  BY <2>1, <2>2, <2>3
<1>5. ASSUME NEW man \in ToSet(r.installed), NEW k \in DOMAIN man.tests, man.tests[k] # NoLevel
      PROVE  VersionOf[man.tests[k]] = man.version
  <2>1. PICK j \in DOMAIN r.installed : r.installed[j] = man  BY DEF ToSet
  <2> QED  BY <1>5, <2>1, InstalledAssumption DEF InstalledAssumption
<1> QED  BY <1>2, <1>3, <1>4, <1>5

\* The versions that the filters of a run name.
LEMMA AskedFacts ==
    ASSUME NEW r \in Runs
    PROVE  /\ AskedVersions(r) \in Seq(Versions)
           /\ \A f \in ToSet(r.asked) : \E i \in 1..Len(AskedVersions(r)) :
                  AskedVersions(r)[i] = VersionOf[f]
           /\ \A i \in 1..Len(AskedVersions(r)) : \E f \in ToSet(r.asked) :
                  AskedVersions(r)[i] = VersionOf[f]
<1> DEFINE seq == [j \in DOMAIN r.asked |-> VersionOf[r.asked[j]]]
           V == AskedVersions(r)
<1>1. /\ DOMAIN r.asked = 1..Len(r.asked) /\ Len(r.asked) \in Nat
      /\ \A j \in DOMAIN r.asked : r.asked[j] \in Filters
  BY RunFacts
<1>2. \A j \in DOMAIN r.asked : VersionOf[r.asked[j]] \in Versions
  BY <1>1, LevelAssumption DEF LevelAssumption
<1>3. seq \in Seq(Versions) /\ Len(seq) = Len(r.asked)  BY <1>1, <1>2
<1>4. \A j \in DOMAIN r.asked : seq[j] = VersionOf[r.asked[j]]  OBVIOUS
<1> HIDE DEF seq
<1>5. SeenUpTo(Versions, seq, Len(seq), FirstSeen(Versions, seq))  BY <1>3, FirstSeenFacts
<1>6. V = FirstSeen(Versions, seq)  BY DEF AskedVersions, seq
<1> HIDE DEF V
<1>7. SeenUpTo(Versions, seq, Len(r.asked), V)  BY <1>3, <1>5, <1>6
<1>8. ASSUME NEW f \in ToSet(r.asked)
      PROVE  \E i \in 1..Len(V) : V[i] = VersionOf[f]
  <2>1. PICK j \in DOMAIN r.asked : r.asked[j] = f  BY DEF ToSet
  <2>2. seq[j] \in Versions /\ seq[j] = VersionOf[f]  BY <1>2, <1>4, <2>1
  <2> QED  BY <1>1, <1>7, <2>2 DEF SeenUpTo
<1>9. ASSUME NEW i \in 1..Len(V)
      PROVE  \E f \in ToSet(r.asked) : V[i] = VersionOf[f]
  <2>1. PICK k \in 1..Len(r.asked) : seq[k] = V[i]  BY <1>7 DEF SeenUpTo
  <2>2. r.asked[k] \in ToSet(r.asked) /\ V[i] = VersionOf[r.asked[k]]
    BY <1>1, <1>4, <2>1 DEF ToSet
  <2> QED  BY <2>2
<1> QED  BY <1>7, <1>8, <1>9 DEF SeenUpTo, V

\* The loop of discover_manifests, turn by turn.
LEMMA DiscoverTurns ==
    ASSUME NEW r \in Runs, r.asked # <<>>
    PROVE  \E turn :
              /\ turn[0] = <<>>
              /\ \A i \in 1..Len(AskedVersions(r)) :
                     turn[i] = Discover(r.installed, turn[i-1], AskedVersions(r)[i])
              /\ DiscoverManifests(r) = turn[Len(AskedVersions(r))]
<1> DEFINE V == AskedVersions(r)
           N == Len(V)
           T == Seq(Installed)
           F == [i \in 1..N |-> [found \in T |-> Discover(r.installed, found, V[i])]]
           Turns(iter) == [s \in SUBSET DOMAIN V |->
                              IF s = {} THEN <<>>
                              ELSE Discover(r.installed, iter[s \ {Max(s)}], V[Max(s)])]
<1>0. N \in Nat /\ DOMAIN V = 1..N /\ <<>> \in T
  <2>1. V \in Seq(Versions)  BY AskedFacts
  <2> HIDE DEF V
  <2> QED  BY <2>1
<1> HIDE DEF V
<1>1. F \in [1..N -> [T -> T]]
  <2>1. ASSUME NEW found \in T, NEW v  PROVE Discover(r.installed, found, v) \in T
    <3>1. CASE \E man \in ToSet(r.installed) : man.version = v
      <4> DEFINE man == CHOOSE man \in ToSet(r.installed) : man.version = v
      <4>1. man \in Installed  BY <3>1, RunFacts
      <4>2. Discover(r.installed, found, v) = Append(found, man)  BY <3>1 DEF Discover
      <4> HIDE DEF man
      <4> QED  BY <4>1, <4>2
    <3>2. CASE ~ \E man \in ToSet(r.installed) : man.version = v
      BY <3>2 DEF Discover
    <3> QED  BY <3>1, <3>2
  <2> HIDE DEF N, T
  <2> QED  BY <2>1
<1> HIDE DEF T
<1>2. PICK it : IsFold(T, <<>>, N, F, it)
  <2> HIDE DEF F, N
  <2> QED  BY <1>0, <1>1, FoldExists
<1>3. it = Turns(it)
  <2>1. ASSUME NEW s \in SUBSET (1..N), s # {}
        PROVE  it[s] = Discover(r.installed, it[s \ {Max(s)}], V[Max(s)])
    <3>1. Max(s) \in 1..N
      <4> HIDE DEF N
      <4> QED  BY <1>0, <2>1, MaxOf
    <3>2. it[s \ {Max(s)}] \in T  BY <1>2 DEF IsFold
    <3>3. F[Max(s)][it[s \ {Max(s)}]] = Discover(r.installed, it[s \ {Max(s)}], V[Max(s)])
      BY <3>1, <3>2
    <3> HIDE DEF F, N
    <3> QED  BY <1>2, <2>1, <3>3 DEF IsFold
  <2> HIDE DEF F, N
  <2>2. DOMAIN it = SUBSET (1..N) /\ it = [s \in SUBSET (1..N) |-> it[s]]  BY <1>2 DEF IsFold
  <2>3. \A s \in SUBSET (1..N) : it[s] = IF s = {} THEN <<>>
                                         ELSE Discover(r.installed, it[s \ {Max(s)}], V[Max(s)])
    BY <1>2, <2>1 DEF IsFold
  <2> QED  BY <1>0, <2>2, <2>3
<1> DEFINE iter == CHOOSE g : g = Turns(g)
<1>4. iter = Turns(iter)  BY <1>3
<1>5. DiscoverManifests(r) = iter[1..N]
  BY <1>0 DEF DiscoverManifests, FoldLeft, MapThenFoldSet, V
<1> HIDE DEF iter
<1> DEFINE turn == [i \in 0..N |-> iter[1..i]]
<1>6. turn[0] = <<>>
  <2>1. iter[{}] = <<>>  BY <1>4
  <2> QED  BY <1>0, <2>1, 1..0 = {}
<1>7. ASSUME NEW i \in 1..N  PROVE turn[i] = Discover(r.installed, turn[i-1], V[i])
  <2>1. Max(1..i) = i /\ (1..i) \ {i} = 1..i-1 /\ 1..i # {}  BY <1>0, Prefix
  <2>2. iter[1..i] = Discover(r.installed, iter[(1..i) \ {Max(1..i)}], V[Max(1..i)])
    <3>1. 1..i \in SUBSET DOMAIN V  BY <1>0
    <3> QED  BY <1>4, <2>1, <3>1
  <2>3. i \in 0..N /\ i - 1 \in 0..N  BY <1>0
  <2>4. turn[i] = iter[1..i] /\ turn[i-1] = iter[1..i-1]  BY <2>3
  <2> HIDE DEF turn
  <2> QED  BY <2>1, <2>2, <2>4
<1>8. turn[N] = iter[1..N]  BY <1>0
<1> HIDE DEF turn
<1> QED
  <2> HIDE DEF N
  <2> QED  BY <1>5, <1>6, <1>7, <1>8 DEF N, V

\* What the loop has found for the first n versions.
FoundUpTo(installed, versions, n, found) ==
    /\ found \in Seq(ToSet(installed))
    /\ \A i \in 1..Len(found) : \E k \in 1..n : found[i].version = versions[k]
    /\ \A k \in 1..n : \A man \in ToSet(installed) :
           man.version = versions[k] => \E i \in 1..Len(found) : found[i] = man

\* The manifests to run: installed ones, all of them without filters, and
\* otherwise exactly those of the versions that the filters name.
LEMMA DiscoverFacts ==
    ASSUME NEW r \in Runs
    PROVE  LET M == DiscoverManifests(r)
           IN  /\ M \in Seq(Installed) /\ M \in Seq(ToSet(r.installed))
               /\ r.asked = <<>> => M = r.installed
               /\ r.asked # <<>> =>
                    /\ \A i \in 1..Len(M) : \E f \in ToSet(r.asked) : M[i].version = VersionOf[f]
                    /\ \A f \in ToSet(r.asked) : \A man \in ToSet(r.installed) :
                           man.version = VersionOf[f] => \E i \in 1..Len(M) : M[i] = man
<1> DEFINE M == DiscoverManifests(r)
           V == AskedVersions(r)
           N == Len(V)
           I == ToSet(r.installed)
<1>0. I \subseteq Installed  BY RunFacts
<1>1. CASE r.asked = <<>>
  <2>1. M = r.installed  BY <1>1 DEF DiscoverManifests
  <2>2. r.installed \in Seq(Installed)  BY RunFacts
  <2>3. r.installed \in Seq(I)  BY <2>2 DEF ToSet
  <2> QED  BY <1>1, <2>1, <2>2, <2>3
<1>2. CASE r.asked # <<>>
  <2>0. N \in Nat
    <3>1. V \in Seq(Versions)  BY AskedFacts
    <3> HIDE DEF V
    <3> QED  BY <3>1
  <2>1. PICK turn :
            /\ turn[0] = <<>>
            /\ \A i \in 1..N : turn[i] = Discover(r.installed, turn[i-1], V[i])
            /\ M = turn[N]
    BY <1>2, DiscoverTurns
  <2> HIDE DEF V, N, M
  <2> DEFINE P(n) == FoundUpTo(r.installed, V, n, turn[n])
             Up   == {n \in Nat : n <= N => P(n)}
  <2>2. P(0)  BY <2>1 DEF FoundUpTo
  <2>3. ASSUME NEW n \in Nat, n + 1 <= N, P(n)  PROVE P(n + 1)
    <3> DEFINE t == turn[n]  u == turn[n + 1]  v == V[n + 1]
               man == CHOOSE man \in I : man.version = v
    <3>0. n + 1 \in 1..N /\ (n + 1) - 1 = n  BY <2>0, <2>3
    <3>1. u = Discover(r.installed, t, v)  BY <2>1, <3>0
    <3>2. FoundUpTo(r.installed, V, n, t)  BY <2>3
    <3>3. \A k \in 1..(n + 1) : k \in 1..n \/ (k = n + 1 /\ V[k] = v)  OBVIOUS
    <3>4. n + 1 \in 1..(n + 1) /\ 1..n \subseteq 1..(n + 1)  OBVIOUS
    <3> HIDE DEF t, u, P
    <3>5. CASE \E x \in I : x.version = v
      <4>1. man \in I /\ man.version = v /\ u = Append(t, man)  BY <3>1, <3>5 DEF Discover
      <4> HIDE DEF man, v, I
      <4>2. t \in Seq(I)  BY <3>2 DEF FoundUpTo, I
      <4>3. /\ u \in Seq(I) /\ Len(u) = Len(t) + 1 /\ u[Len(t) + 1] = man /\ Len(t) \in Nat
            /\ \A i \in 1..Len(t) : u[i] = t[i]
        BY <4>1, <4>2
      <4>4. \A i \in 1..Len(u) : i \in 1..Len(t) \/ i = Len(t) + 1  BY <4>3
      <4>5. ASSUME NEW i \in 1..Len(u)  PROVE \E k \in 1..(n + 1) : u[i].version = V[k]
        <5>1. CASE i \in 1..Len(t)
          <6>1. PICK k \in 1..n : t[i].version = V[k]  BY <3>2, <5>1 DEF FoundUpTo
          <6> QED  BY <3>4, <4>3, <5>1, <6>1
        <5>2. CASE i = Len(t) + 1  BY <3>4, <4>1, <4>3, <5>2 DEF v
        <5> QED  BY <4>4, <5>1, <5>2
      <4>6. ASSUME NEW k \in 1..(n + 1), NEW x \in I, x.version = V[k]
            PROVE  \E i \in 1..Len(u) : u[i] = x
        <5>1. CASE k \in 1..n
          <6>1. PICK i \in 1..Len(t) : t[i] = x  BY <3>2, <4>6, <5>1 DEF FoundUpTo, I
          <6> QED  BY <4>3, <6>1
        <5>2. CASE k = n + 1 /\ V[k] = v
          <6>1. x = man  BY <4>1, <4>6, <5>2, RunFacts DEF I
          <6>2. Len(t) + 1 \in 1..Len(u)  BY <4>3
          <6> QED  BY <4>3, <6>1, <6>2
        <5> QED  BY <3>3, <5>1, <5>2
      <4> QED  BY <4>3, <4>5, <4>6 DEF FoundUpTo, P, u, I
    <3>6. CASE ~ \E x \in I : x.version = v
      <4>1. u = t  BY <3>1, <3>6 DEF Discover
      <4>2. ASSUME NEW i \in 1..Len(t)  PROVE \E k \in 1..(n + 1) : t[i].version = V[k]
        <5>1. PICK k \in 1..n : t[i].version = V[k]  BY <3>2 DEF FoundUpTo
        <5> QED  BY <3>4, <5>1
      <4>3. ASSUME NEW k \in 1..(n + 1), NEW x \in I, x.version = V[k]
            PROVE  \E i \in 1..Len(t) : t[i] = x
        BY <3>2, <3>3, <3>6, <4>3 DEF FoundUpTo
      <4> QED  BY <3>2, <4>1, <4>2, <4>3 DEF FoundUpTo, P, u
    <3> QED  BY <3>5, <3>6
  <2> HIDE DEF P
  <2>4. 0 \in Up /\ \A n \in Nat : n \in Up => n + 1 \in Up  BY <2>0, <2>2, <2>3
  <2> HIDE DEF Up
  <2>5. Nat \subseteq Up  BY <2>4, SetInduction
  <2>6. P(N)  BY <2>0, <2>5 DEF Up
  <2>7. FoundUpTo(r.installed, V, N, M)  BY <2>1, <2>6 DEF P
  <2>8. M \in Seq(I) /\ M \in Seq(Installed)  BY <1>0, <2>7 DEF FoundUpTo
  <2>9. ASSUME NEW i \in 1..Len(M)  PROVE \E f \in ToSet(r.asked) : M[i].version = VersionOf[f]
    <3>1. PICK k \in 1..N : M[i].version = V[k]  BY <2>7 DEF FoundUpTo
    <3> QED  BY <3>1, AskedFacts DEF V, N
  <2>10. ASSUME NEW f \in ToSet(r.asked), NEW x \in I, x.version = VersionOf[f]
         PROVE  \E i \in 1..Len(M) : M[i] = x
    <3>1. PICK k \in 1..N : V[k] = VersionOf[f]  BY AskedFacts DEF V, N
    <3> QED  BY <2>7, <2>10, <3>1 DEF FoundUpTo
  <2> QED  BY <1>2, <2>8, <2>9, <2>10 DEF M
<1> QED  BY <1>1, <1>2

-----------------------------------------------------------------------------
(* The inductive invariant.                                                *)

\* The manifests of the run under way.
LEMMA ManifestFacts ==
    ASSUME run \in Runs
    PROVE  /\ Manifests \in Seq(Installed) /\ Len(Manifests) \in Nat
           /\ DOMAIN Manifests = 1..Len(Manifests)
           /\ \A k \in 1..Len(Manifests) :
                 /\ IsManifest(Manifests[k])
                 /\ Manifests[k] \in ToSet(run.installed)
                 /\ DOMAIN Manifests[k].tests = 1..Len(Manifests[k].tests)
<1>1. Manifests \in Seq(Installed) /\ Manifests \in Seq(ToSet(run.installed))
  BY DiscoverFacts DEF Manifests
<1>2. /\ Len(Manifests) \in Nat /\ DOMAIN Manifests = 1..Len(Manifests)
      /\ \A k \in 1..Len(Manifests) : Manifests[k] \in Installed
      /\ \A k \in 1..Len(Manifests) : Manifests[k] \in ToSet(run.installed)
  BY <1>1
<1>3. \A man \in Installed : IsManifest(man) /\ DOMAIN man.tests = 1..Len(man.tests)
  BY DEF Installed, IsManifest
<1> QED  BY <1>1, <1>2, <1>3

\* What depends on the run alone does not change under it.
LEMMA Frame ==
    ASSUME run' = run
    PROVE  /\ Manifests' = Manifests
           /\ \A man : Selected(man)' = Selected(man)
           /\ \A rep : Recorded(rep)' <=> Recorded(rep)
<1>1. Manifests' = Manifests  BY DEF Manifests
<1>2. \A man : Selected(man)' = Selected(man)  BY DEF Selected, LevelFilters
<1>3. \A rep : Recorded(rep)' <=> Recorded(rep)  BY <1>1, <1>2 DEF Recorded
<1> QED  BY <1>1, <1>2, <1>3

\* A sequence with one more element.
LEMMA AppendFacts ==
    ASSUME NEW s, IsSeq(s), NEW e
    PROVE  /\ IsSeq(Append(s, e)) /\ Len(Append(s, e)) = Len(s) + 1 /\ Len(s) \in Nat
           /\ DOMAIN s = 1..Len(s) /\ DOMAIN Append(s, e) = 1..(Len(s) + 1)
           /\ \A n \in 1..Len(s) : Append(s, e)[n] = s[n]
           /\ Append(s, e)[Len(s) + 1] = e
<1> DEFINE t == Append(s, e)  U == ToSet(s) \cup {e}
<1>1. s \in Seq(U)  BY DEF IsSeq, ToSet
<1>2. /\ t \in Seq(U) /\ Len(t) = Len(s) + 1 /\ Len(s) \in Nat
      /\ DOMAIN s = 1..Len(s) /\ DOMAIN t = 1..(Len(s) + 1)
      /\ \A n \in 1..Len(s) : t[n] = s[n]
      /\ t[Len(s) + 1] = e
  <2> HIDE DEF U
  <2>1. e \in U  BY DEF U
  <2> QED  BY <1>1, <2>1
<1> HIDE DEF t
<1>3. t \in Seq(ToSet(t))  BY <1>2 DEF ToSet
<1> QED  BY <1>2, <1>3 DEF IsSeq, t

\* Worst by membership.
LEMMA WorstFacts ==
    ASSUME NEW res
    PROVE  LET has(v) == \E k \in DOMAIN res : res[k] = v
           IN  /\ has("error") => Worst(res) = "error"
               /\ ~has("error") /\ has("fail") => Worst(res) = "fail"
               /\ ~has("error") /\ ~has("fail") => Worst(res) = "pass"
BY DEF Worst

\* The fold of the verdicts is the worst of them.
LEMMA WorstStep ==
    ASSUME NEW D, NEW k \in D, NEW r \in Verdicts,
           NEW res, DOMAIN res = D, res[k] = "none", NEW new, DOMAIN new = D, new[k] = r,
           \A j \in D : j # k => new[j] = res[j]
    PROVE  WorseResult(Worst(res), r) = Worst(new)
<1> DEFINE has(v) == \E j \in D : res[j] = v
           now(v) == \E j \in D : new[j] = v
<1>1. ASSUME NEW v \in Verdicts  PROVE now(v) <=> has(v) \/ r = v
  <2>1. v # "none"  BY DEF Verdicts
  <2>2. has(v) => now(v)
    <3> SUFFICES ASSUME has(v) PROVE now(v)  OBVIOUS
    <3>1. PICK j \in D : res[j] = v  OBVIOUS
    <3> QED  BY <2>1, <3>1
  <2> QED  BY <2>2
<1>2. /\ has("error") => Worst(res) = "error"
      /\ ~has("error") /\ has("fail") => Worst(res) = "fail"
      /\ ~has("error") /\ ~has("fail") => Worst(res) = "pass"
  BY WorstFacts
<1>3. /\ now("error") => Worst(new) = "error"
      /\ ~now("error") /\ now("fail") => Worst(new) = "fail"
      /\ ~now("error") /\ ~now("fail") => Worst(new) = "pass"
  BY WorstFacts
<1>4. (now("error") <=> has("error") \/ r = "error") /\ (now("fail") <=> has("fail") \/ r = "fail")
  BY <1>1 DEF Verdicts
<1> HIDE DEF has, now
<1> QED  BY <1>2, <1>3, <1>4 DEF WorseResult, Severity, Verdicts

\* The tests of a level are selected together.
LEMMA SelectedByLevel ==
    ASSUME NEW man, NEW res,
           \A k \in DOMAIN man.tests : (res[k] # "none") <=> k \in Selected(man)
    PROVE  ByLevel(man, res)
<1>1. ASSUME NEW k \in DOMAIN man.tests, NEW j \in DOMAIN man.tests,
             man.tests[j] = man.tests[k]
      PROVE  k \in Selected(man) <=> j \in Selected(man)
  BY <1>1 DEF Selected
<1> QED  BY <1>1 DEF ByLevel

\* Before the first prerequisite nothing is written.
LEMMA InitInvariant == Init => IInv
<1> SUFFICES ASSUME Init PROVE IInv  OBVIOUS
<1> USE DEF Init
<1>1. run \in Runs /\ Len(Manifests) \in Nat /\ run.prereqs \in Nat  BY ManifestFacts, RunFacts
<1>2. TypeOK
  <2>1. IsSeq(<<>>) /\ <<>> \in Seq(Verdicts) /\ DOMAIN <<>> = {}  BY DEF IsSeq
  <2> QED  BY <1>1, <2>1 DEF TypeOK, Verdicts
<1>3. Gated  BY DEF Gated, PrereqsGate
<1>4. UnderWay  BY DEF UnderWay
<1>5. Written  BY DEF Written
<1>6. Covered  BY DEF Covered
<1> QED  BY <1>2, <1>3, <1>4, <1>5, <1>6 DEF IInv

\* Nothing is written and no manifest is begun behind the prerequisites.
LEMMA BeforeTheLoop ==
    ASSUME IInv, pc = "prereqs", run' = run, m' = m, results' = results, overall' = overall,
           reports' = reports, markdown' = markdown
    PROVE  /\ m = 1 /\ reports = <<>> /\ markdown = <<>> /\ Len(Manifests) \in Nat
           /\ Covered' /\ (pc' \notin {"test", "json", "markdown"} => UnderWay' /\ Written')
<1>1. m = 1 /\ reports = <<>> /\ markdown = <<>>  BY DEF IInv, Gated
<1>2. Len(Manifests) \in Nat  BY ManifestFacts DEF IInv, TypeOK
<1>3. Covered'  BY <1>1 DEF Covered
<1>4. pc' \notin {"test", "json", "markdown"} => UnderWay' /\ Written'
  BY <1>1 DEF UnderWay, Written
<1> QED  BY <1>1, <1>2, <1>3, <1>4

\* Ending without a manifest writes nothing (cli.py main).
LEMMA NoManifestStep == IInv /\ NoManifest => IInv'
<1> SUFFICES ASSUME IInv, NoManifest PROVE IInv'  OBVIOUS
<1> USE DEF NoManifest, Exit, docVars
<1>1. Manifests' = Manifests  BY Frame
<1>2. /\ m = 1 /\ reports = <<>> /\ markdown = <<>> /\ Len(Manifests) \in Nat
      /\ Covered' /\ UnderWay' /\ Written'
  BY BeforeTheLoop
<1>3. TypeOK'  BY <1>1, <1>2 DEF IInv, TypeOK
<1>4. Gated'  BY <1>1, <1>2 DEF IInv, Gated, PrereqsGate
<1> QED  BY <1>2, <1>3, <1>4 DEF IInv

\* A prerequisite adds its verdict and nothing else.
LEMMA RunPrereqStep == IInv /\ RunPrereq => IInv'
<1> SUFFICES ASSUME IInv, RunPrereq PROVE IInv'  OBVIOUS
<1> USE DEF RunPrereq, docVars
<1>1. Manifests' = Manifests  BY Frame
<1>2. /\ m = 1 /\ reports = <<>> /\ markdown = <<>> /\ Len(Manifests) \in Nat
      /\ Covered' /\ UnderWay' /\ Written'
  BY BeforeTheLoop
<1>3. TypeOK'
  <2>1. run.prereqs \in Nat  BY RunFacts DEF IInv, TypeOK
  <2> QED  BY <1>1, <1>2, <2>1 DEF IInv, TypeOK
<1>4. Gated'  BY <1>1, <1>2 DEF IInv, TypeOK, Gated, PrereqsGate
<1> QED  BY <1>2, <1>3, <1>4 DEF IInv

\* The gate: the loop is entered only when every prerequisite passed.
LEMMA PrereqsDoneStep == IInv /\ PrereqsDone => IInv'
<1> SUFFICES ASSUME IInv, PrereqsDone PROVE IInv'  OBVIOUS
<1> USE DEF PrereqsDone, Exit, docVars
<1>1. Manifests' = Manifests  BY Frame
<1>2. /\ m = 1 /\ reports = <<>> /\ markdown = <<>> /\ Len(Manifests) \in Nat
      /\ Covered' /\ UnderWay' /\ Written'
  BY BeforeTheLoop
<1>3. TypeOK'  BY <1>1, <1>2 DEF IInv, TypeOK
<1>4. Gated'  BY <1>1, <1>2 DEF IInv, TypeOK, Gated, PrereqsGate
<1> QED  BY <1>2, <1>3, <1>4 DEF IInv

\* A manifest is passed over only when none of its tests is selected.
LEMMA LoadManifestStep == IInv /\ LoadManifest => IInv'
<1> SUFFICES ASSUME IInv, LoadManifest PROVE IInv'  OBVIOUS
<1>0. /\ pc = "load" /\ m <= Len(Manifests) /\ WellFormed(Man)
      /\ UNCHANGED <<run, prereqs, docVars, exit>> /\ UNCHANGED docVars
  BY DEF LoadManifest
<1>1. /\ Manifests' = Manifests /\ \A man : Selected(man)' = Selected(man)
      /\ \A rep : Recorded(rep)' <=> Recorded(rep)
  BY <1>0, Frame
<1>2. Len(Manifests) \in Nat /\ m \in 1..Len(Manifests)
  BY <1>0, ManifestFacts DEF IInv, TypeOK
<1>3. \A n \in DOMAIN reports : reports[n].manifest \in Nat /\ reports[n].manifest < m
  BY <1>0, <1>2 DEF IInv, TypeOK, Written
<1>4. CASE Selected(Man) = {}
  <2>1. m' = m + 1 /\ pc' = "load" /\ results' = results /\ overall' = overall
    BY <1>0, <1>4 DEF LoadManifest
  <2>2. TypeOK'  BY <1>0, <1>1, <1>2, <2>1 DEF IInv, TypeOK, docVars
  <2>3. Gated'  BY <1>0, <1>1, <2>1 DEF IInv, Gated, PrereqsGate, docVars
  <2>4. UnderWay'  BY <2>1 DEF UnderWay
  <2>5. Written'
    <3>1. \A n \in DOMAIN reports : reports[n].manifest <= m + 1 /\ reports[n].manifest # m + 1
                                    /\ reports[n].manifest < m + 1
      BY <1>2, <1>3
    <3>2. \A n \in DOMAIN markdown : n \in DOMAIN reports
      BY DEF IInv, TypeOK, IsSeq
    <3> QED  BY <1>0, <1>1, <2>1, <3>1, <3>2 DEF IInv, Written, docVars
  <2>6. Covered'
    <3>1. \A k \in 1..(m + 1)-1 : k \in 1..m-1 \/ k = m  BY <1>2
    <3>2. Selected(Manifests[m]) = {}  BY <1>4 DEF Man
    <3> QED  BY <1>0, <1>1, <2>1, <3>1, <3>2 DEF IInv, Covered, docVars
  <2> QED  BY <2>2, <2>3, <2>4, <2>5, <2>6 DEF IInv
<1>5. CASE Selected(Man) # {}
  <2>1. /\ m' = m /\ pc' = "test" /\ overall' = "pass"
        /\ results' = [k \in Tests |-> "none"]
    BY <1>0, <1>5 DEF LoadManifest
  <2>2. Man' = Man /\ Tests' = Tests  BY <1>1, <2>1 DEF Man, Tests
  <2>3. TypeOK'  BY <1>0, <1>1, <1>2, <2>1, <2>2 DEF IInv, TypeOK, docVars, Verdicts
  <2>4. Gated'  BY <1>0, <1>1, <2>1 DEF IInv, Gated, PrereqsGate, docVars
  <2>5. UnderWay'
    <3>1. \A k \in Tests : results'[k] = "none"  BY <2>1
    <3>2. Worst(results') = "pass"
      <4>1. DOMAIN results' = Tests  BY <2>1
      <4> QED  BY <3>1, <4>1, WorstFacts
    <3> QED  BY <1>0, <1>1, <2>1, <2>2, <3>1, <3>2 DEF UnderWay
  <2>6. Written'
    <3>1. \A n \in DOMAIN markdown : n \in DOMAIN reports
      BY DEF IInv, TypeOK, IsSeq
    <3> QED  BY <1>0, <1>1, <1>2, <1>3, <2>1, <3>1 DEF IInv, Written, docVars
  <2>7. Covered'  BY <1>0, <1>1, <2>1 DEF IInv, Covered, docVars
  <2> QED  BY <2>3, <2>4, <2>5, <2>6, <2>7 DEF IInv
<1> QED  BY <1>4, <1>5

\* A verdict keeps the fold of the selected tests that have run.
LEMMA RunTestStep == IInv /\ RunTest => IInv'
<1> SUFFICES ASSUME IInv, RunTest PROVE IInv'  OBVIOUS
<1>0. pc = "test" /\ UNCHANGED <<run, prereqs, m, docVars, exit>> /\ UNCHANGED docVars
  BY DEF RunTest
<1>1. PICK k \in Selected(Man), r \in Verdicts :
         /\ results[k] = "none"
         /\ \A j \in Selected(Man) : j < k => results[j] # "none"
         /\ results' = [results EXCEPT ![k] = r]
         /\ overall' = WorseResult(overall, r)
         /\ pc' = IF \A j \in Selected(Man) : j <= k THEN "json" ELSE "test"
  BY DEF RunTest
<1>2. /\ Manifests' = Manifests /\ \A man : Selected(man)' = Selected(man)
      /\ \A rep : Recorded(rep)' <=> Recorded(rep)
  BY <1>0, Frame
<1>3. Man' = Man /\ Tests' = Tests  BY <1>0, <1>2 DEF Man, Tests
<1>4. /\ m <= Len(Manifests) /\ WellFormed(Man) /\ m \in Nat
      /\ \A j \in Tests : results[j] # "none" => j \in Selected(Man)
      /\ overall = Worst(results)
      /\ results \in [Tests -> Verdicts \cup {"none"}]
  BY <1>0, ManifestFacts DEF IInv, UnderWay, TypeOK
<1>5. k \in Tests /\ Tests \subseteq Nat
  <2>1. k \in Tests  BY <1>1 DEF Selected, Tests
  <2>2. m \in 1..Len(Manifests)  BY <1>4, ManifestFacts DEF IInv, TypeOK
  <2>3. DOMAIN Manifests[m].tests \subseteq Nat  BY <2>2, ManifestFacts DEF IInv, TypeOK
  <2> QED  BY <2>1, <2>3 DEF Tests, Man
<1>6. results' \in [Tests -> Verdicts \cup {"none"}]  BY <1>1, <1>4, <1>5
<1>7. overall' = Worst(results')
  <2>1. WorseResult(Worst(results), r) = Worst(results')
    <3>1. /\ DOMAIN results = Tests /\ DOMAIN results' = Tests /\ results'[k] = r
          /\ \A j \in Tests : j # k => results'[j] = results[j]
      BY <1>1, <1>4, <1>5
    <3>2. PICK old, new, D : old = results /\ new = results' /\ D = Tests  OBVIOUS
    <3>3. WorseResult(Worst(old), r) = Worst(new)
      <4>1. /\ k \in D /\ r \in Verdicts /\ DOMAIN old = D /\ DOMAIN new = D
            /\ old[k] = "none" /\ new[k] = r /\ \A j \in D : j # k => new[j] = old[j]
        BY <1>1, <1>5, <3>1, <3>2
      <4> HIDE <3>1, <3>2
      <4> QED  BY <4>1, WorstStep
    <3> QED  BY <3>2, <3>3
  <2> QED  BY <1>1, <1>4, <2>1
<1>8. overall' \in Verdicts  BY <1>7 DEF Worst, Verdicts
<1>9. \A j \in Tests : j # k => results'[j] = results[j]  BY <1>1, <1>4, <1>5
<1>10. results'[k] = r /\ r # "none"  BY <1>1, <1>4, <1>5 DEF Verdicts
<1>11. TypeOK'
  BY <1>0, <1>1, <1>2, <1>3, <1>6, <1>8 DEF IInv, TypeOK, docVars
<1>12. Gated'  BY <1>0, <1>1, <1>2 DEF IInv, TypeOK, Gated, PrereqsGate, docVars
<1>13. UnderWay'
  <2>1. \A j \in Tests : results'[j] # "none" => j \in Selected(Man)
    BY <1>1, <1>4, <1>9
  <2>2. ASSUME pc' # "test", NEW j \in Selected(Man)  PROVE results'[j] # "none"
    <3>1. j <= k /\ j \in Tests  BY <1>1, <2>2 DEF Selected, Tests
    <3>2. j < k \/ j = k  BY <1>5, <3>1
    <3> QED  BY <1>1, <1>9, <1>10, <3>1, <3>2
  <2> QED  BY <1>0, <1>2, <1>3, <1>4, <1>7, <2>1, <2>2 DEF UnderWay
<1>14. Written'
  <2>1. \A n \in DOMAIN markdown : n \in DOMAIN reports  BY DEF IInv, TypeOK, IsSeq
  <2>2. \A n \in DOMAIN reports : reports[n].manifest # m  BY <1>0 DEF IInv, Written
  <2> QED  BY <1>0, <1>1, <1>2, <2>1, <2>2 DEF IInv, Written, docVars
<1>15. Covered'  BY <1>0, <1>2 DEF IInv, Covered, docVars
<1> QED  BY <1>11, <1>12, <1>13, <1>14, <1>15 DEF IInv

\* The JSON report is what its verdicts make it.
LEMMA WriteJsonStep == IInv /\ WriteJson => IInv'
<1> SUFFICES ASSUME IInv, WriteJson PROVE IInv'  OBVIOUS
<1> DEFINE rep == [manifest  |-> m,
                   result    |-> overall,
                   certified |-> HighestCertifiedLevel(Man, results),
                   levels    |-> LevelDoc(Man, results),
                   tests     |-> results]
           N == Len(reports)
<1>0. /\ pc = "json" /\ pc' = "markdown" /\ reports' = Append(reports, rep)
      /\ UNCHANGED <<run, prereqs, m, results, overall, markdown, torn, exit>>
  BY DEF WriteJson
<1>1. /\ rep.manifest = m /\ rep.result = overall /\ rep.tests = results
      /\ rep.certified = HighestCertifiedLevel(Man, results)
      /\ rep.levels = LevelDoc(Man, results)
  OBVIOUS
<1> HIDE DEF rep
<1>2. /\ Manifests' = Manifests /\ \A man : Selected(man)' = Selected(man)
      /\ \A x : Recorded(x)' <=> Recorded(x)
  BY <1>0, Frame
<1>3. /\ m \in 1..Len(Manifests) /\ Len(Manifests) \in Nat /\ WellFormed(Man) /\ IsManifest(Man)
      /\ \A k \in Tests : (results[k] # "none") <=> k \in Selected(Man)
      /\ overall = Worst(results) /\ overall \in Verdicts
      /\ results \in [Tests -> Verdicts \cup {"none"}]
  <2>1. m \in 1..Len(Manifests) /\ Len(Manifests) \in Nat
    BY <1>0, ManifestFacts DEF IInv, TypeOK, UnderWay
  <2>2. IsManifest(Man)  BY <2>1, ManifestFacts DEF IInv, TypeOK, Man
  <2> QED  BY <1>0, <2>1, <2>2 DEF IInv, TypeOK, UnderWay
<1>4. /\ N \in Nat /\ IsSeq(reports') /\ DOMAIN reports = 1..N /\ Len(reports') = N + 1
      /\ DOMAIN reports' = 1..(N + 1) /\ reports'[N + 1] = rep
      /\ \A n \in 1..N : reports'[n] = reports[n]
  <2>1. IsSeq(reports)  BY DEF IInv, TypeOK
  <2> QED  BY <1>0, <2>1, AppendFacts
<1> HIDE DEF N
<1>5. Recorded(rep)
  <2>1. Manifests[rep.manifest] = Man /\ Tests = DOMAIN Man.tests  BY <1>1 DEF Man, Tests
  <2> QED  BY <1>1, <1>3, <2>1 DEF Recorded
<1>6. rep.certified \in Levels \cup {NoLevel}
  <2>1. ByLevel(Man, results)  BY <1>3, SelectedByLevel DEF Tests
  <2> QED  BY <1>1, <1>3, <2>1, CertifiedIsHighestEarned
<1>7. /\ DOMAIN rep.levels \subseteq Levels
      /\ rep.levels \in [DOMAIN rep.levels -> {"pass", "fail", "skip"}]
  <2>1. DOMAIN rep.levels = ToSet(AllLevels(Man))  BY <1>1 DEF LevelDoc
  <2>2. ToSet(AllLevels(Man)) \subseteq Levels
    <3>1. AllLevels(Man) \in Seq(Levels)  BY <1>3, LevelFacts
    <3> QED  BY <3>1 DEF ToSet
  <2>3. rep.levels \in [ToSet(AllLevels(Man)) -> {"pass", "fail", "skip"}]
    BY <1>1 DEF LevelDoc
  <2> QED  BY <2>1, <2>2, <2>3
<1>8. \A n \in 1..(N + 1) : n \in 1..N \/ n = N + 1  BY <1>4
<1>9. Len(markdown) = N /\ IsSeq(markdown) /\ DOMAIN markdown = 1..N /\ markdown' = markdown
  <2>1. Len(markdown) = N /\ IsSeq(markdown)  BY <1>0 DEF IInv, TypeOK, Written, N
  <2> QED  BY <1>0, <2>1 DEF IsSeq
<1>10. TypeOK'
  <2>1. ASSUME NEW n \in DOMAIN reports'
        PROVE  LET x == reports'[n]
               IN  /\ x.manifest \in 1..Len(Manifests)
                   /\ x.result \in Verdicts
                   /\ x.certified \in Levels \cup {NoLevel}
                   /\ x.levels \in [DOMAIN x.levels -> {"pass", "fail", "skip"}]
                   /\ DOMAIN x.levels \subseteq Levels
                   /\ x.tests \in [DOMAIN Manifests[x.manifest].tests -> Verdicts \cup {"none"}]
    <3>1. CASE n \in 1..N  BY <1>4, <3>1 DEF IInv, TypeOK
    <3>2. CASE n = N + 1  BY <1>1, <1>3, <1>4, <1>6, <1>7, <3>2 DEF Man, Tests
    <3> QED  BY <1>4, <1>8, <2>1, <3>1, <3>2
  <2>2. Tests' = Tests  BY <1>0, <1>2 DEF Tests, Man
  <2>3. Len(markdown') <= Len(reports')  BY <1>4, <1>9
  <2> QED  BY <1>0, <1>2, <1>3, <1>4, <1>9, <2>1, <2>2, <2>3 DEF IInv, TypeOK
<1>11. Gated'
  BY <1>0, <1>2 DEF IInv, TypeOK, Gated, PrereqsGate
<1>12. UnderWay'
  <2>1. Man' = Man /\ Tests' = Tests  BY <1>0, <1>2 DEF Tests, Man
  <2>2. m' = m /\ results' = results /\ overall' = overall  BY <1>0
  <2>3. m' <= Len(Manifests') /\ WellFormed(Man')  BY <1>2, <1>3, <2>1, <2>2
  <2>4. \A k \in Tests' : (results'[k] # "none") <=> k \in Selected(Man)'
    BY <1>2, <1>3, <2>1, <2>2
  <2>5. overall' = Worst(results')  BY <1>3, <2>1, <2>2
  <2>6. \A k \in Selected(Man)' : k \in Tests'  BY <2>1 DEF Selected, Tests
  <2> QED  BY <2>3, <2>4, <2>5, <2>6 DEF UnderWay
<1>13. Written'
  <2>1. ASSUME NEW n \in 1..N
        PROVE  Recorded(reports[n]) /\ reports[n].manifest \in Nat /\ reports[n].manifest < m
    <3>1. Recorded(reports[n]) /\ reports[n].manifest <= m /\ reports[n].manifest # m
      BY <1>0, <1>4 DEF IInv, Written
    <3>2. reports[n].manifest \in 1..Len(Manifests)  BY <1>4 DEF IInv, TypeOK
    <3> QED  BY <1>3, <3>1, <3>2
  <2>2. ASSUME NEW n \in 1..(N + 1)
        PROVE  Recorded(reports[n])' /\ reports'[n].manifest <= m
    <3>1. Recorded(reports'[n]) /\ reports'[n].manifest <= m
      <4>1. CASE n \in 1..N  BY <1>3, <1>4, <2>1, <4>1
      <4>2. CASE n = N + 1  BY <1>1, <1>3, <1>4, <1>5, <4>2
      <4> QED  BY <1>8, <4>1, <4>2
    <3> QED  BY <1>2, <3>1 DEF Recorded
  <2>3. \A i, j \in DOMAIN reports' : i < j => reports'[i].manifest < reports'[j].manifest
    <3> SUFFICES ASSUME NEW i \in 1..(N + 1), NEW j \in 1..(N + 1), i < j
                 PROVE  reports'[i].manifest < reports'[j].manifest
      BY <1>4
    <3>1. i \in 1..N  BY <1>4
    <3>2. CASE j \in 1..N  BY <1>4, <3>1, <3>2 DEF IInv, Written
    <3>3. CASE j = N + 1  BY <1>1, <1>4, <2>1, <3>1, <3>3
    <3> QED  BY <1>8, <3>2, <3>3
  <2>4. \A n \in 1..N :
           LET x   == reports[n]
               man == Manifests[x.manifest]
           IN  /\ markdown[n].manifest  = x.manifest /\ x.manifest < m
               /\ markdown[n].certified = x.certified
               /\ markdown[n].failures  = FailureDetails(man, x.tests)
    BY <1>9 DEF IInv, Written
  <2> QED  BY <1>0, <1>1, <1>2, <1>4, <1>9, <2>2, <2>3, <2>4 DEF Written
<1>14. Covered'
  <2>1. ASSUME NEW k \in 1..m-1, Selected(Manifests[k]) # {}
        PROVE  \E n \in 1..(N + 1) : reports'[n].manifest = k
    <3>1. PICK n \in 1..N : reports[n].manifest = k  BY <1>4, <2>1 DEF IInv, Covered
    <3> QED  BY <1>4, <3>1
  <2> QED  BY <1>0, <1>2, <1>4, <2>1 DEF Covered
<1> QED  BY <1>10, <1>11, <1>12, <1>13, <1>14 DEF IInv

\* The Markdown report agrees with the JSON report before it.
LEMMA WriteMarkdownStep == IInv /\ WriteMarkdown => IInv'
<1> SUFFICES ASSUME IInv, WriteMarkdown PROVE IInv'  OBVIOUS
<1> DEFINE doc == [manifest  |-> m,
                   certified |-> HighestCertifiedLevel(Man, results),
                   failures  |-> FailureDetails(Man, results)]
           N == Len(markdown)
<1>0. /\ pc = "markdown" /\ pc' = "load" /\ m' = m + 1 /\ markdown' = Append(markdown, doc)
      /\ UNCHANGED <<run, prereqs, results, overall, reports, torn, exit>>
  BY DEF WriteMarkdown
<1>1. /\ doc.manifest = m /\ doc.certified = HighestCertifiedLevel(Man, results)
      /\ doc.failures = FailureDetails(Man, results)
  OBVIOUS
<1> HIDE DEF doc
<1>2. /\ Manifests' = Manifests /\ \A man : Selected(man)' = Selected(man)
      /\ \A x : Recorded(x)' <=> Recorded(x)
  BY <1>0, Frame
<1>3. m \in 1..Len(Manifests) /\ Len(Manifests) \in Nat
  BY <1>0, ManifestFacts DEF IInv, TypeOK, UnderWay
<1>4. /\ N \in Nat /\ IsSeq(markdown') /\ DOMAIN markdown = 1..N /\ Len(markdown') = N + 1
      /\ DOMAIN markdown' = 1..(N + 1) /\ markdown'[N + 1] = doc
      /\ \A n \in 1..N : markdown'[n] = markdown[n]
  <2>1. IsSeq(markdown)  BY DEF IInv, TypeOK
  <2> QED  BY <1>0, <2>1, AppendFacts
<1> HIDE DEF N
<1>5. /\ Len(reports) = N + 1 /\ DOMAIN reports = 1..(N + 1)
      /\ reports[N + 1].manifest = m /\ reports[N + 1].tests = results
  <2>1. Len(reports) = N + 1 /\ reports[N + 1].manifest = m /\ reports[N + 1].tests = results
    BY <1>0 DEF IInv, Written, N
  <2>2. IsSeq(reports)  BY DEF IInv, TypeOK
  <2> QED  BY <2>1, <2>2 DEF IsSeq
<1>6. \A n \in 1..(N + 1) : n \in 1..N \/ n = N + 1  BY <1>4
<1>7. ASSUME NEW n \in DOMAIN reports
      PROVE  /\ Recorded(reports[n]) /\ reports[n].manifest <= m
             /\ reports[n].manifest \in Nat /\ reports[n].manifest < m + 1
  <2>1. Recorded(reports[n]) /\ reports[n].manifest <= m  BY DEF IInv, Written
  <2>2. reports[n].manifest \in 1..Len(Manifests)  BY DEF IInv, TypeOK
  <2> QED  BY <1>3, <2>1, <2>2
<1>8. TypeOK'
  BY <1>0, <1>2, <1>3, <1>4, <1>5 DEF IInv, TypeOK
<1>9. Gated'
  BY <1>0, <1>2 DEF IInv, TypeOK, Gated, PrereqsGate
<1>10. UnderWay'  BY <1>0 DEF UnderWay
<1>11. Written'
  <2>1. \A n \in DOMAIN reports : Recorded(reports[n])' /\ reports[n].manifest <= m + 1
                                  /\ reports[n].manifest # m + 1
    <3> TAKE n \in DOMAIN reports
    <3>1. Recorded(reports[n])'  BY <1>0, <1>2, <1>7 DEF Recorded
    <3> QED  BY <1>3, <1>7, <3>1
  <2>2. ASSUME NEW n \in 1..(N + 1)
        PROVE  LET x   == reports[n]
                   man == Manifests[x.manifest]
               IN  /\ markdown'[n].manifest  = x.manifest /\ x.manifest < m + 1
                   /\ markdown'[n].certified = x.certified
                   /\ markdown'[n].failures  = FailureDetails(man, x.tests)
    <3>1. n \in DOMAIN reports /\ reports[n].manifest < m + 1  BY <1>5, <1>7
    <3>2. CASE n \in 1..N
      <4>1. /\ markdown[n].manifest = reports[n].manifest
            /\ markdown[n].certified = reports[n].certified
            /\ markdown[n].failures
                  = FailureDetails(Manifests[reports[n].manifest], reports[n].tests)
        BY <1>4, <3>2 DEF IInv, Written
      <4> QED  BY <1>4, <3>1, <3>2, <4>1
    <3>3. CASE n = N + 1
      <4>1. reports[n].certified = HighestCertifiedLevel(Man, results)
        BY <1>5, <1>7, <3>1, <3>3 DEF Recorded, Man
      <4> QED  BY <1>1, <1>4, <1>5, <3>1, <3>3, <4>1 DEF Man
    <3> QED  BY <1>6, <3>2, <3>3
  <2>3. \A i, j \in DOMAIN reports : i < j => reports[i].manifest < reports[j].manifest
    BY DEF IInv, Written
  <2> QED  BY <1>0, <1>2, <1>4, <1>5, <2>1, <2>2, <2>3 DEF Written
<1>12. Covered'
  <2>1. ASSUME NEW k \in 1..(m + 1)-1, Selected(Manifests[k]) # {}
        PROVE  \E n \in DOMAIN reports : reports[n].manifest = k
    <3>1. k \in 1..m-1 \/ k = m  BY <1>3
    <3>2. CASE k \in 1..m-1  BY <2>1, <3>2 DEF IInv, Covered
    <3>3. CASE k = m
      <4>1. N + 1 \in DOMAIN reports  BY <1>4, <1>5
      <4> QED  BY <1>5, <3>3, <4>1
    <3> QED  BY <3>1, <3>2, <3>3
  <2> QED  BY <1>0, <1>2, <2>1 DEF Covered
<1> QED  BY <1>8, <1>9, <1>10, <1>11, <1>12 DEF IInv

\* The run ends, in any way that leaves its documents alone.
LEMMA EndKeeps ==
    ASSUME IInv, UNCHANGED <<run, prereqs, m, results, overall, reports, markdown>>,
           pc' \in {"exited", "crashed", "killed"}, pc' = "exited" => pc = "load"
    PROVE  UnderWay' /\ Written' /\ Covered'
<1>1. /\ Manifests' = Manifests /\ \A man : Selected(man)' = Selected(man)
      /\ \A rep : Recorded(rep)' <=> Recorded(rep)
  BY Frame
<1>2. UnderWay'  BY DEF UnderWay
<1>3. Written'
  <2>1. \A n \in DOMAIN reports : Recorded(reports[n])'
    BY <1>1 DEF IInv, Written, Recorded
  <2> QED  BY <1>1, <2>1 DEF IInv, Written
<1>4. Covered'  BY <1>1 DEF IInv, Covered
<1> QED  BY <1>2, <1>3, <1>4

\* The exit status is that of all reports.
LEMMA SummarizeStep == IInv /\ Summarize => IInv'
<1> SUFFICES ASSUME IInv, Summarize PROVE IInv'  OBVIOUS
<1> USE DEF Summarize, Exit, docVars
<1>1. Manifests' = Manifests  BY Frame
<1>2. UnderWay' /\ Written' /\ Covered'  BY EndKeeps
<1>3. TypeOK'
  <2>1. Len(Manifests) \in Nat  BY ManifestFacts DEF IInv, TypeOK
  <2> QED  BY <1>1, <2>1 DEF IInv, TypeOK
<1>4. Gated'  BY <1>1 DEF IInv, TypeOK, Gated, PrereqsGate
<1> QED  BY <1>2, <1>3, <1>4 DEF IInv

\* An exception leaves the documents that are complete as they are.
LEMMA CrashStep == IInv /\ Crash => IInv'
<1> SUFFICES ASSUME IInv, Crash PROVE IInv'  OBVIOUS
<1> USE DEF Crash, CutOff
<1>1. Manifests' = Manifests  BY Frame
<1>2. UnderWay' /\ Written' /\ Covered'  BY EndKeeps
<1>3. TypeOK'
  <2>1. torn' \in {"none", "json", "markdown"}  OBVIOUS
  <2> QED  BY <1>1, <2>1 DEF IInv, TypeOK
<1>4. Gated'  BY <1>1 DEF IInv, TypeOK, Gated, PrereqsGate
<1> QED  BY <1>2, <1>3, <1>4 DEF IInv

\* A step of the services around the harness leaves it alone.
LEMMA StutterStep == IInv /\ UNCHANGED vars => IInv'
<1> SUFFICES ASSUME IInv, UNCHANGED vars PROVE IInv'  OBVIOUS
<1> USE DEF vars, docVars
<1>1. Manifests' = Manifests /\ \A man : Selected(man)' = Selected(man)  BY Frame
<1>2. Man' = Man /\ Tests' = Tests  BY <1>1 DEF Man, Tests
<1>3. TypeOK'  BY <1>1, <1>2 DEF IInv, TypeOK
<1>4. Gated'  BY <1>1 DEF IInv, Gated, PrereqsGate
<1>5. UnderWay'  BY <1>1, <1>2 DEF IInv, UnderWay
<1>6. Written'
  <2>1. \A n \in DOMAIN reports : Recorded(reports[n])'
    BY <1>1 DEF IInv, Written, Recorded
  <2> QED  BY <1>1, <2>1 DEF IInv, Written
<1>7. Covered'  BY <1>1 DEF IInv, Covered
<1> QED  BY <1>3, <1>4, <1>5, <1>6, <1>7 DEF IInv

\* Every step of the harness keeps the invariant.
LEMMA NextInvariant == IInv /\ [Next]_vars => IInv'
<1> SUFFICES ASSUME IInv, [Next]_vars PROVE IInv'  OBVIOUS
<1>1. CASE NoManifest  BY <1>1, NoManifestStep
<1>2. CASE RunPrereq  BY <1>2, RunPrereqStep
<1>3. CASE PrereqsDone  BY <1>3, PrereqsDoneStep
<1>4. CASE LoadManifest  BY <1>4, LoadManifestStep
<1>5. CASE RunTest  BY <1>5, RunTestStep
<1>6. CASE WriteJson  BY <1>6, WriteJsonStep
<1>7. CASE WriteMarkdown  BY <1>7, WriteMarkdownStep
<1>8. CASE Summarize  BY <1>8, SummarizeStep
<1>9. CASE Crash  BY <1>9, CrashStep
<1>10. CASE UNCHANGED vars  BY <1>10, StutterStep
<1> QED  BY <1>1, <1>2, <1>3, <1>4, <1>5, <1>6, <1>7, <1>8, <1>9, <1>10 DEF Next

\* Every reachable state of a run satisfies the inductive invariant.
THEOREM Invariant == Spec => []IInv
BY InitInvariant, NextInvariant, PTL DEF Spec

-----------------------------------------------------------------------------
(* The properties, from the invariant.                                     *)

\* What the invariant says of one report.
LEMMA ReportFacts ==
    ASSUME IInv, NEW n \in DOMAIN reports
    PROVE  LET rep == reports[n]
               man == Manifests[rep.manifest]
           IN  /\ rep.manifest \in 1..Len(Manifests)
               /\ IsManifest(man) /\ WellFormed(man) /\ ByLevel(man, rep.tests)
               /\ rep.tests \in [DOMAIN man.tests -> Verdicts \cup {"none"}]
               /\ \A k \in DOMAIN man.tests : (rep.tests[k] # "none") <=> k \in Selected(man)
               /\ rep.result    = Worst(rep.tests)
               /\ rep.certified = HighestCertifiedLevel(man, rep.tests)
               /\ rep.levels    = LevelDoc(man, rep.tests)
<1> DEFINE rep == reports[n]
           man == Manifests[rep.manifest]
<1>1. /\ rep.manifest \in 1..Len(Manifests)
      /\ rep.tests \in [DOMAIN man.tests -> Verdicts \cup {"none"}]
  BY DEF IInv, TypeOK
<1>2. Recorded(rep)  BY DEF IInv, Written
<1>3. IsManifest(man)  BY <1>1, ManifestFacts DEF IInv, TypeOK
<1>4. /\ WellFormed(man)
      /\ \A k \in DOMAIN man.tests : (rep.tests[k] # "none") <=> k \in Selected(man)
      /\ rep.result    = Worst(rep.tests)
      /\ rep.certified = HighestCertifiedLevel(man, rep.tests)
      /\ rep.levels    = LevelDoc(man, rep.tests)
  BY <1>2 DEF Recorded
<1> HIDE DEF rep, man
<1>5. ByLevel(man, rep.tests)  BY <1>4, SelectedByLevel
<1> QED  BY <1>1, <1>3, <1>4, <1>5 DEF rep, man

\* The result "pass" means that no test did anything else.
LEMMA PassedFacts ==
    ASSUME NEW D, NEW res \in [D -> Verdicts \cup {"none"}]
    PROVE  Worst(res) = "pass" <=> \A k \in D : res[k] \in {"pass", "none"}
<1>1. /\ (\E k \in D : res[k] = "error") => Worst(res) = "error"
      /\ (~\E k \in D : res[k] = "error") /\ (\E k \in D : res[k] = "fail") => Worst(res) = "fail"
      /\ (~\E k \in D : res[k] = "error") /\ (~\E k \in D : res[k] = "fail") => Worst(res) = "pass"
  BY WorstFacts
<1>2. \A k \in D : res[k] \in {"pass", "none", "fail", "error"}  BY DEF Verdicts
<1>3. CASE \E k \in D : res[k] = "error"  BY <1>1, <1>3
<1>4. CASE (~\E k \in D : res[k] = "error") /\ \E k \in D : res[k] = "fail"  BY <1>1, <1>4
<1>5. CASE (~\E k \in D : res[k] = "error") /\ ~\E k \in D : res[k] = "fail"
  BY <1>1, <1>2, <1>5
<1> QED  BY <1>3, <1>4, <1>5

\* What is certified is earned: the walk and its clamp against Earned.
LEMMA CertifiedState == IInv => CertifiedLevelEarned
<1> SUFFICES ASSUME IInv, NEW n \in DOMAIN reports
             PROVE  LET rep == reports[n]
                        man == Manifests[rep.manifest]
                        within(l) == man.cap = NoLevel \/ Rank(man, l) <= Rank(man, man.cap)
                        earned == {l \in Levels : /\ \E k \in DOMAIN man.tests : man.tests[k] = l
                                                  /\ within(l) /\ Earned(rep, l)}
                    IN  IF rep.certified = NoLevel
                        THEN earned = {}
                        ELSE /\ rep.certified \in earned
                             /\ \A l \in earned : Rank(man, l) <= Rank(man, rep.certified)
  BY DEF CertifiedLevelEarned
<1> DEFINE rep == reports[n]
           man == Manifests[rep.manifest]
           c   == rep.certified
           earned == EarnedLevels(man, rep.tests)
<1>1. /\ IsManifest(man) /\ WellFormed(man) /\ ByLevel(man, rep.tests)
      /\ c = HighestCertifiedLevel(man, rep.tests)
  BY ReportFacts
<1>2. /\ c = NoLevel => earned = {}
      /\ c # NoLevel => c \in earned /\ \A l \in earned : Rank(man, l) <= Rank(man, c)
  <2> HIDE DEF rep, man
  <2> QED  BY <1>1, CertifiedIsHighestEarned
<1>3. \A l \in Levels : Earned(rep, l) <=> EarnedBy(man, rep.tests, l)
  BY DEF Earned, EarnedBy
<1>4. earned = {l \in Levels : /\ \E k \in DOMAIN man.tests : man.tests[k] = l
                               /\ man.cap = NoLevel \/ Rank(man, l) <= Rank(man, man.cap)
                               /\ Earned(rep, l)}
  BY <1>3 DEF EarnedLevels, Within
<1> HIDE DEF rep, man, c, earned
<1>5. CASE c = NoLevel
  BY <1>2, <1>4, <1>5 DEF rep, man, c
<1>6. CASE c # NoLevel
  BY <1>2, <1>4, <1>6 DEF rep, man, c
<1> QED  BY <1>5, <1>6

\* For every manifest, filter, cap and verdicts: the certified level of a report
\* is earned over the unfiltered manifest, within the cap, and the highest such.
THEOREM CertificationEarned == Spec => []CertifiedLevelEarned
BY Invariant, CertifiedState, PTL

\* The levels that a report lists, against its certified level and its verdicts.
LEMMA LevelDocFacts ==
    ASSUME NEW man, NEW res, IsManifest(man), WellFormed(man), NEW l \in DOMAIN LevelDoc(man, res)
    PROVE  LET c == HighestCertifiedLevel(man, res)
           IN  /\ c # NoLevel /\ Rank(man, l) <= Rank(man, c) => LevelDoc(man, res)[l] = "pass"
               /\ (\A k \in DOMAIN man.tests : res[k] \in {"pass", "none"}) =>
                      LevelDoc(man, res)[l] # "fail"
<1> DEFINE L == AllLevels(man)
           c == HighestCertifiedLevel(man, res)
           R == ResultsAt(man, res, l)
<1>0. /\ L \in Seq(Levels) /\ NoLevel \notin Levels
      /\ \A i, j \in 1..Len(L) : i < j => Rank(man, L[i]) < Rank(man, L[j])
      /\ \A i \in 1..Len(L) : Rank(man, L[i]) \in Nat
  BY LevelFacts, LevelAssumption DEF LevelAssumption
<1>1. PICK q \in 0..Len(L) :
        /\ c = IF q = 0 THEN NoLevel ELSE L[q]
        /\ \A i \in 1..q : Clean(man, res, L[i])
  BY CertifiedPrefix
<1>2. l \in ToSet(L)  BY DEF LevelDoc
<1>3. LevelDoc(man, res)[l] = IF R = {} THEN "skip" ELSE IF R = {"pass"} THEN "pass" ELSE "fail"
  BY <1>2 DEF LevelDoc
<1> HIDE DEF L, c
<1>4. PICK i \in 1..Len(L) : L[i] = l  BY <1>0, <1>2 DEF ToSet
<1>5. ASSUME c # NoLevel, Rank(man, l) <= Rank(man, c)
      PROVE  LevelDoc(man, res)[l] = "pass"
  <2>1. q # 0 /\ c = L[q] /\ q \in 1..Len(L)  BY <1>0, <1>1, <1>5
  <2>2. ~(q < i)  BY <1>0, <1>4, <1>5, <2>1
  <2>3. i \in 1..q  BY <1>0, <1>4, <2>1, <2>2
  <2>4. R = {"pass"}  BY <1>1, <1>4, <2>3 DEF Clean
  <2> HIDE DEF R
  <2> QED  BY <1>3, <2>4
<1>6. ASSUME \A k \in DOMAIN man.tests : res[k] \in {"pass", "none"}
      PROVE  LevelDoc(man, res)[l] # "fail"
  <2>1. \A x \in R : x = "pass"  BY <1>6 DEF ResultsAt
  <2>2. R = {} \/ R = {"pass"}  BY <2>1
  <2> HIDE DEF R
  <2> QED  BY <1>3, <2>2
<1> QED  BY <1>5, <1>6 DEF c

\* The failure details have every test that did not pass, with a level or without.
LEMMA FailureFacts ==
    ASSUME NEW man, NEW res, IsManifest(man)
    PROVE  FailureDetails(man, res) = {k \in DOMAIN man.tests : res[k] \notin {"none", "pass"}}
<1> DEFINE All == {k \in DOMAIN man.tests : res[k] \notin {"none", "pass"}}
           S == ToSet(AllLevels(man)) \cup {NoLevel}
<1>1. \A k \in DOMAIN man.tests : man.tests[k] \in S
  <2> TAKE k \in DOMAIN man.tests
  <2>1. CASE man.tests[k] = NoLevel  BY <2>1
  <2>2. CASE man.tests[k] # NoLevel
    <3>1. AllLevels(man) \in Seq(Levels)  BY LevelFacts
    <3>2. PICK i \in 1..Len(AllLevels(man)) : AllLevels(man)[i] = man.tests[k]
      BY <2>2, LevelFacts
    <3>3. i \in DOMAIN AllLevels(man)  BY <3>1
    <3> QED  BY <3>2, <3>3 DEF ToSet
  <2> QED  BY <2>1, <2>2
<1> HIDE DEF S
<1>2. FailureDetails(man, res)
        = UNION {{k \in DOMAIN man.tests : man.tests[k] = l /\ res[k] \notin {"none", "pass"}} :
                    l \in S}
  BY DEF FailureDetails, S
<1> QED  BY <1>1, <1>2

\* Result, levels and failures of a report are read off the same verdicts.
LEMMA ConsistentState == IInv => ReportConsistent
<1> SUFFICES ASSUME IInv, NEW n \in DOMAIN reports
             PROVE  LET rep == reports[n]
                        man == Manifests[rep.manifest]
                    IN  /\ rep.result = Worst(rep.tests)
                        /\ \A l \in DOMAIN rep.levels :
                             rep.certified # NoLevel /\ Rank(man, l) <= Rank(man, rep.certified)
                             => rep.levels[l] = "pass"
                        /\ rep.result = "pass" => \A l \in DOMAIN rep.levels : rep.levels[l] # "fail"
                        /\ n <= Len(markdown) =>
                             /\ markdown[n].manifest = rep.manifest
                             /\ markdown[n].certified = rep.certified
                             /\ (markdown[n].failures = {}) <=> (rep.result = "pass")
  BY DEF ReportConsistent
<1> DEFINE rep == reports[n]
           man == Manifests[rep.manifest]
<1>1. /\ IsManifest(man) /\ WellFormed(man)
      /\ rep.tests \in [DOMAIN man.tests -> Verdicts \cup {"none"}]
      /\ rep.result    = Worst(rep.tests)
      /\ rep.certified = HighestCertifiedLevel(man, rep.tests)
      /\ rep.levels    = LevelDoc(man, rep.tests)
  BY ReportFacts
<1>2. n <= Len(markdown) => /\ markdown[n].manifest  = rep.manifest
                            /\ markdown[n].certified = rep.certified
                            /\ markdown[n].failures  = FailureDetails(man, rep.tests)
  <2>1. IsSeq(reports) /\ IsSeq(markdown)  BY DEF IInv, TypeOK
  <2>2. n \in 1..Len(reports) /\ (n <= Len(markdown) => n \in DOMAIN markdown)
    BY <2>1 DEF IsSeq
  <2> QED  BY <2>2 DEF IInv, Written
<1> HIDE DEF rep, man
<1>3. rep.result = "pass" <=> \A k \in DOMAIN man.tests : rep.tests[k] \in {"pass", "none"}
  BY <1>1, PassedFacts
<1>4. \A l \in DOMAIN rep.levels :
        rep.certified # NoLevel /\ Rank(man, l) <= Rank(man, rep.certified)
        => rep.levels[l] = "pass"
  BY <1>1, LevelDocFacts
<1>5. rep.result = "pass" => \A l \in DOMAIN rep.levels : rep.levels[l] # "fail"
  BY <1>1, <1>3, LevelDocFacts
<1>6. n <= Len(markdown) => ((markdown[n].failures = {}) <=> (rep.result = "pass"))
  <2> SUFFICES ASSUME n <= Len(markdown)
               PROVE  (markdown[n].failures = {}) <=> (rep.result = "pass")
    OBVIOUS
  <2>1. markdown[n].failures
          = {k \in DOMAIN man.tests : rep.tests[k] \notin {"none", "pass"}}
    BY <1>1, <1>2, FailureFacts
  <2> QED  BY <1>3, <2>1
<1> QED  BY <1>1, <1>2, <1>4, <1>5, <1>6 DEF rep, man

\* For every run: the two documents of a certification agree with each other and
\* with the verdicts.
THEOREM DocumentsAgree == Spec => []ReportConsistent
BY Invariant, ConsistentState, PTL

\* A test is selected exactly when the command line means it.
LEMMA SelectedIsAsked ==
    ASSUME run \in Runs, NEW i \in 1..Len(Manifests), NEW k \in DOMAIN Manifests[i].tests
    PROVE  k \in Selected(Manifests[i]) <=> Asked(Manifests[i], k)
<1> DEFINE man == Manifests[i]
           l   == man.tests[k]
           A   == ToSet(run.asked)
<1>1. /\ man \in ToSet(run.installed) /\ IsManifest(man)
      /\ run.asked \in Seq(Filters)
      /\ l # NoLevel => VersionOf[l] = man.version
  BY ManifestFacts, RunFacts
<1>2. Selected(man) = {j \in DOMAIN man.tests :
          LevelFilters(man.version) = {}
          \/ \E f \in LevelFilters(man.version) : MatchesLevel(man.tests[j], f)}
  BY DEF Selected
<1>3. run.asked # <<>> => \E f \in A : man.version = VersionOf[f]
  BY DiscoverFacts DEF Manifests
<1>4. l # NoLevel => VersionOf[l] = man.version /\ VersionOf[ReleaseOf[l]] = man.version
  <2>1. l # NoLevel => l \in Levels  BY <1>1 DEF IsManifest
  <2> QED  BY <1>1, <2>1, LevelAssumption DEF LevelAssumption
<1> HIDE DEF man
<1>5. k \in DOMAIN man.tests  BY DEF man
<1>6. CASE run.asked = <<>>
  <2>1. A = {}  BY <1>6 DEF ToSet
  <2>2. LevelFilters(man.version) = {}  BY <2>1 DEF LevelFilters
  <2> QED  BY <1>2, <1>5, <1>6, <2>2 DEF Asked, man
<1>7. CASE run.asked # <<>> /\ man.version \in A
  <2>1. LevelFilters(man.version) = {}  BY <1>7 DEF LevelFilters
  <2> QED  BY <1>2, <1>5, <1>7, <2>1 DEF Asked, man
<1>8. CASE run.asked # <<>> /\ man.version \notin A
  <2>1. LevelFilters(man.version) = {f \in A : VersionOf[f] = man.version}
    BY <1>8 DEF LevelFilters
  <2>2. LevelFilters(man.version) # {}  BY <1>3, <1>8, <2>1
  <2>3. k \in Selected(man) <=> \E f \in A : VersionOf[f] = man.version /\ MatchesLevel(l, f)
    BY <1>2, <1>5, <2>1, <2>2
  <2>4. \A f \in A : MatchesLevel(l, f) => VersionOf[f] = man.version
    BY <1>4 DEF MatchesLevel
  <2>5. \A f : MatchesLevel(l, f) <=> l # NoLevel /\ f \in {l, ReleaseOf[l]}
    BY DEF MatchesLevel
  <2>6. Asked(man, k) <=> \E f \in A : l # NoLevel /\ f \in {l, ReleaseOf[l]}
    BY <1>8 DEF Asked
  <2> HIDE DEF A, l
  <2> QED  BY <2>3, <2>4, <2>5, <2>6 DEF man
<1> QED  BY <1>6, <1>7, <1>8

\* The reports are those of the manifests and tests that were asked for.
LEMMA CompleteState == IInv => ReportComplete
<1> SUFFICES ASSUME IInv PROVE ReportComplete  OBVIOUS
<1>0. run \in Runs  BY DEF IInv, TypeOK
<1>1. ASSUME NEW n \in DOMAIN reports,
             NEW k \in DOMAIN Manifests[reports[n].manifest].tests
      PROVE  (reports[n].tests[k] # "none") <=> Asked(Manifests[reports[n].manifest], k)
  BY <1>0, ReportFacts, SelectedIsAsked
<1>2. ASSUME pc = "exited", Manifests # <<>>, \A k \in DOMAIN prereqs : prereqs[k] = "pass",
             NEW j \in DOMAIN run.installed, NEW k \in DOMAIN run.installed[j].tests,
             Asked(run.installed[j], k)
      PROVE  \E n \in DOMAIN reports : Manifests[reports[n].manifest] = run.installed[j]
  <2> DEFINE man == run.installed[j]
  <2>1. man \in ToSet(run.installed) /\ man \in Installed /\ man.version \in Versions
    <3>1. man \in ToSet(run.installed)  BY DEF ToSet
    <3>2. man \in Installed  BY <1>0, <3>1, RunFacts
    <3> QED  BY <3>1, <3>2 DEF Installed
  <2>2. PICK i \in 1..Len(Manifests) : Manifests[i] = man
    <3>1. CASE run.asked = <<>>
      <4>1. Manifests = run.installed  BY <1>0, <3>1, DiscoverFacts DEF Manifests
      <4>2. j \in 1..Len(Manifests)  BY <1>0, <4>1, ManifestFacts
      <4> QED  BY <4>1, <4>2
    <3>2. CASE run.asked # <<>>
      <4> DEFINE l == man.tests[k]
      <4>1. PICK f \in ToSet(run.asked) :
               f = man.version \/ (l # NoLevel /\ f \in {l, ReleaseOf[l]})
        BY <1>2, <3>2 DEF Asked
      <4>2. VersionOf[f] = man.version
        <5>1. CASE f = man.version
          BY <2>1, <5>1, LevelAssumption DEF LevelAssumption
        <5>2. CASE l # NoLevel /\ f \in {l, ReleaseOf[l]}
          <6>1. VersionOf[l] = man.version  BY <1>0, <2>1, <5>2, RunFacts
          <6>2. l \in Levels  BY <2>1, <5>2 DEF Installed
          <6> QED  BY <5>2, <6>1, <6>2, LevelAssumption DEF LevelAssumption
        <5> QED  BY <4>1, <5>1, <5>2
      <4> HIDE DEF man
      <4> QED  BY <1>0, <2>1, <3>2, <4>2, DiscoverFacts DEF Manifests
    <3> QED  BY <3>1, <3>2
  <2>3. k \in Selected(Manifests[i])  BY <1>0, <1>2, <2>2, SelectedIsAsked
  <2>4. i \in 1..m-1
    <3>1. m > Len(Manifests) /\ m \in 1..Len(Manifests) + 1 /\ Len(Manifests) \in Nat
      BY <1>0, <1>2, ManifestFacts DEF IInv, Gated, TypeOK
    <3> QED  BY <3>1
  <2>5. PICK n \in DOMAIN reports : reports[n].manifest = i
    BY <2>3, <2>4 DEF IInv, Covered
  <2> QED  BY <2>2, <2>5
<1> QED  BY <1>1, <1>2 DEF ReportComplete

\* For every run: a report has a verdict for exactly the tests that the command
\* line means, and a run that returns has all of them in its reports.
THEOREM NothingSkipped == Spec => []ReportComplete
BY Invariant, CompleteState, PTL

\* Types, for every run.
THEOREM TypeCorrect == Spec => []TypeOK
<1>1. IInv => TypeOK  BY DEF IInv
<1> QED  BY <1>1, Invariant, PTL

\* For every run: no test runs unless every prerequisite ran and passed.
THEOREM PrereqsFirst == Spec => []PrereqsGate
<1>1. IInv => PrereqsGate  BY DEF IInv, Gated
<1> QED  BY <1>1, Invariant, PTL

\* A verdict that is not "pass" is in a report, and the status counts every report.
LEMMA ExitState == IInv => ExitZeroMeansPassed
<1> SUFFICES ASSUME IInv, exit = "0"
             PROVE  /\ \A k \in DOMAIN prereqs : prereqs[k] = "pass"
                    /\ \A n \in DOMAIN reports : \A k \in DOMAIN reports[n].tests :
                           reports[n].tests[k] \in {"pass", "none"}
  BY DEF ExitZeroMeansPassed
<1>1. /\ \A k \in DOMAIN prereqs : prereqs[k] = "pass"
      /\ \A n \in DOMAIN reports : reports[n].result = "pass"
  BY DEF IInv, Gated
<1>2. ASSUME NEW n \in DOMAIN reports, NEW k \in DOMAIN reports[n].tests
      PROVE  reports[n].tests[k] \in {"pass", "none"}
  <2> DEFINE rep == reports[n]  D == DOMAIN Manifests[rep.manifest].tests
  <2>1. rep.tests \in [D -> Verdicts \cup {"none"}] /\ Worst(rep.tests) = "pass"
    BY <1>1, ReportFacts
  <2>2. k \in D  BY <2>1
  <2> HIDE DEF D
  <2> QED  BY <2>1, <2>2, PassedFacts
<1> QED  BY <1>1, <1>2

\* For every run: exit status 0 means that every prerequisite and every test that
\* ran passed.
THEOREM ZeroMeansPassed == Spec => []ExitZeroMeansPassed
BY Invariant, ExitState, PTL
=============================================================================
