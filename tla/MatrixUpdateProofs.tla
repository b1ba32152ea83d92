------------------------- MODULE MatrixUpdateProofs -------------------------
(***************************************************************************)
(* Proofs about the two jobs of MatrixUpdate, for any number of issues,    *)
(* tables and certificates.                                                *)
(***************************************************************************)
EXTENDS MatrixUpdate, FoldFacts

-----------------------------------------------------------------------------
(* Without.                                                                *)

\* Without, turn by turn.
LEMMA WithoutTurns ==
    ASSUME NEW x, NEW S, NEW seq \in Seq(S)
    PROVE  \E turn \in [0..Len(seq) -> Seq(S)] :
              /\ turn[0] = <<>>
              /\ \A i \in 1..Len(seq) : turn[i] = Keep(x, turn[i-1], seq[i])
              /\ Without(x, seq) = turn[Len(seq)]
<1> DEFINE N == Len(seq)
           F == [i \in 1..N |-> [kept \in Seq(S) |-> Keep(x, kept, seq[i])]]
           Turns(iter) == [s \in SUBSET DOMAIN seq |->
                              IF s = {} THEN <<>>
                              ELSE Keep(x, iter[s \ {Max(s)}], seq[Max(s)])]
<1>0. N \in Nat /\ DOMAIN seq = 1..N /\ <<>> \in Seq(S)  OBVIOUS
<1>1. F \in [1..N -> [Seq(S) -> Seq(S)]]
  <2>1. \A i \in 1..N : seq[i] \in S  OBVIOUS
  <2> QED  BY <2>1 DEF Keep
<1>2. PICK it : IsFold(Seq(S), <<>>, N, F, it)
  <2> HIDE DEF F, N
  <2> QED  BY <1>0, <1>1, FoldExists
<1>3. it = Turns(it)
  <2>1. ASSUME NEW s \in SUBSET (1..N), s # {}
        PROVE  it[s] = Keep(x, it[s \ {Max(s)}], seq[Max(s)])
    <3>1. Max(s) \in 1..N
      <4> HIDE DEF N
      <4> QED  BY <1>0, <2>1, MaxOf
    <3>2. it[s \ {Max(s)}] \in Seq(S)  BY <1>2 DEF IsFold
    <3>3. F[Max(s)][it[s \ {Max(s)}]] = Keep(x, it[s \ {Max(s)}], seq[Max(s)])  BY <3>1, <3>2
    <3> HIDE DEF F, N
    <3> QED  BY <1>2, <2>1, <3>3 DEF IsFold
  <2> HIDE DEF F, N
  <2>2. DOMAIN it = SUBSET (1..N) /\ it = [s \in SUBSET (1..N) |-> it[s]]  BY <1>2 DEF IsFold
  <2>3. \A s \in SUBSET (1..N) : it[s] = IF s = {} THEN <<>>
                                         ELSE Keep(x, it[s \ {Max(s)}], seq[Max(s)])
    BY <1>2, <2>1 DEF IsFold
  <2> QED  BY <1>0, <2>2, <2>3
<1> DEFINE iter == CHOOSE g : g = Turns(g)
<1>4. iter = Turns(iter)  BY <1>3
<1>5. Without(x, seq) = iter[1..N]
  BY <1>0 DEF Without, FoldLeft, MapThenFoldSet
<1> HIDE DEF iter
<1> DEFINE turn == [i \in 0..N |-> iter[1..i]]
<1>6. turn[0] = <<>>
  <2>1. iter[{}] = <<>>  BY <1>4
  <2> QED  BY <2>1, 1..0 = {}
<1>7. ASSUME NEW i \in 1..N  PROVE turn[i] = Keep(x, turn[i-1], seq[i])
  <2>1. Max(1..i) = i /\ (1..i) \ {i} = 1..i-1 /\ 1..i # {}  BY Prefix
  <2>2. iter[1..i] = Keep(x, iter[(1..i) \ {Max(1..i)}], seq[Max(1..i)])
    <3>1. 1..i \in SUBSET DOMAIN seq  OBVIOUS
    <3> QED  BY <1>4, <2>1, <3>1
  <2>3. i \in 0..N /\ i - 1 \in 0..N  BY <1>0
  <2>4. turn[i] = iter[1..i] /\ turn[i-1] = iter[1..i-1]  BY <2>3
  <2> HIDE DEF turn
  <2> QED  BY <2>1, <2>2, <2>4
<1> HIDE DEF turn
<1> DEFINE Up == {n \in Nat : n <= N => turn[n] \in Seq(S)}
<1>8. Nat \subseteq Up
  <2>1. 0 \in Up  BY <1>0, <1>6
  <2>2. ASSUME NEW n \in Nat, n \in Up  PROVE n + 1 \in Up
    <3> SUFFICES ASSUME n + 1 <= N  PROVE turn[n+1] \in Seq(S)  OBVIOUS
    <3>1. turn[n] \in Seq(S)  BY <2>2
    <3>2. turn[n+1] = Keep(x, turn[n], seq[n+1]) /\ seq[n+1] \in S
      <4>1. n + 1 \in 1..N /\ (n + 1) - 1 = n  OBVIOUS
      <4> QED  BY <1>7, <4>1
    <3> QED  BY <3>1, <3>2 DEF Keep
  <2> HIDE DEF Up
  <2> QED  BY <2>1, <2>2, SetInduction
<1>9. turn \in [0..N -> Seq(S)]
  <2>1. \A n \in 0..N : turn[n] \in Seq(S)  BY <1>8
  <2>2. turn = [i \in 0..N |-> turn[i]]  BY DEF turn
  <2> QED  BY <2>1, <2>2
<1> QED
  <2>1. turn[N] = iter[1..N]  BY <1>0 DEF turn
  <2> HIDE DEF N
  <2> QED  BY <1>5, <1>6, <1>7, <1>9, <2>1 DEF N

\* kept holds what the first n of seq have but x, each with what follows on it.
KeptUpTo(x, seq, n, kept) ==
    /\ \A p \in 1..n : seq[p] # x => \E k \in 1..Len(kept) : kept[k] = seq[p]
    /\ \A k \in 1..Len(kept) : \E p \in 1..n :
          /\ seq[p] = kept[k] /\ kept[k] # x
          /\ \A q \in 1..n : q > p /\ seq[q] # x =>
                \E l \in 1..Len(kept) : l > k /\ kept[l] = seq[q]

\* What Without returns.
LEMMA WithoutFacts ==
    ASSUME NEW x, NEW S, NEW seq \in Seq(S)
    PROVE  Without(x, seq) \in Seq(S) /\ KeptUpTo(x, seq, Len(seq), Without(x, seq))
<1> DEFINE N == Len(seq)
<1>0. N \in Nat  OBVIOUS
<1>1. PICK turn \in [0..N -> Seq(S)] :
          /\ turn[0] = <<>>
          /\ \A i \in 1..N : turn[i] = Keep(x, turn[i-1], seq[i])
          /\ Without(x, seq) = turn[N]
  BY WithoutTurns
<1> DEFINE P(n) == KeptUpTo(x, seq, n, turn[n])
           Up   == {n \in Nat : n <= N => P(n)}
<1>2. P(0)  BY <1>1 DEF KeptUpTo
<1>3. ASSUME NEW n \in Nat, n + 1 <= N, P(n)  PROVE P(n + 1)
  <2> DEFINE t == turn[n]  u == turn[n+1]  y == seq[n+1]
  <2>0. n \in 0..N /\ n + 1 \in 1..N /\ (n + 1) - 1 = n  BY <1>0, <1>3
  <2>1. t \in Seq(S) /\ y \in S /\ u = Keep(x, t, y)  BY <1>1, <2>0
  <2>2. KeptUpTo(x, seq, n, t)  BY <1>3
  <2> HIDE DEF t, u, N, P
  <2>3. \A k \in 1..(n+1) : k \in 1..n \/ (k = n + 1 /\ seq[k] = y)  OBVIOUS
  <2> HIDE DEF y
  <2>4. CASE y = x
    <3>1. u = t  BY <2>1, <2>4 DEF Keep
    <3>2. \A p \in 1..n : p \in 1..(n+1)  OBVIOUS
    <3>3. \A p \in 1..(n+1) : seq[p] # x => p \in 1..n  BY <2>3, <2>4
    <3>4. KeptUpTo(x, seq, n + 1, t)  BY <2>2, <3>2, <3>3 DEF KeptUpTo
    <3> QED  BY <3>1, <3>4 DEF P, u
  <2>5. CASE y # x
    <3>1. u = Append(t, y)  BY <2>1, <2>5 DEF Keep
    <3>2. /\ Len(u) = Len(t) + 1 /\ u[Len(t) + 1] = y /\ Len(t) \in Nat
          /\ \A i \in 1..Len(t) : u[i] = t[i] /\ i \in 1..Len(u) /\ Len(u) > i
          /\ Len(u) \in 1..Len(u)
      BY <2>1, <3>1
    <3>3. \A i \in 1..Len(u) : i \in 1..Len(t) \/ i = Len(t) + 1  BY <3>2
    <3>4. ASSUME NEW p \in 1..(n+1), seq[p] # x
          PROVE  \E k \in 1..Len(u) : u[k] = seq[p]
      <4>1. CASE p \in 1..n
        <5>1. PICK k \in 1..Len(t) : t[k] = seq[p]  BY <2>2, <3>4, <4>1 DEF KeptUpTo
        <5> QED  BY <3>2, <5>1
      <4>2. CASE p = n + 1 /\ seq[p] = y  BY <3>2, <4>2
      <4> QED  BY <2>3, <4>1, <4>2
    <3>5. ASSUME NEW k \in 1..Len(u)
          PROVE  \E p \in 1..(n+1) :
                    /\ seq[p] = u[k] /\ u[k] # x
                    /\ \A q \in 1..(n+1) : q > p /\ seq[q] # x =>
                          \E l \in 1..Len(u) : l > k /\ u[l] = seq[q]
      <4>1. CASE k \in 1..Len(t)
        <5>1. PICK p \in 1..n :
                 /\ seq[p] = t[k] /\ t[k] # x
                 /\ \A q \in 1..n : q > p /\ seq[q] # x =>
                       \E l \in 1..Len(t) : l > k /\ t[l] = seq[q]
          BY <2>2, <4>1 DEF KeptUpTo
        <5>2. ASSUME NEW q \in 1..(n+1), q > p, seq[q] # x
              PROVE  \E l \in 1..Len(u) : l > k /\ u[l] = seq[q]
          <6>1. CASE q \in 1..n
            <7>1. PICK l \in 1..Len(t) : l > k /\ t[l] = seq[q]  BY <5>1, <5>2, <6>1
            <7> QED  BY <3>2, <7>1
          <6>2. CASE q = n + 1 /\ seq[q] = y  BY <3>2, <4>1, <6>2
          <6> QED  BY <2>3, <6>1, <6>2
        <5>3. p \in 1..(n+1) /\ seq[p] = u[k] /\ u[k] # x  BY <3>2, <4>1, <5>1
        <5> QED  BY <5>2, <5>3
      <4>2. CASE k = Len(t) + 1
        <5>1. n + 1 \in 1..(n+1) /\ seq[n+1] = u[k] /\ u[k] # x  BY <2>5, <3>2, <4>2 DEF y
        <5>2. \A q \in 1..(n+1) : ~(q > n + 1)  OBVIOUS
        <5> QED  BY <5>1, <5>2
      <4> QED  BY <3>3, <4>1, <4>2
    <3>6. KeptUpTo(x, seq, n + 1, u)  BY <3>4, <3>5 DEF KeptUpTo
    <3> QED  BY <3>6 DEF P, u
  <2> QED  BY <2>4, <2>5
<1> HIDE DEF P
<1>4. 0 \in Up /\ \A n \in Nat : n \in Up => n + 1 \in Up  BY <1>0, <1>2, <1>3
<1> HIDE DEF Up
<1>5. Nat \subseteq Up  BY <1>4, SetInduction
<1>6. P(N)  BY <1>0, <1>5 DEF Up
<1>7. turn[N] \in Seq(S)  BY <1>0, <1>1
<1> QED  BY <1>1, <1>6, <1>7 DEF P

\* What every cell is dropped from that has something in it is the row itself.
LEMMA NothingDropped ==
    ASSUME NEW x, NEW S, NEW seq \in Seq(S), \A k \in 1..Len(seq) : seq[k] # x
    PROVE  Len(Without(x, seq)) = Len(seq) /\ \A k \in 1..Len(seq) : Without(x, seq)[k] = seq[k]
<1> DEFINE N == Len(seq)
<1>0. N \in Nat  OBVIOUS
<1>1. PICK turn \in [0..N -> Seq(S)] :
          /\ turn[0] = <<>>
          /\ \A i \in 1..N : turn[i] = Keep(x, turn[i-1], seq[i])
          /\ Without(x, seq) = turn[N]
  BY WithoutTurns
<1> DEFINE P(n) == Len(turn[n]) = n /\ \A k \in 1..n : turn[n][k] = seq[k]
           Up   == {n \in Nat : n <= N => P(n)}
<1>2. P(0)  BY <1>1
<1>3. ASSUME NEW n \in Nat, n + 1 <= N, P(n)  PROVE P(n + 1)
  <2>1. n \in 0..N /\ n + 1 \in 1..N /\ (n + 1) - 1 = n  BY <1>0, <1>3
  <2>2. turn[n] \in Seq(S) /\ seq[n+1] \in S /\ turn[n+1] = Append(turn[n], seq[n+1])
    <3>1. turn[n+1] = Keep(x, turn[n], seq[n+1])  BY <1>1, <2>1
    <3>2. turn[n] \in Seq(S)  BY <1>1, <2>1
    <3>3. seq[n+1] \in S /\ seq[n+1] # x  BY <2>1
    <3> QED  BY <3>1, <3>2, <3>3 DEF Keep
  <2> DEFINE t == turn[n]  u == turn[n+1]  y == seq[n+1]
  <2>3. Len(t) = n /\ \A k \in 1..n : t[k] = seq[k]  BY <1>3
  <2>4. t \in Seq(S) /\ y \in S /\ u = Append(t, y)  BY <2>2
  <2> HIDE DEF t, u, y
  <2>5. Len(u) = n + 1 /\ u[n+1] = y /\ \A k \in 1..n : u[k] = t[k]  BY <2>3, <2>4
  <2>6. \A k \in 1..(n+1) : k \in 1..n \/ k = n + 1  OBVIOUS
  <2>7. \A k \in 1..(n+1) : u[k] = seq[k]  BY <2>3, <2>5, <2>6 DEF y
  <2> QED  BY <2>5, <2>7 DEF u
<1> HIDE DEF P
<1>4. 0 \in Up /\ \A n \in Nat : n \in Up => n + 1 \in Up  BY <1>0, <1>2, <1>3
<1> HIDE DEF Up
<1>5. Nat \subseteq Up  BY <1>4, SetInduction
<1>6. P(N)  BY <1>0, <1>5 DEF Up
<1> QED  BY <1>1, <1>6 DEF P

-----------------------------------------------------------------------------
(* Rows, and the commit of an entry.                                       *)

\* updateTable moves nothing in a row without an empty cell, whatever the column: the other
\* cells stay and the link is put in its place.  A cell moves only from behind a gap.
THEOREM RowsWithoutGapsStay ==
    ASSUME NEW S, NEW row \in Seq(S), \A k \in 1..Len(row) : row[k] # 0,
           NEW column \in Nat \ {0}, NEW link, NEW k \in 1..Len(row), k # column
    PROVE  UpdateRow(row, column, link)[k] = row[k]
<1> DEFINE kept  == Without(0, row)
           width == IF Len(kept) > column THEN Len(kept) ELSE column
<1>1. Len(kept) = Len(row) /\ \A j \in 1..Len(row) : kept[j] = row[j]  BY NothingDropped
<1>2. UpdateRow(row, column, link) =
          [j \in 1..width |-> IF j = column THEN link
                              ELSE IF j <= Len(kept) THEN kept[j] ELSE 0]
  BY DEF UpdateRow
<1> HIDE DEF kept
<1>3. Len(row) \in Nat /\ k \in 1..width /\ k <= Len(kept)  BY <1>1
<1> QED  BY <1>1, <1>2, <1>3

\* A row with a link put into it has the link in its column.
LEMMA UpdateRowFacts ==
    ASSUME NEW S, 0 \in S, NEW row \in Seq(S), NEW column \in Nat \ {0}, NEW link \in S
    PROVE  /\ UpdateRow(row, column, link) \in Seq(S)
           /\ column \in DOMAIN UpdateRow(row, column, link)
           /\ UpdateRow(row, column, link)[column] = link
<1> DEFINE kept  == Without(0, row)
           width == IF Len(kept) > column THEN Len(kept) ELSE column
           new   == [k \in 1..width |-> IF k = column THEN link
                                        ELSE IF k <= Len(kept) THEN kept[k] ELSE 0]
<1>1. UpdateRow(row, column, link) = new  BY DEF UpdateRow
<1>2. kept \in Seq(S)  BY WithoutFacts
<1> HIDE DEF kept
<1>3. Len(kept) \in Nat /\ width \in Nat /\ column \in 1..width  BY <1>2
<1>4. \A k \in 1..width : new[k] \in S
  <2> TAKE k \in 1..width
  <2>1. CASE k = column  BY <2>1
  <2>2. CASE k # column /\ k <= Len(kept)  BY <1>2, <1>3, <2>2
  <2>3. CASE k # column /\ ~(k <= Len(kept))  BY <2>3
  <2> QED  BY <2>1, <2>2, <2>3
<1>5. new \in [1..width -> S] /\ DOMAIN new = 1..width /\ new[column] = link  BY <1>3, <1>4
<1> HIDE DEF new
<1>6. new \in Seq(S)  BY <1>3, <1>5
<1> QED  BY <1>1, <1>3, <1>5, <1>6

\* A column is a number, 0 included.
LEMMA ColumnInFacts ==
    ASSUME NEW S, NEW columns \in Seq(S), NEW x
    PROVE  ColumnIn(columns, x) \in Nat
<1>1. DOMAIN columns = 1..Len(columns) /\ Len(columns) \in Nat  OBVIOUS
<1>2. Contains(columns, x) => \E k \in DOMAIN columns : columns[k] = x  BY <1>1 DEF Contains
<1> QED  BY <1>1, <1>2 DEF ColumnIn

\* An issue that is open, and its columns.
LEMMA IssueFacts ==
    ASSUME TypeOK, NEW r \in Job
    PROVE  /\ r \in Issue /\ issue[r].proc \in Procs /\ issue[r].os \in OSes
           /\ Column(issue[r]) \in Nat /\ ReadmeColumn(issue[r]) \in Nat
<1>1. issue \in Seq(Certificates) /\ Len(issue) <= MaxIssues /\ MaxIssues \in Nat
  BY BoundAssumption DEF TypeOK
<1>2. issue[r] \in Certificates /\ r \in Issue  BY <1>1 DEF Job, Issue
<1>3. issue[r].proc \in Procs /\ issue[r].os \in OSes  BY <1>2, TableAssumption
<1>4. Columns[issue[r].proc] \in Seq(STRING) /\ ReadmeColumns \in Seq(Procs)
  BY <1>3, TableAssumption
<1> QED  BY <1>2, <1>3, <1>4, ColumnInFacts DEF Column, ReadmeColumn

\* More jobs, more branches; NoBranch is none of them.
LEMMA BranchesGrow ==
    ASSUME NEW A, NEW B, A \subseteq B
    PROVE  Branches(A) \subseteq Branches(B)
<1>1. Seq({0} \cup A) \subseteq Seq({0} \cup B)  OBVIOUS
<1>2. Seq({"cert", "readme"} \X A) \subseteq Seq({"cert", "readme"} \X B)  OBVIOUS
<1>3. [Procs \X OSes -> Seq({0} \cup A)] \subseteq [Procs \X OSes -> Seq({0} \cup B)]  BY <1>1
<1>4. [OSes -> Seq({0} \cup A)] \subseteq [OSes -> Seq({0} \cup B)]  BY <1>1
<1> QED  BY <1>2, <1>3, <1>4 DEF Branches

\* The branch that does not exist is not taken for one that does.
LEMMA BranchExists ==
    ASSUME TypeOK
    PROVE  NoBranch \notin Branch
<1>1. Job \subseteq Issue  BY IssueFacts
<1> QED  BY <1>1, BranchesGrow, NoBranchAssumption DEF Branch

\* What depends on the issues alone.
LEMMA Frame ==
    ASSUME issue' = issue
    PROVE  /\ Job' = Job /\ Branch' = Branch
           /\ \A b : LatestIn(b)' <=> LatestIn(b)
           /\ \A r : Entries(r)' = Entries(r)
<1>1. Job' = Job  BY DEF Job
<1>2. Branch' = Branch  BY <1>1 DEF Branch, Branches
<1>3. \A b : LatestIn(b)' <=> LatestIn(b)  BY DEF LatestIn, SameRow, Place, Row
<1>4. \A r : Entries(r)' = Entries(r)  BY DEF Entries
<1> QED  BY <1>1, <1>2, <1>3, <1>4

\* A commit puts its entry in place, and keeps the other last entries where they are.
LEMMA CommitFacts ==
    ASSUME TypeOK, branch \in Branch, LatestIn(branch), NEW r \in Job,
           NEW file \in {"cert", "readme"}, Place(<<file, r>>) # 0
    PROVE  LET b == Commit(r, file, branch[file])
           IN  /\ b \in Branch /\ LatestIn(b)
               /\ b.version = branch.version /\ b.ahead
               /\ ToSet(branch.log) \cup {<<file, r>>} \subseteq ToSet(b.log)
<1> DEFINE b == Commit(r, file, branch[file])
           e == <<file, r>>
           p == issue[r].proc
           o == issue[r].os
           D == {"cert", "readme"} \X Job
<1>0. /\ p \in Procs /\ o \in OSes
      /\ Column(issue[r]) \in Nat /\ ReadmeColumn(issue[r]) \in Nat
      /\ e \in D
  BY IssueFacts DEF TypeOK, Job
<1>1. /\ branch.cert \in [Procs \X OSes -> Seq({0} \cup Job)] /\ branch.readme \in [OSes -> Seq({0} \cup Job)]
      /\ branch.log \in Seq(D) /\ branch.version \in Nat
  BY DEF Branch, Branches
<1> DEFINE c == issue[r]
           w == Without(e, branch.log)
           N == Len(w)
           rows == IF file = "cert"
                   THEN [branch.cert EXCEPT ![<<p, o>>] = UpdateRow(@, Column(c), r)]
                   ELSE [branch.readme EXCEPT ![o] = UpdateRow(@, ReadmeColumn(c), r)]
<1>b. b = [branch EXCEPT ![file] = rows, !.log = Append(w, e), !.ahead = TRUE]
  <2>1. Enter(branch[file], file, r) = rows
    <3>1. CASE file = "cert"
      <4>1. branch[file] = branch.cert  BY <3>1
      <4> QED  BY <3>1, <4>1 DEF Enter
    <3>2. CASE file = "readme"
      <4>1. branch[file] = branch.readme  BY <3>2
      <4> QED  BY <3>2, <4>1 DEF Enter
    <3> QED  BY <3>1, <3>2
  <2> HIDE DEF rows
  <2> QED  BY <2>1 DEF Commit
<1>3. w \in Seq(D) /\ KeptUpTo(e, branch.log, Len(branch.log), w) /\ Append(w, e) \in Seq(D)
  <2>1. w \in Seq(D) /\ KeptUpTo(e, branch.log, Len(branch.log), w)  BY <1>1, WithoutFacts
  <2> HIDE DEF w, e, D
  <2> QED  BY <1>0, <2>1
<1> DEFINE old == IF file = "cert" THEN branch.cert[<<p, o>>] ELSE branch.readme[o]
           column == IF file = "cert" THEN Column(c) ELSE ReadmeColumn(c)
           new == UpdateRow(old, column, r)
<1>2. /\ new \in Seq({0} \cup Job) /\ column \in DOMAIN new /\ new[column] = r
      /\ Place(e) = column
  <2>1. old \in Seq({0} \cup Job)
    <3>1. <<p, o>> \in Procs \X OSes  BY <1>0
    <3> QED  BY <1>0, <1>1, <3>1
  <2>2. Place(e) = column /\ column \in Nat \ {0}  BY <1>0 DEF Place
  <2> HIDE DEF old, column
  <2> DEFINE cells == {0} \cup Job
  <2>3. old \in Seq(cells) /\ 0 \in cells /\ r \in cells  BY <2>1
  <2> HIDE DEF cells
  <2>4. new \in Seq(cells) /\ column \in DOMAIN new /\ new[column] = r
    BY <2>2, <2>3, UpdateRowFacts
  <2> QED  BY <2>2, <2>4 DEF cells
<1>r. /\ file = "cert" => /\ rows = [branch.cert EXCEPT ![<<p, o>>] = new]
                          /\ rows \in [Procs \X OSes -> Seq({0} \cup Job)]
      /\ file = "readme" => /\ rows = [branch.readme EXCEPT ![o] = new]
                            /\ rows \in [OSes -> Seq({0} \cup Job)]
  <2>1. CASE file = "cert"
    <3>1. <<p, o>> \in Procs \X OSes  BY <1>0
    <3>2. rows = [branch.cert EXCEPT ![<<p, o>>] = new]  BY <2>1
    <3> HIDE DEF rows, new, p, o
    <3> QED  BY <1>1, <1>2, <2>1, <3>1, <3>2
  <2>2. CASE file = "readme"
    <3>1. rows = [branch.readme EXCEPT ![o] = new]  BY <2>2
    <3> HIDE DEF rows, new, p, o
    <3> QED  BY <1>0, <1>1, <1>2, <2>2, <3>1
  <2> QED  BY <2>1, <2>2
<1> HIDE DEF rows, new, old, column
<1>7. /\ b \in Branch
      /\ b.version = branch.version /\ b.ahead = TRUE /\ b.log = Append(w, e)
      /\ file = "cert" => b.cert = rows /\ b.readme = branch.readme
      /\ file = "readme" => b.readme = rows /\ b.cert = branch.cert
  <2> HIDE DEF b, w, e
  <2>1. Append(w, e) \in Seq({"cert", "readme"} \X Job)  BY <1>3
  <2>2. /\ file = "cert" => rows \in [Procs \X OSes -> Seq({0} \cup Job)]
        /\ file = "readme" => rows \in [OSes -> Seq({0} \cup Job)]
    BY <1>r
  <2> HIDE DEF D
  <2> DEFINE y == Append(w, e)
  <2>3. b = [branch EXCEPT ![file] = rows, !.log = y, !.ahead = TRUE]  BY <1>b
  <2> HIDE DEF y
  <2>4. y \in Seq({"cert", "readme"} \X Job)  BY <2>1 DEF y
  <2>5. /\ b \in Branch
        /\ b.version = branch.version /\ b.ahead = TRUE /\ b.log = y
        /\ file = "cert" => b.cert = rows /\ b.readme = branch.readme
        /\ file = "readme" => b.readme = rows /\ b.cert = branch.cert
    <3> HIDE DEF y, rows, N, p, o, c
    <3>1. CASE file = "cert"  BY <2>2, <2>3, <2>4, <3>1 DEF Branch, Branches
    <3>2. CASE file = "readme"  BY <2>2, <2>3, <2>4, <3>2 DEF Branch, Branches
    <3> QED  BY <3>1, <3>2
  <2> QED  BY <2>5 DEF y
<1> HIDE DEF b, D, w
<1>4. /\ b.log \in Seq(D) /\ N \in Nat /\ DOMAIN b.log = 1..(N + 1) /\ b.log[N + 1] = e
      /\ \A k \in 1..N : b.log[k] = w[k] /\ k \in DOMAIN b.log
  <2> HIDE DEF e
  <2> QED  BY <1>0, <1>3, <1>7
<1>5. \A k \in 1..(N + 1) : k \in 1..N \/ k = N + 1  BY <1>4
<1>6. /\ Row(b, e) = new
      /\ \A d \in D : ~SameRow(d, e) => Row(b, d) = Row(branch, d)
  <2>1. CASE file = "cert"
    <3>1. b.cert = [branch.cert EXCEPT ![<<p, o>>] = new] /\ b.readme = branch.readme
      BY <1>7, <1>r, <2>1
    <3>2. Row(b, e) = new
      <4>1. <<p, o>> \in Procs \X OSes  BY <1>0
      <4> QED  BY <1>1, <2>1, <3>1, <4>1 DEF Row
    <3>3. ASSUME NEW d \in D, ~SameRow(d, e)  PROVE Row(b, d) = Row(branch, d)
      <4>1. CASE d[1] = "cert"
        <5>1. <<issue[d[2]].proc, issue[d[2]].os>> # <<p, o>>
          BY <2>1, <3>3, <4>1 DEF SameRow
        <5>2. d[2] \in Job  BY DEF D
        <5>3. <<issue[d[2]].proc, issue[d[2]].os>> \in Procs \X OSes  BY <5>2, IssueFacts
        <5>4. b.cert[<<issue[d[2]].proc, issue[d[2]].os>>]
                = branch.cert[<<issue[d[2]].proc, issue[d[2]].os>>]
          BY <1>1, <3>1, <5>1, <5>3
        <5> QED  BY <4>1, <5>4 DEF Row
      <4>2. CASE d[1] # "cert"  BY <3>1, <4>2 DEF Row
      <4> QED  BY <4>1, <4>2
    <3> QED  BY <3>2, <3>3
  <2>2. CASE file = "readme"
    <3>1. b.cert = branch.cert /\ b.readme = [branch.readme EXCEPT ![o] = new]
      BY <1>7, <1>r, <2>2
    <3>2. Row(b, e) = new  BY <1>0, <1>1, <2>2, <3>1 DEF Row
    <3>3. ASSUME NEW d \in D, ~SameRow(d, e)  PROVE Row(b, d) = Row(branch, d)
      <4>1. CASE d[1] = "readme"
        <5>1. issue[d[2]].os # o  BY <2>2, <3>3, <4>1 DEF SameRow
        <5>2. d[2] \in Job  BY DEF D
        <5>3. issue[d[2]].os \in OSes  BY <5>2, IssueFacts
        <5>4. b.readme[issue[d[2]].os] = branch.readme[issue[d[2]].os]
          BY <1>1, <3>1, <5>1, <5>3
        <5> QED  BY <4>1, <5>4 DEF Row
      <4>2. CASE d[1] = "cert"  BY <3>1, <4>2 DEF Row
      <4>3. d[1] = "readme" \/ d[1] = "cert"  BY DEF D
      <4> QED  BY <4>1, <4>2, <4>3
    <3> QED  BY <3>2, <3>3
  <2> QED  BY <2>1, <2>2
<1>8. ASSUME NEW k \in DOMAIN b.log,
             \A l \in DOMAIN b.log : l > k => ~SameRow(b.log[k], b.log[l])
      PROVE  /\ Place(b.log[k]) \in DOMAIN Row(b, b.log[k])
             /\ Row(b, b.log[k])[Place(b.log[k])] = b.log[k][2]
  <2>1. CASE k = N + 1
    <3>1. e[2] = r  OBVIOUS
    <3> HIDE DEF e
    <3> QED  BY <1>2, <1>4, <1>6, <2>1, <3>1
  <2>2. CASE k \in 1..N
    <3>1. PICK q \in 1..Len(branch.log) :
             /\ branch.log[q] = w[k] /\ w[k] # e
             /\ \A i \in 1..Len(branch.log) : i > q /\ branch.log[i] # e =>
                   \E l \in 1..N : l > k /\ w[l] = branch.log[i]
      BY <1>3, <2>2 DEF KeptUpTo
    <3>2. b.log[k] = w[k] /\ w[k] \in D  BY <1>3, <1>4, <2>2
    <3>3. ~SameRow(w[k], e)
      <4>1. N + 1 \in DOMAIN b.log /\ N + 1 > k  BY <1>4, <2>2
      <4> QED  BY <1>4, <1>8, <3>2, <4>1
    <3>4. ASSUME NEW i \in DOMAIN branch.log, i > q  PROVE ~SameRow(branch.log[q], branch.log[i])
      <4>1. CASE branch.log[i] = e  BY <3>1, <3>3, <4>1
      <4>2. CASE branch.log[i] # e
        <5>1. i \in 1..Len(branch.log)  BY <1>1
        <5>2. PICK l \in 1..N : l > k /\ w[l] = branch.log[i]  BY <3>1, <3>4, <4>2, <5>1
        <5>3. ~SameRow(b.log[k], b.log[l])  BY <1>4, <1>8, <5>2
        <5> QED  BY <1>4, <3>1, <3>2, <5>2, <5>3
      <4> QED  BY <4>1, <4>2
    <3>5. q \in DOMAIN branch.log  BY <1>1
    <3>6. /\ Place(branch.log[q]) \in DOMAIN Row(branch, branch.log[q])
          /\ Row(branch, branch.log[q])[Place(branch.log[q])] = branch.log[q][2]
      BY <3>4, <3>5 DEF LatestIn
    <3>7. Row(b, w[k]) = Row(branch, w[k])  BY <1>6, <3>2, <3>3
    <3> QED  BY <3>1, <3>2, <3>6, <3>7
  <2> QED  BY <1>4, <1>5, <2>1, <2>2
<1>9. LatestIn(b)  BY <1>8 DEF LatestIn
<1>10. ASSUME NEW d \in ToSet(branch.log) \cup {e}  PROVE d \in ToSet(b.log)
  <2>1. CASE d = e
    <3>1. N + 1 \in DOMAIN b.log /\ b.log[N + 1] = e  BY <1>4
    <3> QED  BY <2>1, <3>1 DEF ToSet
  <2>2. CASE d # e
    <3>1. PICK q \in DOMAIN branch.log : branch.log[q] = d  BY <1>10, <2>2 DEF ToSet
    <3>2. q \in 1..Len(branch.log)  BY <1>1
    <3>3. PICK k \in 1..N : w[k] = d  BY <1>3, <2>2, <3>1, <3>2 DEF KeptUpTo
    <3> QED  BY <1>4, <3>3 DEF ToSet
  <2> QED  BY <2>1, <2>2
<1> QED  BY <1>7, <1>9, <1>10 DEF b

-----------------------------------------------------------------------------
(* The calls of update-matrix.                                             *)

\* What a call of job r that ends at place may do, for the invariant to hold after it.
Effect(r, place) ==
    /\ pc[r] \notin {"queued", "done", "skipped", "failed"}
    /\ place \in Places \ {"queued"} /\ pc' = [pc EXCEPT ![r] = place]
    /\ UNCHANGED <<issue, main, clash, rejected, opened, found>>
    /\ attempt' \in [Issue -> 1..MaxRetries] /\ DOMAIN seen' = Issue
    /\ listed' \in [Issue -> BOOLEAN] /\ \A x \in Issue \ {r} : listed'[x] = listed[x]
    /\ branch' \in Branch \cup {NoBranch} /\ base' \in [Issue -> Branch]
    /\ pr' \in BOOLEAN /\ (pr' => branch' # NoBranch /\ branch'.ahead)
    /\ \A b \in Held' : b \in Held \/ Sound(b)
    /\ place = "write" => Column(issue[r]) # 0
    /\ place \in {"read readme", "write readme"} => InReadme(issue[r])
    /\ place \in {"delete", "create"} => ~listed'[r]
    /\ place = "delete" => ~pr
    /\ pr => pc[r] = "delete" \/ (pr' /\ ToSet(branch.log) \subseteq ToSet(branch'.log))
    /\ r \notin clash =>
          /\ listed'[r] /\ place \notin {"ref", "list", "done", "skipped", "failed"} => pr'
          /\ place \in {"read readme", "write readme", "pr"} =>
                 branch' # NoBranch /\ <<"cert", r>> \in ToSet(branch'.log)
          /\ place = "pr" => Entries(r) \subseteq ToSet(branch'.log)
          /\ place = "done" => pr' /\ Entries(r) \subseteq ToSet(branch'.log)

\* A call that does no more than Effect says keeps the invariant.
LEMMA JobStep ==
    ASSUME IInv, NEW r \in Issue, NEW place, Effect(r, place)
    PROVE  IInv'
<1>0. /\ pc \in [Issue -> Places] /\ pc' \in [Issue -> Places]
      /\ pc'[r] = place /\ \A x \in Issue \ {r} : pc'[x] = pc[x]
  BY DEF IInv, TypeOK, Effect
<1>1. Job' = Job /\ Branch' = Branch /\ \A b : LatestIn(b)' <=> LatestIn(b)
  BY Frame DEF Effect
<1>e. \A x : Entries(x)' = Entries(x)  BY Frame DEF Effect
<1>2. r \in Job /\ r \in Active  BY DEF IInv, OnItsWay, Effect, Active
<1>a. \A x \in Job : x \in Issue  BY IssueFacts DEF IInv
<1>3. \A x \in Active' : x \in Active  BY <1>0, <1>1, <1>2, <1>a DEF Active
<1>4. TypeOK'  BY <1>0, <1>1 DEF IInv, TypeOK, Effect
<1>5. Based'
  <2>1. ASSUME NEW b \in Held'  PROVE Sound(b)'
    <3>1. Sound(b)  BY <2>1 DEF Effect, IInv, Based
    <3> QED  BY <1>1, <3>1 DEF Effect, Sound
  <2> QED  BY <2>1 DEF Based, IInv, Effect
<1>6. OnItsWay'
  <2>1. ASSUME NEW x \in Issue
        PROVE  /\ pc'[x] # "queued" => x \in Job'
               /\ pc'[x] = "write" => Column(issue'[x]) # 0
               /\ pc'[x] \in {"read readme", "write readme"} => InReadme(issue'[x])
               /\ pc'[x] \in {"delete", "create"} => ~listed'[x]
    <3>1. issue' = issue  BY DEF Effect
    <3>2. CASE x = r  BY <1>0, <1>1, <1>2, <3>1, <3>2 DEF Effect
    <3>3. CASE x # r  BY <1>0, <1>1, <3>1, <3>3 DEF Effect, IInv, OnItsWay
    <3> QED  BY <3>2, <3>3
  <2> QED  BY <2>1 DEF OnItsWay
<1>7. Alone'
  <2>1. ASSUME NEW x \in Active', x \notin clash'
        PROVE  /\ Active' = {x}
               /\ listed'[x] /\ pc'[x] \notin {"ref", "list"} => pr'
               /\ pc'[x] \in {"read readme", "write readme", "pr"} =>
                      branch' # NoBranch /\ <<"cert", x>> \in ToSet(branch'.log)
               /\ pc'[x] = "pr" => Entries(x)' \subseteq ToSet(branch'.log)
    <3>1. x \in Active /\ x \notin clash  BY <1>3, <2>1 DEF Effect
    <3>2. Active = {x}  BY <3>1 DEF IInv, Alone
    <3>3. x = r /\ Active' = {x}  BY <1>2, <1>3, <2>1, <3>2
    <3>4. pc'[r] \notin {"done", "skipped", "failed"}  BY <2>1, <3>3 DEF Active
    <3> QED  BY <1>0, <1>e, <3>1, <3>3, <3>4 DEF Effect
  <2> QED  BY <2>1 DEF Alone
<1>8. Landed'
  <2>1. ASSUME NEW x \in Job, pc'[x] = "done", x \notin clash, NEW e \in Entries(x)
        PROVE  \/ e \in ToSet(main.log) \cup rejected
               \/ /\ pr' /\ e \in ToSet(branch'.log)
                  /\ \A y \in Issue : pc'[y] # "delete"
    <3>1. CASE x = r
      <4>1. place = "done" /\ pr' /\ e \in ToSet(branch'.log)  BY <1>0, <2>1, <3>1 DEF Effect
      <4>2. Active = {r}  BY <1>2, <2>1, <3>1 DEF IInv, Alone
      <4>3. \A y \in Issue \ {r} : pc[y] # "delete"
        BY <4>2 DEF Active, IInv, OnItsWay
      <4> QED  BY <1>0, <4>1, <4>3
    <3>2. CASE x # r
      <4>1. pc[x] = "done"  BY <1>0, <1>a, <2>1, <3>2
      <4>2. \/ e \in ToSet(main.log) \cup rejected
            \/ /\ pr /\ e \in ToSet(branch.log)
               /\ \A y \in Issue : pc[y] # "delete"
        BY <2>1, <4>1 DEF IInv, Landed
      <4> QED  BY <1>0, <4>2 DEF Effect
    <3> QED  BY <3>1, <3>2
  <2>2. main' = main /\ rejected' = rejected /\ clash' = clash  BY DEF Effect
  <2> QED  BY <1>1, <1>e, <2>1, <2>2 DEF Landed
<1>9. StillToClose'  BY <1>1 DEF IInv, StillToClose, Effect
<1> QED  BY <1>4, <1>5, <1>6, <1>7, <1>8, <1>9 DEF IInv

\* GetRef from "queued" starts a job beside the active ones.
LEMMA GetRefStep ==
    ASSUME IInv, NEW r \in Issue, GetRef(r)
    PROVE  IInv'
<1>0. /\ pc \in [Issue -> Places] /\ pc' = [pc EXCEPT ![r] = "list"] /\ r \in Job
      /\ base \in [Issue -> Branch] /\ base' = [base EXCEPT ![r] = main]
      /\ UNCHANGED <<issue, main, branch, pr, attempt, listed, seen, rejected, opened, found>>
  BY DEF IInv, TypeOK, GetRef, Goto, repoVars, dupVars
<1>1. \A b \in Held' : b \in Held
  <2>1. \A x \in Issue : base'[x] = main \/ base'[x] = base[x]  BY <1>0
  <2> QED  BY <1>0, <2>1 DEF Held
<1>2. CASE pc[r] = "ref"
  <2>1. clash' = clash  BY <1>2 DEF GetRef
  <2>2. Effect(r, "list")
    BY <1>0, <1>1, <1>2, <2>1 DEF Effect, IInv, TypeOK, Places
  <2> QED  BY <2>2, JobStep DEF Places
<1>3. CASE pc[r] = "queued"
  <2>0. clash' = clash \cup Beside(r)  BY <1>3 DEF GetRef
  <2>1. Job' = Job /\ Branch' = Branch /\ \A b : LatestIn(b)' <=> LatestIn(b)
    BY <1>0, Frame
  <2>2. \A x : Entries(x)' = Entries(x)  BY <1>0, Frame
  <2>3. \A x \in Job : x \in Issue  BY IssueFacts DEF IInv
  <2>4. Active' = Active \cup {r}  BY <1>0, <1>3, <2>1, <2>3 DEF Active
  <2>5. Active \subseteq Job /\ r \notin Active  BY <1>3 DEF Active
  <2>6. TypeOK'
    <3>1. clash' \subseteq Job  BY <1>0, <2>0, <2>5 DEF Beside, IInv, TypeOK
    <3> QED  BY <1>0, <2>1, <3>1 DEF IInv, TypeOK, Places
  <2>7. Based'
    <3>1. ASSUME NEW b \in Held'  PROVE Sound(b)'
      <4>1. Sound(b)  BY <1>1, <3>1 DEF IInv, Based
      <4> QED  BY <1>0, <2>1, <4>1 DEF Sound
    <3> QED  BY <1>0, <3>1 DEF Based, IInv
  <2>8. OnItsWay'  BY <1>0, <2>1 DEF IInv, OnItsWay
  <2>9. Alone'
    <3>1. ASSUME NEW x \in Active', x \notin clash'
          PROVE  /\ Active' = {x}
                 /\ listed'[x] /\ pc'[x] \notin {"ref", "list"} => pr'
                 /\ pc'[x] \in {"read readme", "write readme", "pr"} =>
                        branch' # NoBranch /\ <<"cert", x>> \in ToSet(branch'.log)
                 /\ pc'[x] = "pr" => Entries(x)' \subseteq ToSet(branch'.log)
      <4>1. Active = {}  BY <2>0, <2>4, <3>1 DEF Beside
      <4>2. x = r /\ Active' = {r} /\ pc'[r] = "list"  BY <1>0, <2>4, <3>1, <4>1
      <4> QED  BY <4>2
    <3> QED  BY <3>1 DEF Alone
  <2>10. Landed'
    <3>1. ASSUME NEW x \in Job, pc'[x] = "done", x \notin clash', NEW e \in Entries(x)
          PROVE  \/ e \in ToSet(main.log) \cup rejected
                 \/ /\ pr /\ e \in ToSet(branch.log)
                    /\ \A y \in Issue : pc'[y] # "delete"
      <4>1. pc[x] = "done" /\ x \notin clash  BY <1>0, <2>0, <2>3, <3>1
      <4> QED  BY <1>0, <3>1, <4>1 DEF IInv, Landed
    <3> QED  BY <1>0, <2>1, <2>2, <3>1 DEF Landed
  <2>11. StillToClose'  BY <1>0, <2>1 DEF IInv, StillToClose
  <2> QED  BY <2>6, <2>7, <2>8, <2>9, <2>10, <2>11 DEF IInv
<1> QED  BY <1>2, <1>3 DEF GetRef

\* The repository before the first commit.
LEMMA EmptyFacts ==
    /\ Empty \in Branch /\ LatestIn(Empty)
    /\ Empty.log = <<>> /\ Empty.version = 0 /\ Empty.ahead = FALSE
<1>1. /\ [row \in Procs \X OSes |-> <<>>] \in [Procs \X OSes -> Seq({0} \cup Job)]
      /\ [os \in OSes |-> <<>>] \in [OSes -> Seq({0} \cup Job)]
      /\ <<>> \in Seq({"cert", "readme"} \X Job)
  OBVIOUS
<1>2. Empty \in Branch  BY <1>1 DEF Empty, Branch, Branches
<1>3. Empty.log = <<>> /\ Empty.version = 0 /\ Empty.ahead = FALSE /\ DOMAIN <<>> = {}
  BY DEF Empty
<1>4. LatestIn(Empty)  BY <1>3 DEF LatestIn
<1> QED  BY <1>2, <1>3, <1>4

\* A job that holds no ref holds nothing that could be lost.
LEMMA EmptyIsSound ==
    ASSUME IInv
    PROVE  Empty \in Branch /\ Sound(Empty)
<1>1. main.version \in Nat  BY DEF IInv, TypeOK, Branch, Branches
<1>2. main.version = 0 => ToSet(main.log) = {}
  <2>1. DOMAIN <<>> = {}  OBVIOUS
  <2> QED  BY <2>1 DEF IInv, Based, ToSet
<1> QED  BY <1>1, <1>2, EmptyFacts DEF Sound

\* Where another attempt starts.
LEMMA RetryGoes ==
    ASSUME TypeOK, NEW r \in Issue, Retry(r)
    PROVE  /\ \E place \in {"ref", "failed"} : pc' = [pc EXCEPT ![r] = place]
           /\ attempt' \in [Issue -> 1..MaxRetries]
<1>1. attempt \in [Issue -> 1..MaxRetries] /\ MaxRetries \in Nat  BY BoundAssumption DEF TypeOK
<1>2. CASE attempt[r] < MaxRetries
  <2>1. attempt[r] + 1 \in 1..MaxRetries  BY <1>1, <1>2
  <2> QED  BY <1>1, <1>2, <2>1 DEF Retry, Goto
<1>3. CASE ~(attempt[r] < MaxRetries)  BY <1>1, <1>3 DEF Retry, Goto
<1> QED  BY <1>2, <1>3

\* A job that saw the pull request goes on with the branch, another deletes it.
LEMMA ListPRsStep ==
    ASSUME IInv, NEW r \in Issue, ListPRs(r)
    PROVE  IInv'
<1>1. Held' = Held  BY DEF ListPRs, Held, repoVars
<1>2. Effect(r, IF pr THEN "update" ELSE "delete")
  BY <1>1 DEF Effect, ListPRs, IInv, TypeOK, Places, Goto, repoVars, dupVars
<1>3. (IF pr THEN "update" ELSE "delete") \in Places  BY DEF Places
<1> QED  BY <1>2, JobStep

\* Deleting the branch closes the pull request, which this job had not seen.
LEMMA DeleteRefStep ==
    ASSUME IInv, NEW r \in Issue, DeleteRef(r)
    PROVE  IInv'
<1>1. \A b \in Held' : b \in Held  BY DEF DeleteRef, Held
<1>2. ~listed[r]  BY DEF DeleteRef, IInv, OnItsWay
<1>3. Effect(r, "create")
  BY <1>1, <1>2 DEF Effect, DeleteRef, IInv, TypeOK, Places, Goto, dupVars
<1> QED  BY <1>3, JobStep

\* The new branch is the default branch as it was read, which was sound then and is now.
LEMMA CreateRefStep ==
    ASSUME IInv, NEW r \in Issue, CreateRef(r)
    PROVE  IInv'
<1>1. Empty \in Branch /\ Sound(Empty)  BY EmptyIsSound
<1>2. ~listed[r] /\ pc[r] = "create"  BY DEF CreateRef, IInv, OnItsWay
<1>3. base' = [base EXCEPT ![r] = Empty] /\ base \in [Issue -> Branch] /\ main' = main
  BY DEF CreateRef, IInv, TypeOK
<1>4. \A x \in Issue : base'[x] = base[x] \/ base'[x] = Empty  BY <1>3
<1>5. CASE branch = NoBranch
  <2>1. ~pr /\ branch' = base[r] /\ base[r] \in Branch  BY <1>3, <1>5 DEF CreateRef, IInv, TypeOK
  <2>2. \A b \in Held' : b \in Held \/ Sound(b)  BY <1>1, <1>3, <1>4, <2>1 DEF Held
  <2>3. Effect(r, "read")
    BY <1>1, <1>2, <1>3, <1>5, <2>1, <2>2 DEF Effect, CreateRef, IInv, TypeOK, Places, Goto, dupVars
  <2> QED  BY <2>3, JobStep
<1>6. CASE branch # NoBranch
  <2>1. Retry(r) /\ branch' = branch  BY <1>6 DEF CreateRef
  <2>2. PICK place \in {"ref", "failed"} : pc' = [pc EXCEPT ![r] = place]
    BY <2>1, RetryGoes DEF IInv
  <2>3. attempt' \in [Issue -> 1..MaxRetries]  BY <2>1, RetryGoes DEF IInv
  <2>4. \A b \in Held' : b \in Held \/ Sound(b)  BY <1>1, <1>3, <1>4, <2>1 DEF Held
  <2>5. Effect(r, place)
    BY <1>1, <1>2, <1>3, <2>1, <2>2, <2>3, <2>4 DEF Effect, CreateRef, IInv, TypeOK, Places, dupVars
  <2> QED  BY <2>5, JobStep
<1> QED  BY <1>5, <1>6

\* Only a branch without commits of its own moves, so no pull request loses an entry.
LEMMA UpdateRefStep ==
    ASSUME IInv, NEW r \in Issue, UpdateRef(r)
    PROVE  IInv'
<1>1. Empty \in Branch /\ Sound(Empty)  BY EmptyIsSound
<1>2. base' = [base EXCEPT ![r] = Empty] /\ base \in [Issue -> Branch] /\ main' = main
  BY DEF UpdateRef, IInv, TypeOK
<1>3. \A x \in Issue : base'[x] = base[x] \/ base'[x] = Empty  BY <1>2
<1>4. /\ branch' = branch \/ (branch' = base[r] /\ ~pr)
      /\ branch' \in Branch \cup {NoBranch} /\ base[r] \in Branch
  BY <1>2 DEF UpdateRef, IInv, TypeOK
<1>5. \A b \in Held' : b \in Held \/ Sound(b)  BY <1>1, <1>2, <1>3, <1>4 DEF Held
<1>6. pc[r] = "update" /\ r \in Job  BY DEF UpdateRef, IInv, OnItsWay
<1>7. r \notin clash /\ listed[r] => pr  BY <1>6 DEF IInv, Alone, Active
<1>8. Effect(r, "read")
  BY <1>1, <1>2, <1>4, <1>5, <1>6, <1>7
     DEF Effect, UpdateRef, IInv, TypeOK, Places, Goto, dupVars
<1> QED  BY <1>8, JobStep

\* A job that fails leaves everything where it is.
LEMMA CallFailsStep ==
    ASSUME IInv, NEW r \in Issue, CallFails(r)
    PROVE  IInv'
<1>1. Held' = Held  BY DEF CallFails, Held, repoVars
<1>2. Effect(r, "failed")
  BY <1>1 DEF Effect, CallFails, IInv, TypeOK, Places, Goto, Active, repoVars, dupVars
<1> QED  BY <1>2, JobStep

\* A job that succeeds undisturbed has its entries in an open pull request.
LEMMA FinishPRStep ==
    ASSUME IInv, NEW r \in Issue, FinishPR(r)
    PROVE  IInv'
<1>1. Held' = Held  BY DEF FinishPR, Held
<1>2. pc[r] = "pr" /\ r \in Active  BY DEF FinishPR, IInv, OnItsWay, Active
<1>3. r \notin clash => Entries(r) \subseteq ToSet(branch.log) /\ (listed[r] => pr)
  BY <1>2 DEF IInv, Alone
<1>4. CASE listed[r] \/ Mergeable
  <2>1. pc' = [pc EXCEPT ![r] = "done"] /\ attempt' = attempt /\ pr' \in BOOLEAN
        /\ (pr' => branch # NoBranch /\ branch.ahead) /\ (pr => pr')
        /\ (r \notin clash => pr')
    <3>1. CASE listed[r]
      <4>1. pr' = pr /\ pc' = [pc EXCEPT ![r] = "done"] /\ attempt' = attempt
        BY <3>1 DEF FinishPR, Goto
      <4> QED  BY <1>3, <3>1, <4>1 DEF IInv, TypeOK
    <3>2. CASE ~listed[r] /\ Mergeable
      <4>1. pr' = TRUE /\ pc' = [pc EXCEPT ![r] = "done"] /\ attempt' = attempt
        BY <3>2 DEF FinishPR, Goto
      <4>2. branch # NoBranch /\ branch.ahead  BY <3>2 DEF Mergeable
      <4> QED  BY <4>1, <4>2
    <3> QED  BY <1>4, <3>1, <3>2
  <2>2. Effect(r, "done")
    BY <1>1, <1>2, <1>3, <2>1 DEF Effect, FinishPR, IInv, TypeOK, Places, dupVars
  <2> QED  BY <2>2, JobStep
<1>5. CASE ~listed[r] /\ ~Mergeable
  <2>1. Retry(r) /\ pr' = pr  BY <1>5 DEF FinishPR
  <2>2. PICK place \in {"ref", "failed"} : pc' = [pc EXCEPT ![r] = place]
    BY <2>1, RetryGoes DEF IInv
  <2>3. attempt' \in [Issue -> 1..MaxRetries]  BY <2>1, RetryGoes DEF IInv
  <2>4. Effect(r, place)
    BY <1>1, <1>2, <2>1, <2>2, <2>3 DEF Effect, FinishPR, IInv, TypeOK, Places, dupVars
  <2> QED  BY <2>4, JobStep
<1> QED  BY <1>4, <1>5

\* A job gets past its file only on a branch that is there.
LEMMA ReadFileStep ==
    ASSUME IInv, NEW r \in Issue, ReadFile(r)
    PROVE  IInv'
<1>1. Held' = Held  BY DEF ReadFile, Held, repoVars
<1>2. pc[r] \in {"read", "read readme"} /\ r \in Active
  BY DEF ReadFile, IInv, OnItsWay, Active
<1>3. r \notin clash =>
          /\ listed[r] => pr
          /\ pc[r] = "read readme" => branch # NoBranch /\ <<"cert", r>> \in ToSet(branch.log)
  BY <1>2 DEF IInv, Alone
<1>4. pc[r] = "read readme" => InReadme(issue[r])  BY DEF IInv, OnItsWay
<1>5. ASSUME NEW place \in {"ref", "failed", "skipped", "write", "write readme"},
             pc' = [pc EXCEPT ![r] = place], attempt' \in [Issue -> 1..MaxRetries],
             DOMAIN seen' = Issue, place = "write" => Column(issue[r]) # 0,
             place = "write readme" => pc[r] = "read readme"
      PROVE  IInv'
  <2>1. Effect(r, place)
    BY <1>1, <1>2, <1>3, <1>4, <1>5
       DEF Effect, ReadFile, IInv, TypeOK, Places, repoVars, dupVars
  <2> QED  BY <2>1, JobStep
<1>6. attempt \in [Issue -> 1..MaxRetries] /\ DOMAIN seen = Issue  BY DEF IInv, TypeOK
<1>7. CASE Retry(r) /\ UNCHANGED seen
  <2>1. PICK place \in {"ref", "failed"} : pc' = [pc EXCEPT ![r] = place]
    BY <1>7, RetryGoes DEF IInv
  <2>2. attempt' \in [Issue -> 1..MaxRetries]  BY <1>7, RetryGoes DEF IInv
  <2> QED  BY <1>5, <1>6, <1>7, <2>1, <2>2
<1>8. CASE Goto(r, "skipped") /\ UNCHANGED <<attempt, seen>>
  BY <1>5, <1>6, <1>8 DEF Goto
<1>9. CASE /\ seen' = [seen EXCEPT ![r] = branch[FileAt(pc[r])]]
           /\ FileAt(pc[r]) = "cert" => Column(issue[r]) # 0
           /\ Goto(r, IF FileAt(pc[r]) = "cert" THEN "write" ELSE "write readme")
           /\ UNCHANGED attempt
  <2>1. DOMAIN seen' = Issue  BY <1>6, <1>9
  <2>2. CASE pc[r] = "read"  BY <1>5, <1>6, <1>9, <2>1, <2>2 DEF FileAt, Goto
  <2>3. CASE pc[r] = "read readme"  BY <1>5, <1>6, <1>9, <2>1, <2>3 DEF FileAt, Goto
  <2> QED  BY <1>2, <2>2, <2>3
<1> QED  BY <1>7, <1>8, <1>9 DEF ReadFile

\* A write is a commit on top of what the branch has: yml lines 140-174.
LEMMA WriteFileStep ==
    ASSUME IInv, NEW r \in Issue, WriteFile(r)
    PROVE  IInv'
<1> DEFINE file == FileAt(pc[r])
           e == <<file, r>>
           wrote == Commit(r, file, branch[file])
           place == IF file = "cert" /\ InReadme(issue[r]) THEN "read readme" ELSE "pr"
<1>1. pc[r] \in {"write", "write readme"} /\ r \in Active /\ r \in Job
  BY DEF WriteFile, IInv, OnItsWay, Active
<1>2. r \notin clash =>
          /\ listed[r] => pr
          /\ pc[r] = "write readme" => branch # NoBranch /\ <<"cert", r>> \in ToSet(branch.log)
  BY <1>1 DEF IInv, Alone
<1>3. /\ pc[r] = "write" => Column(issue[r]) # 0
      /\ pc[r] = "write readme" => InReadme(issue[r])
  BY DEF IInv, OnItsWay
<1>4. /\ UNCHANGED <<issue, main, pr, base, listed, clash, rejected, opened, found>>
      /\ DOMAIN seen' = Issue
  BY DEF WriteFile, dupVars, IInv, TypeOK
<1>5. CASE branch # NoBranch /\ branch[file] = seen[r]
  <2>1. branch' = wrote /\ pc' = [pc EXCEPT ![r] = place] /\ attempt' = attempt
    BY <1>5 DEF WriteFile, Goto
  <2>2. branch \in Branch /\ Sound(branch)  BY <1>5 DEF IInv, TypeOK, Based, Held
  <2>3. file \in {"cert", "readme"} /\ Place(e) # 0
    BY <1>1, <1>3 DEF FileAt, Place, InReadme
  <2>4. /\ wrote \in Branch /\ LatestIn(wrote)
        /\ wrote.version = branch.version /\ wrote.ahead
        /\ ToSet(branch.log) \cup {e} \subseteq ToSet(wrote.log)
    <3> HIDE DEF file
    <3> QED  BY <1>1, <2>2, <2>3, CommitFacts DEF IInv, Sound
  <2> HIDE DEF wrote
  <2>5. Sound(wrote)  BY <2>2, <2>4 DEF Sound
  <2>6. \A b \in Held' : b \in Held \/ Sound(b)  BY <1>4, <2>1, <2>5 DEF Held
  <2>7. /\ place \in {"read readme", "pr"} /\ (place = "read readme" => InReadme(issue[r]))
        /\ r \notin clash => /\ <<"cert", r>> \in ToSet(wrote.log)
                             /\ place = "pr" => Entries(r) \subseteq ToSet(wrote.log)
    BY <1>1, <1>2, <2>4 DEF FileAt, Entries
  <2> HIDE DEF file, e, place
  <2>8. wrote # NoBranch  BY <2>4, BranchExists DEF IInv
  <2>9. Effect(r, place)
    BY <1>1, <1>2, <1>4, <2>1, <2>4, <2>6, <2>7, <2>8 DEF Effect, IInv, TypeOK, Places
  <2> QED  BY <2>7, <2>9, JobStep
<1>6. CASE ~(branch # NoBranch /\ branch[file] = seen[r])
  <2>1. Retry(r) /\ branch' = branch  BY <1>6 DEF WriteFile
  <2>2. PICK next \in {"ref", "failed"} : pc' = [pc EXCEPT ![r] = next]
    BY <2>1, RetryGoes DEF IInv
  <2>3. attempt' \in [Issue -> 1..MaxRetries]  BY <2>1, RetryGoes DEF IInv
  <2>4. Held' = Held  BY <1>4, <2>1 DEF Held
  <2>5. Effect(r, next)
    BY <1>1, <1>4, <2>1, <2>2, <2>3, <2>4 DEF Effect, IInv, TypeOK, Places
  <2> QED  BY <2>5, JobStep
<1> QED  BY <1>5, <1>6

-----------------------------------------------------------------------------
(* The maintainers, and close-duplicates.                                  *)

\* What an issue that is opened leaves as it was.
LEMMA OpenIssueFacts ==
    ASSUME IInv, OpenIssue
    PROVE  LET new == Len(issue) + 1
           IN  /\ issue' \in Seq(Certificates) /\ Len(issue') = new /\ Len(issue') <= MaxIssues
               /\ new \in Issue /\ new \notin Job /\ \A j \in Job : j < new
               /\ Job' = Job \cup {new} /\ \A j \in Job : issue'[j] = issue[j]
<1> DEFINE new == Len(issue) + 1
<1>1. PICK c \in Certificates : issue' = Append(issue, c)  BY DEF OpenIssue
<1>2. /\ Len(issue) \in Nat /\ Len(issue) < MaxIssues /\ Job = 1..Len(issue)
      /\ issue \in Seq(Certificates) /\ MaxIssues \in Nat
  BY BoundAssumption DEF OpenIssue, IInv, TypeOK, Job
<1>3. /\ issue' \in Seq(Certificates) /\ Len(issue') = new
      /\ Job' = 1..new /\ \A j \in Job : issue'[j] = issue[j]
  BY <1>1, <1>2 DEF Job
<1>4. Len(issue') <= MaxIssues /\ new \in Issue /\ new \notin Job /\ \A j \in Job : j < new
  BY <1>2, <1>3 DEF Issue
<1>5. 1..new = Job \cup {new}  BY <1>2
<1> QED  BY <1>3, <1>4, <1>5

\* A new issue disturbs no entry, and no list that is still to be made.
LEMMA OpenIssueStep ==
    ASSUME IInv, OpenIssue
    PROVE  IInv'
<1> DEFINE new == Len(issue) + 1
<1>1. /\ issue' \in Seq(Certificates) /\ Len(issue') = new /\ Len(issue') <= MaxIssues
      /\ new \in Issue /\ new \notin Job /\ \A j \in Job : j < new
      /\ Job' = Job \cup {new} /\ \A j \in Job : issue'[j] = issue[j]
  BY OpenIssueFacts
<1>2. /\ UNCHANGED <<main, branch, pr, pc, attempt, base, listed, seen, clash, rejected, found>>
      /\ opened' = opened \cup {new}
  BY DEF OpenIssue, repoVars, jobVars
<1> HIDE DEF new
<1>3. Branch \subseteq Branch'  BY <1>1, BranchesGrow DEF Branch
<1>4. ASSUME NEW b \in Branch, LatestIn(b)  PROVE LatestIn(b)'
  <2>1. b.log \in Seq({"cert", "readme"} \X Job)  BY DEF Branch, Branches
  <2>2. \A k \in DOMAIN b.log : b.log[k][2] \in Job  BY <2>1
  <2>3. \A k \in DOMAIN b.log : issue'[b.log[k][2]] = issue[b.log[k][2]]  BY <1>1, <2>2
  <2>4. \A k \in DOMAIN b.log : Place(b.log[k])' = Place(b.log[k])  BY <2>3 DEF Place
  <2>5. \A k \in DOMAIN b.log : Row(b, b.log[k])' = Row(b, b.log[k])  BY <2>3 DEF Row
  <2>6. \A k, l \in DOMAIN b.log : SameRow(b.log[k], b.log[l])' <=> SameRow(b.log[k], b.log[l])
    BY <2>3 DEF SameRow
  <2> QED  BY <1>4, <2>4, <2>5, <2>6 DEF LatestIn
<1>5. \A x \in Job : Entries(x)' = Entries(x)  BY <1>1 DEF Entries
<1>6. pc[new] = "queued"  BY <1>1 DEF IInv, OnItsWay
<1>7. Active' = Active  BY <1>1, <1>2, <1>6 DEF Active
<1>8. TypeOK'
  <2>1. {"cert", "readme"} \X Job \subseteq {"cert", "readme"} \X Job'  BY <1>1
  <2>2. base \in [Issue -> Branch']  BY <1>3 DEF IInv, TypeOK
  <2> QED  BY <1>1, <1>2, <1>3, <2>1, <2>2 DEF IInv, TypeOK
<1>9. Based'
  <2>1. Held' = Held  BY <1>2 DEF Held
  <2>2. ASSUME NEW b \in Held  PROVE Sound(b)'
    <3>1. b \in Branch  BY <2>2 DEF Held, IInv, TypeOK
    <3>2. Sound(b)  BY <2>2 DEF IInv, Based
    <3> QED  BY <1>2, <1>4, <3>1, <3>2 DEF Sound
  <2> QED  BY <1>2, <2>1, <2>2 DEF IInv, Based
<1>10. OnItsWay'  BY <1>1, <1>2 DEF IInv, OnItsWay
<1>11. Alone'
  <2>1. \A x \in Active : x \in Job  BY DEF Active
  <2> QED  BY <1>2, <1>5, <1>7, <2>1 DEF IInv, Alone
<1>12. Landed'
  <2>1. \A x \in Job' : pc[x] = "done" => x \in Job  BY <1>1, <1>6
  <2> QED  BY <1>2, <1>5, <2>1 DEF IInv, Landed
<1>13. StillToClose'
  <2>1. \A j \in Issue : j \notin Job' => found'[j] = {NotRun}
    BY <1>1, <1>2 DEF IInv, StillToClose
  <2>2. ASSUME NEW i \in opened', NEW j \in opened', i < j, issue'[i] = issue'[j]
        PROVE  found'[j] = {NotRun} \/ i \in found'[j]
    <3>1. CASE j = new  BY <1>1, <1>2, <3>1 DEF IInv, StillToClose
    <3>2. CASE j # new
      <4>1. j \in opened /\ opened \subseteq Job  BY <1>2, <3>2 DEF IInv, TypeOK
      <4>2. j \in Nat /\ new \in Nat /\ j < new
        BY <1>1, <4>1, IssueFacts DEF IInv, Issue
      <4>3. i \in opened  BY <1>2, <2>2, <4>2
      <4> QED  BY <1>1, <1>2, <2>2, <4>1, <4>3 DEF IInv, StillToClose
    <3> QED  BY <3>1, <3>2
  <2> QED  BY <2>1, <2>2 DEF StillToClose
<1> QED  BY <1>8, <1>9, <1>10, <1>11, <1>12, <1>13 DEF IInv

\* Merging loses nothing: the branch has all that the default branch has.
LEMMA MergePRStep ==
    ASSUME IInv, MergePR
    PROVE  IInv'
<1>m. PICK merged : merged = [branch EXCEPT !.version = @ + 1, !.ahead = FALSE]  OBVIOUS
<1>0. /\ pr /\ branch.version = main.version /\ pr' = FALSE
      /\ main' = merged /\ branch' = merged /\ clash' = clash \cup Active
      /\ UNCHANGED <<issue, pc, attempt, base, listed, seen, rejected, opened, found>>
  BY <1>m DEF MergePR, jobVars, dupVars
<1>1. branch \in Branch /\ branch \in Held /\ Sound(branch) /\ main \in Branch
  BY <1>0 DEF IInv, TypeOK, Based, Held
<1>2. /\ merged \in Branch /\ merged.ahead = FALSE
      /\ merged.version = main.version + 1 /\ main.version \in Nat
      /\ merged.log = branch.log /\ merged.cert = branch.cert /\ merged.readme = branch.readme
  <2>1. main.version \in Nat  BY <1>1 DEF Branch, Branches
  <2>2. PICK n \in Nat : n = main.version + 1  BY <2>1
  <2>3. merged = [branch EXCEPT !.version = n, !.ahead = FALSE]  BY <1>0, <1>m, <2>2
  <2>4. merged \in Branch  BY <1>1, <2>3 DEF Branch, Branches
  <2>5. /\ merged.ahead = FALSE /\ merged.version = n
        /\ merged.log = branch.log /\ merged.cert = branch.cert /\ merged.readme = branch.readme
    BY <1>1, <2>3 DEF Branch, Branches
  <2> QED  BY <2>1, <2>2, <2>4, <2>5
<1>3. Job' = Job /\ Branch' = Branch /\ \A b : LatestIn(b)' <=> LatestIn(b)
  BY <1>0, Frame
<1>e. \A x : Entries(x)' = Entries(x)  BY <1>0, Frame
<1>4. Active' = Active /\ Active \subseteq Job  BY <1>0, <1>3 DEF Active
<1>5. TypeOK'  BY <1>0, <1>2, <1>3, <1>4 DEF IInv, TypeOK
<1>6. Based'
  <2>1. LatestIn(merged)
    BY <1>1, <1>2 DEF Sound, LatestIn, Row
  <2>2. Sound(merged)'
    BY <1>0, <1>2, <1>3, <2>1 DEF Sound
  <2>3. ASSUME NEW x \in Issue, NEW b, b = base[x]  PROVE Sound(b)'
    <3>1. Sound(b) /\ b \in Branch  BY <2>3 DEF IInv, Based, Held, TypeOK
    <3>2. b.version \in Nat  BY <3>1 DEF Branch, Branches
    <3>3. b.version <= main'.version /\ b.version # main'.version
      BY <1>0, <1>2, <3>1, <3>2 DEF Sound
    <3> QED  BY <1>0, <1>3, <3>1, <3>3 DEF Sound
  <2>4. \A b \in Held' : b = merged \/ \E x \in Issue : b = base[x]  BY <1>0 DEF Held
  <2>5. main'.version # 0  BY <1>0, <1>2
  <2> QED  BY <2>2, <2>3, <2>4, <2>5 DEF Based
<1>7. OnItsWay'  BY <1>0, <1>3 DEF IInv, OnItsWay
<1>8. Alone'  BY <1>0, <1>4 DEF Alone
<1>9. Landed'
  <2>1. ToSet(main.log) \subseteq ToSet(branch.log)  BY <1>0, <1>1 DEF Sound
  <2>2. main'.log = branch.log /\ clash \subseteq clash'  BY <1>0, <1>2
  <2>3. ASSUME NEW x \in Job, pc[x] = "done", x \notin clash', NEW e \in Entries(x)
        PROVE  e \in ToSet(main'.log) \cup rejected
    BY <2>1, <2>2, <2>3 DEF IInv, Landed
  <2> QED  BY <1>0, <1>3, <1>e, <2>3 DEF Landed
<1>10. StillToClose'  BY <1>0, <1>3 DEF IInv, StillToClose
<1> QED  BY <1>5, <1>6, <1>7, <1>8, <1>9, <1>10 DEF IInv

\* What a closed pull request alone held is refused.
LEMMA ClosePRStep ==
    ASSUME IInv, ClosePR
    PROVE  IInv'
<1>0. /\ pr /\ pr' = FALSE /\ clash' = clash \cup Active
      /\ rejected' = rejected \cup (ToSet(branch.log) \ ToSet(main.log))
      /\ UNCHANGED <<issue, main, branch, pc, attempt, base, listed, seen, opened, found>>
  BY DEF ClosePR, jobVars, dupVars
<1>1. branch \in Branch  BY <1>0 DEF IInv, TypeOK
<1>2. Job' = Job /\ Branch' = Branch /\ \A b : LatestIn(b)' <=> LatestIn(b)
  BY <1>0, Frame
<1>e. \A x : Entries(x)' = Entries(x)  BY <1>0, Frame
<1>3. Active' = Active /\ Active \subseteq Job  BY <1>0, <1>2 DEF Active
<1>4. TypeOK'
  <2>1. branch.log \in Seq({"cert", "readme"} \X Job)  BY <1>1 DEF Branch, Branches
  <2>2. ToSet(branch.log) \subseteq {"cert", "readme"} \X Job  BY <2>1 DEF ToSet
  <2> QED  BY <1>0, <1>2, <1>3, <2>2 DEF IInv, TypeOK
<1>5. Based'
  <2>1. Held' = Held  BY <1>0 DEF Held
  <2>2. \A b \in Held : Sound(b)'  BY <1>0, <1>2 DEF IInv, Based, Sound
  <2> QED  BY <1>0, <2>1, <2>2 DEF IInv, Based
<1>6. OnItsWay'  BY <1>0, <1>2 DEF IInv, OnItsWay
<1>7. Alone'  BY <1>0, <1>3 DEF Alone
<1>8. Landed'
  <2>1. ASSUME NEW x \in Job, pc[x] = "done", x \notin clash', NEW e \in Entries(x)
        PROVE  e \in ToSet(main.log) \cup rejected'
    BY <1>0, <2>1 DEF IInv, Landed
  <2> QED  BY <1>0, <1>2, <1>e, <2>1 DEF Landed
<1>9. StillToClose'  BY <1>0, <1>2 DEF IInv, StillToClose
<1> QED  BY <1>4, <1>5, <1>6, <1>7, <1>8, <1>9 DEF IInv

\* A step of close-duplicates leaves the branches and the jobs of update-matrix alone.
LEMMA DuplicatesApart ==
    ASSUME IInv,
           UNCHANGED <<issue, main, branch, pr, pc, attempt, base, listed, seen, clash, rejected>>,
           opened' \subseteq opened, found' \in [Issue -> SUBSET Nat]
    PROVE  TypeOK' /\ Based' /\ OnItsWay' /\ Alone' /\ Landed'
<1>1. Job' = Job /\ Branch' = Branch /\ \A b : LatestIn(b)' <=> LatestIn(b)  BY Frame
<1>2. \A x : Entries(x)' = Entries(x)  BY Frame
<1>3. Active' = Active  BY <1>1 DEF Active
<1>4. TypeOK'  BY <1>1 DEF IInv, TypeOK
<1>5. Based'
  <2>1. Held' = Held  BY DEF Held
  <2>2. \A b \in Held : Sound(b)'  BY <1>1 DEF IInv, Based, Sound
  <2> QED  BY <2>1, <2>2 DEF IInv, Based
<1>6. OnItsWay'  BY <1>1 DEF IInv, OnItsWay
<1>7. Alone'  BY <1>2, <1>3 DEF IInv, Alone
<1>8. Landed'  BY <1>1, <1>2 DEF IInv, Landed
<1> QED  BY <1>4, <1>5, <1>6, <1>7, <1>8

\* A job that lists finds every open duplicate, the older ones included.
LEMMA DupListStep ==
    ASSUME IInv, NEW k \in Issue, DupList(k)
    PROVE  IInv'
<1>1. /\ k \in Job /\ found' = [found EXCEPT ![k] = {j \in opened \ {k} : issue[j] = issue[k]}]
      /\ UNCHANGED <<issue, main, branch, pr, pc, attempt, base, listed, seen, clash, rejected, opened>>
  BY DEF DupList, repoVars, jobVars
<1>2. found \in [Issue -> SUBSET Nat] /\ opened \subseteq Job /\ \A j \in Job : j \in Issue /\ j \in Nat
  BY IssueFacts DEF IInv, TypeOK, Issue
<1>3. found' \in [Issue -> SUBSET Nat]  BY <1>1, <1>2
<1>4. StillToClose'
  <2>1. Job' = Job  BY <1>1 DEF Job
  <2>2. \A j \in Issue : j \notin Job => found'[j] = {NotRun}
    BY <1>1, <1>2 DEF IInv, StillToClose
  <2>3. ASSUME NEW i \in opened, NEW j \in opened, i < j, issue[i] = issue[j]
        PROVE  found'[j] = {NotRun} \/ i \in found'[j]
    <3>1. CASE j = k  BY <1>1, <1>2, <2>3, <3>1
    <3>2. CASE j # k  BY <1>1, <1>2, <2>3, <3>2 DEF IInv, StillToClose
    <3> QED  BY <3>1, <3>2
  <2> QED  BY <1>1, <2>1, <2>2, <2>3 DEF StillToClose
<1> QED  BY <1>1, <1>3, <1>4, DuplicatesApart DEF IInv

\* What a job closes it no longer owes.
LEMMA DupCloseStep ==
    ASSUME IInv, NEW k \in Issue, DupClose(k)
    PROVE  IInv'
<1>1. PICK gone \in found[k] \ {NotRun} :
          opened' = opened \ {gone} /\ found' = [found EXCEPT ![k] = @ \ {gone}]
  BY DEF DupClose
<1>2. UNCHANGED <<issue, main, branch, pr, pc, attempt, base, listed, seen, clash, rejected>>
  BY DEF DupClose, repoVars, jobVars
<1>3. found \in [Issue -> SUBSET Nat] /\ opened \subseteq Job /\ \A j \in Job : j \in Issue
  BY IssueFacts DEF IInv, TypeOK
<1>4. found' \in [Issue -> SUBSET Nat] /\ opened' \subseteq opened  BY <1>1, <1>3
<1>5. StillToClose'
  <2>1. Job' = Job /\ k \in Job  BY <1>1, <1>2 DEF Job, IInv, StillToClose
  <2>2. \A j \in Issue : j \notin Job => found'[j] = {NotRun}
    BY <1>1, <1>3, <2>1 DEF IInv, StillToClose
  <2>3. ASSUME NEW i \in opened', NEW j \in opened', i < j, issue[i] = issue[j]
        PROVE  found'[j] = {NotRun} \/ i \in found'[j]
    <3>1. i \in opened /\ j \in opened /\ i # gone /\ j \in Issue  BY <1>1, <1>3
    <3>2. found[j] = {NotRun} \/ i \in found[j]  BY <2>3, <3>1 DEF IInv, StillToClose
    <3> QED  BY <1>1, <1>3, <3>1, <3>2
  <2> QED  BY <1>2, <2>1, <2>2, <2>3 DEF StillToClose
<1> QED  BY <1>2, <1>4, <1>5, DuplicatesApart DEF IInv

-----------------------------------------------------------------------------
(* The theorems.                                                           *)

\* Before the first issue.
LEMMA InitHolds == Init => IInv
<1> SUFFICES ASSUME Init  PROVE IInv  OBVIOUS
<1>1. /\ Empty \in Branch /\ LatestIn(Empty)
      /\ Empty.log = <<>> /\ Empty.version = 0 /\ Empty.ahead = FALSE
  BY EmptyFacts
<1>2. DOMAIN issue = {} /\ issue \in Seq(Certificates) /\ Len(issue) = 0  BY DEF Init
<1>3. 1 \in 1..MaxRetries /\ Len(issue) <= MaxIssues  BY <1>2, BoundAssumption
<1>4. \A x \in Issue : pc[x] = "queued"  BY DEF Init
<1>5. Active = {}  BY <1>2 DEF Active, Job
<1>6. TypeOK
  <2>1. issue \in Seq(Certificates) /\ Len(issue) <= MaxIssues  BY <1>2, <1>3
  <2>2. /\ pc \in [Issue -> Places] /\ attempt \in [Issue -> 1..MaxRetries]
        /\ listed \in [Issue -> BOOLEAN] /\ DOMAIN seen = Issue
    BY <1>3 DEF Init, Places
  <2>3. main \in Branch /\ branch = NoBranch /\ base \in [Issue -> Branch] /\ ~main.ahead
    BY <1>1 DEF Init
  <2>4. /\ pr = FALSE /\ clash = {} /\ opened = {} /\ rejected = {}
        /\ found \in [Issue -> SUBSET Nat]
    BY DEF Init, NotRun
  <2> QED  BY <2>1, <2>2, <2>3, <2>4 DEF TypeOK
<1>7. Based
  <2>1. Sound(Empty)  BY <1>1 DEF Init, Sound
  <2>2. Held \subseteq {Empty}  BY DEF Init, Held
  <2> QED  BY <1>1, <2>1, <2>2 DEF Based, Init
<1>8. OnItsWay  BY <1>4 DEF OnItsWay
<1>9. Alone  BY <1>5 DEF Alone
<1>10. Landed  BY <1>2 DEF Landed, Job
<1>11. StillToClose  BY DEF Init, StillToClose
<1> QED  BY <1>6, <1>7, <1>8, <1>9, <1>10, <1>11 DEF IInv

\* Every step of the jobs and of the maintainers keeps the invariant.
LEMMA NextKeeps == IInv /\ [Next]_vars => IInv'
<1> SUFFICES ASSUME IInv, [Next]_vars  PROVE IInv'  OBVIOUS
<1>1. CASE OpenIssue  BY <1>1, OpenIssueStep
<1>2. CASE MergePR  BY <1>2, MergePRStep
<1>3. CASE ClosePR  BY <1>3, ClosePRStep
<1>4. ASSUME NEW r \in Issue, UpdateMatrix(r)  PROVE IInv'
  BY <1>4, GetRefStep, ListPRsStep, DeleteRefStep, CreateRefStep, UpdateRefStep,
     ReadFileStep, WriteFileStep, FinishPRStep, CallFailsStep DEF UpdateMatrix
<1>5. ASSUME NEW r \in Issue, CloseDuplicates(r)  PROVE IInv'
  BY <1>5, DupListStep, DupCloseStep DEF CloseDuplicates
<1>6. CASE UNCHANGED vars
  <2>1. UNCHANGED <<issue, main, branch, pr, pc, attempt, base, listed, seen, clash, rejected,
                    opened, found>>
    BY <1>6 DEF vars, repoVars, jobVars, dupVars
  <2>2. found' \in [Issue -> SUBSET Nat]  BY <2>1 DEF IInv, TypeOK
  <2>3. StillToClose'  BY <2>1 DEF IInv, StillToClose, Job
  <2> QED  BY <2>1, <2>2, <2>3, DuplicatesApart DEF IInv
<1> QED  BY <1>1, <1>2, <1>3, <1>4, <1>5, <1>6 DEF Next

\* The branches, the jobs and the issues stay related as IInv says, for any tables, any
\* certificates and any number of issues and attempts (update-certification-matrix.yml).
THEOREM Invariant == Spec => []IInv
<1> QED  BY InitHolds, NextKeeps, PTL DEF Spec

\* A job that succeeded and ran alone has its certificate on the default branch, in the
\* open pull request, or refused with one (yml lines 128-194).
THEOREM UndisturbedLands == Spec => []LandsWhenUndisturbed
<1>1. IInv => LandsWhenUndisturbed
  BY DEF IInv, Landed, LandsWhenUndisturbed, Kept
<1> QED  BY <1>1, Invariant, PTL

\* The last certificate entered in a row stands in its column on both branches, however
\* the jobs interleave (yml lines 57-87).
THEOREM LatestStays == Spec => []LatestInItsColumn
<1>1. IInv => LatestInItsColumn
  BY DEF IInv, Based, Held, Sound, LatestInItsColumn
<1> QED  BY <1>1, Invariant, PTL

\* When every close-duplicates job has ended, no two open issues certify the same (yml
\* lines 233-259).
THEOREM NoDuplicateLeftAlways == Spec => []NoDuplicateLeft
<1>1. IInv => NoDuplicateLeft
  <2> SUFFICES ASSUME IInv, \A i \in Job : found[i] = {},
                      NEW i \in opened, NEW j \in opened, issue[i] = issue[j], i # j
               PROVE  FALSE
    BY DEF NoDuplicateLeft
  <2>1. i \in Nat /\ j \in Nat /\ i \in Job /\ j \in Job
    BY IssueFacts DEF IInv, TypeOK, Issue
  <2>2. i < j \/ j < i  BY <2>1
  <2> QED  BY <2>1, <2>2 DEF IInv, StillToClose
<1> QED  BY <1>1, Invariant, PTL
=============================================================================
