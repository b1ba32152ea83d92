---------------------------- MODULE MatrixUpdate ----------------------------
(***************************************************************************)
(* The workflow update-certification-matrix.yml, which every issue that    *)
(* beacon-report.sh raises with a milestone starts: job update-matrix      *)
(* enters the certificate into docs/certifications.md and README.md on a   *)
(* shared branch and keeps a pull request open for it; job close-duplicates *)
(* closes the other issues with the same labels.  The jobs of several      *)
(* issues run at once.  Each call of the GitHub API is one step.           *)
(* An issue is a number, in the order of opening, and stands for the link  *)
(* that is written into a cell; 0 is an empty cell.                        *)
(***************************************************************************)
EXTENDS Naturals, Sequences, SequencesExt

CONSTANTS
    OSes,           \* the distributions, as their labels name them
    Procs,          \* the processor series
    Columns,        \* the certification columns of each table of certifications.md
    Native,         \* processorNativeLevel
    ReadmeColumns,  \* the processor columns of the table of README.md
    Certificates,   \* what an issue may certify: [os, proc, version]
    MaxIssues,      \* bound: issues opened
    MaxRetries,     \* attempts of update-matrix
    NoBranch        \* the branch update-certification-matrix does not exist

Issue == 1..MaxIssues

ASSUME TableAssumption ==
    /\ \A p \in Procs : Columns[p] \in Seq(STRING)
    /\ ReadmeColumns \in Seq(Procs)
    /\ Certificates \subseteq [os : OSes, proc : Procs, version : STRING]

\* What a branch with entries of these jobs can be.
Branches(jobs) == [cert    : [Procs \X OSes -> Seq({0} \cup jobs)],
                   readme  : [OSes -> Seq({0} \cup jobs)],
                   log     : Seq({"cert", "readme"} \X jobs),
                   version : Nat,
                   ahead   : BOOLEAN]

ASSUME NoBranchAssumption == NoBranch \notin Branches(Issue)
ASSUME BoundAssumption == MaxIssues \in Nat \ {0} /\ MaxRetries \in Nat \ {0}

VARIABLES
    issue,    \* the issues opened so far: number -> certificate
    main,     \* the default branch
    branch,   \* the branch of the workflow, or NoBranch
    pr,       \* a pull request from the branch to the default branch is open
    pc,       \* where each update-matrix job is
    attempt,  \* the attempt it makes
    base,     \* refData: the default branch as the job read it
    listed,   \* existingPRs is not empty
    seen,     \* the file the job read, with its sha
    clash,    \* the jobs that ran beside another job or an act of a maintainer
    rejected, \* the entries of pull requests closed without a merge
    opened,   \* the issues that are open
    found     \* what close-duplicates has still to close, for each issue

repoVars == <<main, branch, pr>>
jobVars  == <<pc, attempt, base, listed, seen>>
dupVars  == <<opened, found>>
vars == <<issue, repoVars, jobVars, clash, rejected, dupVars>>

NotRun == 0  \* no issue has this number

\* findTable, and the header of README.md: the place of a certificate among the
\* certification columns, 0 when there is no such column.
ColumnIn(columns, x) ==
    IF Contains(columns, x) THEN CHOOSE k \in DOMAIN columns : columns[k] = x ELSE 0

Column(c)       == ColumnIn(Columns[c.proc], c.version)
ReadmeColumn(c) == ColumnIn(ReadmeColumns, c.proc)
IsNative(c)     == Native[c.proc] = c.version

Keep(x, kept, y) == IF y = x THEN kept ELSE Append(kept, y)

\* What is left of a sequence when every x in it is dropped.
Without(x, seq) == FoldLeft(LAMBDA kept, y : Keep(x, kept, y), <<>>, seq)

\* updateTable, on the cells behind OS and status: the empty cells of the row are
\* dropped, it is filled up to the column, and the link is put there.  A row
\* that does not exist has no cells.
UpdateRow(row, column, link) ==
    LET kept  == Without(0, row)
        width == IF Len(kept) > column THEN Len(kept) ELSE column
    IN  [k \in 1..width |-> IF k = column THEN link
                            ELSE IF k <= Len(kept) THEN kept[k] ELSE 0]

\* The two files with a job's entry made in one of them.
Enter(files, file, r) ==
    LET c == issue[r]
    IN  IF file = "cert"
        THEN [files EXCEPT ![<<c.proc, c.os>>] = UpdateRow(@, Column(c), r)]
        ELSE [files EXCEPT ![c.os] = UpdateRow(@, ReadmeColumn(c), r)]

\* A branch: its files, the entries made in them in the order of the commits,
\* the version of the default branch it started from, and whether it has commits
\* of its own.
Empty == [cert    |-> [row \in Procs \X OSes |-> <<>>],
          readme  |-> [os \in OSes |-> <<>>],
          log     |-> <<>>,
          version |-> 0,
          ahead   |-> FALSE]

Init ==
    /\ issue = <<>>
    /\ main = Empty /\ branch = NoBranch /\ pr = FALSE
    /\ pc = [r \in Issue |-> "queued"] /\ attempt = [r \in Issue |-> 1]
    /\ base = [r \in Issue |-> Empty] /\ listed = [r \in Issue |-> FALSE]
    /\ seen = [r \in Issue |-> Empty.readme]
    /\ clash = {} /\ rejected = {}
    /\ opened = {} /\ found = [r \in Issue |-> {NotRun}]

-----------------------------------------------------------------------------
(* The jobs.  "queued" is before the first call, the last three are ends.  *)

Job    == DOMAIN issue
Active == {r \in Job : pc[r] \notin {"queued", "done", "skipped", "failed"}}

\* Who runs beside this job when it starts, or is disturbed by a maintainer.
Beside(r) == IF Active = {} THEN {} ELSE Active \cup {r}

Goto(r, place) == pc' = [pc EXCEPT ![r] = place]

\* A 404, 409 or 422 starts the next attempt; the last attempt fails the job.
Retry(r) ==
    IF attempt[r] < MaxRetries
    THEN attempt' = [attempt EXCEPT ![r] = @ + 1] /\ Goto(r, "ref")
    ELSE Goto(r, "failed") /\ UNCHANGED attempt

\* An issue with the labels of a certificate and a milestone is opened: both jobs
\* are queued for it.
OpenIssue ==
    /\ Len(issue) < MaxIssues
    /\ \E c \in Certificates : issue' = Append(issue, c)
    /\ opened' = opened \cup {Len(issue) + 1}
    /\ UNCHANGED <<repoVars, jobVars, clash, rejected, found>>

\* git.getRef of the default branch.
GetRef(r) ==
    /\ r \in Job /\ pc[r] \in {"queued", "ref"}
    /\ base' = [base EXCEPT ![r] = main]
    /\ clash' = IF pc[r] = "queued" THEN clash \cup Beside(r) ELSE clash
    /\ Goto(r, "list")
    /\ UNCHANGED <<issue, repoVars, attempt, listed, seen, rejected, dupVars>>

\* Mutant of ListPRs: the branch is made anew for every issue.
ListNoPRs(r) ==
    /\ pc[r] = "list"
    /\ listed' = [listed EXCEPT ![r] = FALSE]
    /\ Goto(r, "delete")
    /\ UNCHANGED <<issue, repoVars, attempt, base, seen, clash, rejected, dupVars>>

\* pulls.list decides between a new branch and the one of the open pull request.
ListPRs(r) ==
    /\ pc[r] = "list"
    /\ listed' = [listed EXCEPT ![r] = pr]
    /\ Goto(r, IF pr THEN "update" ELSE "delete")
    /\ UNCHANGED <<issue, repoVars, attempt, base, seen, clash, rejected, dupVars>>

\* git.deleteRef, a missing branch being no error.  GitHub closes the pull request
\* of a branch that is deleted.
DeleteRef(r) ==
    /\ pc[r] = "delete"
    /\ branch' = NoBranch /\ pr' = FALSE
    /\ Goto(r, "create")
    /\ UNCHANGED <<issue, main, attempt, base, listed, seen, clash, rejected, dupVars>>

\* git.createRef at the commit read first; 422 when another job made the branch.
CreateRef(r) ==
    /\ pc[r] = "create"
    /\ base' = [base EXCEPT ![r] = Empty]
    /\ IF branch = NoBranch
       THEN branch' = base[r] /\ Goto(r, "read") /\ UNCHANGED attempt
       ELSE Retry(r) /\ UNCHANGED branch
    /\ UNCHANGED <<issue, main, pr, listed, seen, clash, rejected, dupVars>>

\* git.updateRef without force: only a branch without commits of its own moves, and
\* every error is ignored.
UpdateRef(r) ==
    /\ pc[r] = "update"
    /\ base' = [base EXCEPT ![r] = Empty]
    /\ branch' = IF branch = NoBranch \/ branch.ahead \/ base[r].version < branch.version
                 THEN branch ELSE base[r]
    /\ Goto(r, "read")
    /\ UNCHANGED <<issue, main, pr, attempt, listed, seen, clash, rejected, dupVars>>

FileAt(place) == IF place \in {"read", "write"} THEN "cert" ELSE "readme"

\* getFile on the branch; 404 when there is none.  A certificate whose column the
\* table does not have ends the job, after the branch was made.
ReadFile(r) ==
    /\ pc[r] \in {"read", "read readme"}
    /\ LET file == FileAt(pc[r])
       IN  \/ branch = NoBranch /\ Retry(r) /\ UNCHANGED seen
           \/ /\ branch # NoBranch /\ file = "cert" /\ Column(issue[r]) = 0
              /\ Goto(r, "skipped") /\ UNCHANGED <<attempt, seen>>
           \/ /\ branch # NoBranch /\ (file = "cert" => Column(issue[r]) # 0)
              /\ seen' = [seen EXCEPT ![r] = branch[file]]
              /\ Goto(r, IF file = "cert" THEN "write" ELSE "write readme")
              /\ UNCHANGED attempt
    /\ UNCHANGED <<issue, repoVars, base, listed, clash, rejected, dupVars>>

\* Whether README.md gets an entry too.
InReadme(c) == IsNative(c) /\ ReadmeColumn(c) # 0

\* The commit of r's entry to a file of the branch, on top of the content it read.
Commit(r, file, content) ==
    [branch EXCEPT ![file] = Enter(content, file, r),
                   !.log = Append(Without(<<file, r>>, @), <<file, r>>),
                   !.ahead = TRUE]

\* Mutant of WriteFile: the sha is read again just before the write.
WriteFileBlind(r) ==
    /\ pc[r] \in {"write", "write readme"}
    /\ seen' = [seen EXCEPT ![r] = Empty.readme]
    /\ LET file == FileAt(pc[r])
       IN  IF branch # NoBranch
           THEN /\ branch' = Commit(r, file, seen[r])
                /\ Goto(r, IF file = "cert" /\ InReadme(issue[r]) THEN "read readme" ELSE "pr")
                /\ UNCHANGED attempt
           ELSE Retry(r) /\ UNCHANGED branch
    /\ UNCHANGED <<issue, main, pr, base, listed, clash, rejected, dupVars>>

\* createOrUpdateFileContents with the sha of the file that was read: 404 without the
\* branch, 409 when the file changed meanwhile.
WriteFile(r) ==
    /\ pc[r] \in {"write", "write readme"}
    /\ seen' = [seen EXCEPT ![r] = Empty.readme]
    /\ LET file == FileAt(pc[r])
       IN  IF branch # NoBranch /\ branch[file] = seen[r]
           THEN /\ branch' = Commit(r, file, branch[file])
                /\ Goto(r, IF file = "cert" /\ InReadme(issue[r]) THEN "read readme" ELSE "pr")
                /\ UNCHANGED attempt
           ELSE Retry(r) /\ UNCHANGED branch
    /\ UNCHANGED <<issue, main, pr, base, listed, clash, rejected, dupVars>>

\* A pull request may be opened: there is none, and the branch has something to merge.
Mergeable == ~pr /\ branch # NoBranch /\ branch.ahead

\* Mutant of FinishPR: a pull request is taken to be open whatever the call says.
FinishPRUnchecked(r) ==
    /\ pc[r] = "pr"
    /\ pr' = TRUE /\ Goto(r, "done")
    /\ UNCHANGED <<issue, main, branch, attempt, base, listed, seen, clash, rejected, dupVars>>

\* The job ends with a comment on the pull request it saw, or with a new one: 422
\* when one is open by now, or when the branch is gone or has nothing to merge.
FinishPR(r) ==
    /\ pc[r] = "pr"
    /\ \/ listed[r] /\ Goto(r, "done") /\ UNCHANGED <<pr, attempt>>
       \/ /\ ~listed[r] /\ Mergeable
          /\ pr' = TRUE /\ Goto(r, "done") /\ UNCHANGED attempt
       \/ /\ ~listed[r] /\ ~Mergeable
          /\ Retry(r) /\ UNCHANGED pr
    /\ UNCHANGED <<issue, main, branch, base, listed, seen, clash, rejected, dupVars>>

\* Any other error of a call ends the job.
CallFails(r) ==
    /\ r \in Active
    /\ Goto(r, "failed")
    /\ UNCHANGED <<issue, repoVars, attempt, base, listed, seen, clash, rejected, dupVars>>

-----------------------------------------------------------------------------
(* The maintainers (external), and the second job.                         *)

\* The pull request is merged; GitHub offers that while the branch is up to date.
MergePR ==
    /\ pr /\ branch.version = main.version
    /\ pr' = FALSE
    /\ main' = [branch EXCEPT !.version = @ + 1, !.ahead = FALSE]
    /\ branch' = main'
    /\ clash' = clash \cup Active
    /\ UNCHANGED <<issue, jobVars, rejected, dupVars>>

\* The pull request is closed without a merge: what only it held is refused.
ClosePR ==
    /\ pr /\ pr' = FALSE
    /\ rejected' = rejected \cup (ToSet(branch.log) \ ToSet(main.log))
    /\ clash' = clash \cup Active
    /\ UNCHANGED <<issue, main, branch, jobVars, dupVars>>

\* Mutant of DupList: only the issues opened behind this one.
DupListNewer(i) ==
    /\ i \in Job /\ found[i] = {NotRun}
    /\ found' = [found EXCEPT ![i] = {j \in opened : j > i /\ issue[j] = issue[i]}]
    /\ UNCHANGED <<issue, repoVars, jobVars, clash, rejected, opened>>

\* close-duplicates lists the open issues with the same milestone and labels, the
\* newer ones included.  A job that fails stays where it is.
DupList(i) ==
    /\ i \in Job /\ found[i] = {NotRun}
    /\ found' = [found EXCEPT ![i] = {j \in opened \ {i} : issue[j] = issue[i]}]
    /\ UNCHANGED <<issue, repoVars, jobVars, clash, rejected, opened>>

\* It closes them one by one, whatever became of them meanwhile.
DupClose(i) ==
    /\ \E j \in found[i] \ {NotRun} :
          opened' = opened \ {j} /\ found' = [found EXCEPT ![i] = @ \ {j}]
    /\ UNCHANGED <<issue, repoVars, jobVars, clash, rejected>>

UpdateMatrix(r) ==
    \/ GetRef(r) \/ ListPRs(r) \/ DeleteRef(r) \/ CreateRef(r) \/ UpdateRef(r)
    \/ ReadFile(r) \/ WriteFile(r) \/ FinishPR(r) \/ CallFails(r)

CloseDuplicates(i) == DupList(i) \/ DupClose(i)

Next ==
    \/ OpenIssue \/ MergePR \/ ClosePR
    \/ \E r \in Issue : UpdateMatrix(r) \/ CloseDuplicates(r)

Spec == Init /\ [][Next]_vars

-----------------------------------------------------------------------------
(* Properties.                                                             *)

Entries(r) == {<<"cert", r>>} \cup (IF InReadme(issue[r]) THEN {<<"readme", r>>} ELSE {})

\* Where a certificate may be: on the default branch, in the open pull request, or
\* refused by a maintainer.
Kept == ToSet(main.log) \cup (IF pr THEN ToSet(branch.log) ELSE {}) \cup rejected

Places == {"queued", "ref", "list", "delete", "create", "update", "read", "write",
           "read readme", "write readme", "pr", "done", "skipped", "failed"}

Branch == Branches(Job)

\* Types; an open pull request has a branch with something to merge, and the default
\* branch has no commits of its own (git refs of update-certification-matrix.yml).
TypeOK ==
    /\ issue \in Seq(Certificates) /\ Len(issue) <= MaxIssues
    /\ pc \in [Issue -> Places]
    /\ attempt \in [Issue -> 1..MaxRetries] /\ listed \in [Issue -> BOOLEAN]
    /\ main \in Branch /\ branch \in Branch \cup {NoBranch}
    /\ base \in [Issue -> Branch] /\ DOMAIN seen = Issue
    /\ ~main.ahead
    /\ pr \in BOOLEAN /\ (pr => branch # NoBranch /\ branch.ahead)
    /\ clash \subseteq Job /\ opened \subseteq Job /\ found \in [Issue -> SUBSET Nat]
    /\ rejected \subseteq {"cert", "readme"} \X Job

\* A job that succeeded and ran alone has its certificate where a maintainer will see
\* it, however many attempts, failed jobs, merges and closed pull requests came
\* before or come after: yml lines 128-194.
LandsWhenUndisturbed ==
    \A r \in Job : pc[r] = "done" /\ r \notin clash => Entries(r) \subseteq Kept

\* The row of an entry, its place there, and whether two entries share a row.
Row(b, e)     == LET c == issue[e[2]]
                 IN  IF e[1] = "cert" THEN b.cert[<<c.proc, c.os>>] ELSE b.readme[c.os]
Place(e)      == IF e[1] = "cert" THEN Column(issue[e[2]]) ELSE ReadmeColumn(issue[e[2]])
SameRow(d, e) == /\ d[1] = e[1] /\ issue[d[2]].os = issue[e[2]].os
                 /\ d[1] = "cert" => issue[d[2]].proc = issue[e[2]].proc

LatestIn(b) ==
    \A k \in DOMAIN b.log :
        (\A l \in DOMAIN b.log : l > k => ~SameRow(b.log[k], b.log[l]))
            => /\ Place(b.log[k]) \in DOMAIN Row(b, b.log[k])
               /\ Row(b, b.log[k])[Place(b.log[k])] = b.log[k][2]

\* The last certificate entered in a row stands in the column of its version (or
\* processor), on every branch and however the jobs interleave: yml lines 57-87 with
\* the sha of the file that was read.
LatestInItsColumn == \A b \in {main, branch} \ {NoBranch} : LatestIn(b)

\* When every close-duplicates job has ended, no two open issues certify the same, in
\* whatever order the jobs listed and closed: yml lines 233-259.
NoDuplicateLeft ==
    (\A i \in Job : found[i] = {})
        => \A i, j \in opened : issue[i] = issue[j] => i = j

\* What "Retry loop to handle concurrent updates" (yml line 122) promises: the
\* certificate of every job that succeeded is kept.
ConcurrentUpdatesKept ==
    \A r \in Job : pc[r] = "done" => Entries(r) \subseteq Kept

\* What the column headers of each table say (docs/certifications.md line 30, matched at
\* yml line 102): a certificate stands in the column of its version.
CellsUnderTheirHeader ==
    \A row \in Procs \X OSes : \A k \in DOMAIN main.cert[row] :
        main.cert[row][k] # 0 => Column(issue[main.cert[row][k]]) = k

-----------------------------------------------------------------------------
(* The inductive invariant.                                                *)

\* Every branch, and every version of the default branch that a job still holds.
Held == {main} \cup ({branch} \ {NoBranch}) \cup {base[r] : r \in Issue}

\* A branch has its last entries in place, and at the version of the default branch it
\* has what that one has.
Sound(b) ==
    /\ LatestIn(b) /\ b.version <= main.version
    /\ b.version = main.version => ToSet(main.log) \subseteq ToSet(b.log)

Based == (main.version = 0 => main.log = <<>>) /\ \A b \in Held : Sound(b)

\* A job starts with its issue, and gets to a file only when there is a column.
OnItsWay ==
    \A r \in Issue :
        /\ pc[r] # "queued" => r \in Job
        /\ pc[r] = "write" => Column(issue[r]) # 0
        /\ pc[r] \in {"read readme", "write readme"} => InReadme(issue[r])
        /\ pc[r] \in {"delete", "create"} => ~listed[r]

\* An undisturbed job is alone, and finds the pull request and the branch as it left them.
Alone ==
    \A r \in Active \ clash :
        /\ Active = {r}
        /\ listed[r] /\ pc[r] \notin {"ref", "list"} => pr
        /\ pc[r] \in {"read readme", "write readme", "pr"} =>
               branch # NoBranch /\ <<"cert", r>> \in ToSet(branch.log)
        /\ pc[r] = "pr" => Entries(r) \subseteq ToSet(branch.log)

\* What an undisturbed job has entered is merged or refused, or it is in a pull request
\* that no job is about to delete.
Landed ==
    \A r \in Job : pc[r] = "done" /\ r \notin clash =>
        \A e \in Entries(r) :
            \/ e \in ToSet(main.log) \cup rejected
            \/ /\ pr /\ e \in ToSet(branch.log)
               /\ \A x \in Issue : pc[x] # "delete"

\* Of two open duplicates the older one is still to be closed by the job of the newer.
StillToClose ==
    /\ \A j \in Issue : j \notin Job => found[j] = {NotRun}
    /\ \A i, j \in opened : i < j /\ issue[i] = issue[j] => found[j] = {NotRun} \/ i \in found[j]

IInv == TypeOK /\ Based /\ OnItsWay /\ Alone /\ Landed /\ StillToClose
=============================================================================
