--------------------------- MODULE Certification ---------------------------
(***************************************************************************)
(* One run of the harness (main and execute_certification of               *)
(* sev_verify/cli.py, the writers of output.py): the version filters, the  *)
(* prerequisites, then every selected manifest, the fold of its test       *)
(* results, the certified level, the two documents and the exit status.    *)
(* A test is reduced to its level; what execute_test returns is any        *)
(* verdict, or an exception that ends the process.                         *)
(***************************************************************************)
EXTENDS Naturals, Sequences, SequencesExt

CONSTANTS
    Levels,     \* certification levels, such as 3.0.0-1
    NoLevel,    \* the empty level; also Python's None for a certified level
    Releases,   \* the prefixes a filter may name, such as 3.0.0
    ReleaseOf,  \* the release of each level
    Versions,   \* the manifest versions, such as 3.0
    VersionOf,  \* the first two components of each version, release and level
    Runs        \* what may be started, see Run

Filters   == Versions \cup Releases \cup Levels
Verdicts  == {"pass", "fail", "error"}
Installed == [version : Versions,
              tests   : Seq(Levels \cup {NoLevel}),   \* the level of each test
              cap     : Levels \cup {NoLevel}]        \* max_certification_level
Run       == [prereqs   : Nat,              \* the tests of prereqs.toml
              asked     : Seq(Filters),     \* --version, split at the commas
              installed : Seq(Installed)]   \* cert_tests/*/manifest.toml, sorted

ASSUME LevelAssumption == /\ NoLevel \notin Levels
                          /\ Levels \cap Releases = {} /\ Versions \cap (Releases \cup Levels) = {}
                          /\ ReleaseOf \in [Levels -> Releases]
                          /\ VersionOf \in [Filters -> Versions]
                          /\ \A v \in Versions : VersionOf[v] = v
                          /\ \A l \in Levels : VersionOf[ReleaseOf[l]] = VersionOf[l]
ASSUME RunAssumption   == Runs \subseteq Run

\* A version has one directory under cert_tests, and the manifest in it names
\* levels of that version only.
ASSUME InstalledAssumption ==
    \A r \in Runs : \A j \in DOMAIN r.installed :
        LET man == r.installed[j]
        IN  /\ \A i \in DOMAIN r.installed : r.installed[i].version = man.version => i = j
            /\ \A k \in DOMAIN man.tests :
                   man.tests[k] # NoLevel => VersionOf[man.tests[k]] = man.version

VARIABLES
    run,       \* the command line and what is installed
    pc,        \* "prereqs", "load", "test", "json", "markdown"; "exited", "crashed"
    prereqs,   \* the results of the prerequisite tests so far
    m,         \* the manifest being run
    results,   \* its results: test index -> verdict, "none" when not run
    overall,   \* the fold of the results of this manifest
    reports,   \* the JSON documents written: one record per certification
    markdown,  \* the Markdown documents written
    torn,      \* the document that the end of the process cut off, or "none"
    exit       \* the exit status, "none" before it

docVars == <<reports, markdown, torn>>
vars == <<run, pc, prereqs, m, results, overall, docVars, exit>>

\* One turn of the loops that collect what they have not seen yet.
See(S, seen, x) == IF x \in S /\ ~Contains(seen, x) THEN Append(seen, x) ELSE seen

\* The members of S in a sequence, in the order in which they first appear.
FirstSeen(S, seq) == FoldLeft(LAMBDA seen, x : See(S, seen, x), <<>>, seq)

\* Mutant of LevelFilters: a level asked for narrows a bare version down.
LevelFiltersOnly(v) == {f \in ToSet(run.asked) : VersionOf[f] = v /\ f # v}

\* discover_manifests: the filters of the manifest of version v, {} for all of
\* it, which is also what a bare version among them means.
LevelFilters(v) ==
    IF v \in ToSet(run.asked) THEN {} ELSE {f \in ToSet(run.asked) : VersionOf[f] = v}

\* discover_manifests: the versions that the filters of a run name, in order.
AskedVersions(r) == FirstSeen(Versions, [j \in DOMAIN r.asked |-> VersionOf[r.asked[j]]])

\* One turn of its loop: the manifest of version v is added, a version that is
\* not installed is passed over.
Discover(installed, found, v) ==
    IF \E man \in ToSet(installed) : man.version = v
    THEN Append(found, CHOOSE man \in ToSet(installed) : man.version = v)
    ELSE found

\* The manifests to run, in the order in which the filters first name them.
DiscoverManifests(r) ==
    IF r.asked = <<>> THEN r.installed
    ELSE FoldLeft(LAMBDA found, v : Discover(r.installed, found, v), <<>>, AskedVersions(r))

Manifests == DiscoverManifests(run)
Man       == Manifests[m]
Tests     == DOMAIN Man.tests

-----------------------------------------------------------------------------
(* Levels and filters.                                                     *)

\* CertificationDefinition.__post_init__: levels in order of first appearance.
AllLevels(man) == FirstSeen(Levels, man.tests)

\* A cap must be one of the levels, when there are any.
WellFormed(man) ==
    man.cap = NoLevel \/ AllLevels(man) = <<>> \/ man.cap \in ToSet(AllLevels(man))

\* _matches_level
MatchesLevel(level, filter) ==
    /\ level # NoLevel
    /\ filter = level \/ filter = ReleaseOf[level]

\* _filter_tests: the tests that run.
Selected(man) ==
    LET filters == LevelFilters(man.version)
    IN  {k \in DOMAIN man.tests :
            filters = {} \/ \E f \in filters : MatchesLevel(man.tests[k], f)}

\* _worse_result
Severity == [pass |-> 0, skip |-> 1, fail |-> 2, error |-> 3]

WorseResult(current, candidate) ==
    IF Severity[candidate] > Severity[current] THEN candidate ELSE current

\* The results at a level of a manifest whose tests gave res.
ResultsAt(man, res, level) ==
    {res[k] : k \in {j \in DOMAIN man.tests : man.tests[j] = level}} \ {"none"}

\* One turn of the loop of _highest_certified_level: stop at a level that was
\* not run or has a test that did not pass.
Walk(man, res, acc, level) ==
    IF acc.broken \/ ResultsAt(man, res, level) # {"pass"}
    THEN [acc EXCEPT !.broken = TRUE]
    ELSE [acc EXCEPT !.highest = level]

Position(man, level) == CHOOSE k \in DOMAIN AllLevels(man) : AllLevels(man)[k] = level

\* Mutant of Clamp: the cap is taken whenever there is one.
ClampAlways(man, highest) ==
    IF highest # NoLevel /\ man.cap # NoLevel THEN man.cap ELSE highest

Clamp(man, highest) ==
    IF highest # NoLevel /\ man.cap # NoLevel /\ Position(man, man.cap) < Position(man, highest)
    THEN man.cap ELSE highest

\* _highest_certified_level
HighestCertifiedLevel(man, res) ==
    Clamp(man, FoldLeft(LAMBDA acc, l : Walk(man, res, acc, l),
                        [highest |-> NoLevel, broken |-> FALSE], AllLevels(man)).highest)

\* The "levels" of write_json.
LevelDoc(man, res) ==
    [l \in ToSet(AllLevels(man)) |->
        IF ResultsAt(man, res, l) = {} THEN "skip"
        ELSE IF ResultsAt(man, res, l) = {"pass"} THEN "pass" ELSE "fail"]

\* Mutant of FailureDetails: the tests without a level are only tabled.
FailureDetailsByLevel(man, res) ==
    {k \in DOMAIN man.tests : man.tests[k] # NoLevel /\ res[k] \notin {"none", "pass"}}

\* The "Failure Details" of write_markdown, collected table by table: one for
\* each level, and "Other Tests".
FailureDetails(man, res) ==
    UNION {{k \in DOMAIN man.tests : man.tests[k] = l /\ res[k] \notin {"none", "pass"}} :
              l \in ToSet(AllLevels(man)) \cup {NoLevel}}

-----------------------------------------------------------------------------
Init ==
    /\ run \in Runs
    /\ pc = "prereqs" /\ prereqs = <<>>
    /\ m = 1 /\ results = <<>> /\ overall = "pass"
    /\ reports = <<>> /\ markdown = <<>> /\ torn = "none" /\ exit = "none"

Exit(status) == pc' = "exited" /\ exit' = status

\* discover_manifests found nothing.
NoManifest ==
    /\ pc = "prereqs" /\ prereqs = <<>> /\ Manifests = <<>>
    /\ Exit("1")
    /\ UNCHANGED <<run, prereqs, m, results, overall, docVars>>

RunPrereq ==
    /\ pc = "prereqs" /\ Manifests # <<>> /\ Len(prereqs) < run.prereqs
    /\ \E r \in Verdicts : prereqs' = Append(prereqs, r)
    /\ UNCHANGED <<run, pc, m, results, overall, docVars, exit>>

\* Mutant of PrereqsDone: only a failure gates, not an error.
PrereqsDoneOnError ==
    /\ pc = "prereqs" /\ Manifests # <<>> /\ Len(prereqs) = run.prereqs
    /\ IF \E k \in DOMAIN prereqs : prereqs[k] = "fail"
       THEN Exit("1")
       ELSE pc' = "load" /\ UNCHANGED exit
    /\ UNCHANGED <<run, prereqs, m, results, overall, docVars>>

\* All prerequisites run; any that did not pass skips all certifications.
PrereqsDone ==
    /\ pc = "prereqs" /\ Manifests # <<>> /\ Len(prereqs) = run.prereqs
    /\ IF \E k \in DOMAIN prereqs : prereqs[k] # "pass"
       THEN Exit("1")
       ELSE pc' = "load" /\ UNCHANGED exit
    /\ UNCHANGED <<run, prereqs, m, results, overall, docVars>>

\* The loop over the manifests: load and filter; a manifest none of whose tests
\* match is passed over with a warning.
LoadManifest ==
    /\ pc = "load" /\ m <= Len(Manifests) /\ WellFormed(Man)
    /\ IF Selected(Man) = {}
       THEN /\ m' = m + 1
            /\ UNCHANGED <<pc, results, overall>>
       ELSE /\ pc' = "test"
            /\ results' = [k \in Tests |-> "none"]
            /\ overall' = "pass"
            /\ UNCHANGED m
    /\ UNCHANGED <<run, prereqs, docVars, exit>>

\* The next selected test runs and its verdict is folded in.
RunTest ==
    /\ pc = "test"
    /\ \E k \in Selected(Man), r \in Verdicts :
         /\ results[k] = "none"
         /\ \A j \in Selected(Man) : j < k => results[j] # "none"
         /\ results' = [results EXCEPT ![k] = r]
         /\ overall' = WorseResult(overall, r)
         /\ pc' = IF \A j \in Selected(Man) : j <= k THEN "json" ELSE "test"
    /\ UNCHANGED <<run, prereqs, m, docVars, exit>>

WriteJson ==
    /\ pc = "json"
    /\ reports' = Append(reports,
           [manifest  |-> m,
            result    |-> overall,
            certified |-> HighestCertifiedLevel(Man, results),
            levels    |-> LevelDoc(Man, results),
            tests     |-> results])
    /\ pc' = "markdown"
    /\ UNCHANGED <<run, prereqs, m, results, overall, markdown, torn, exit>>

WriteMarkdown ==
    /\ pc = "markdown"
    /\ markdown' = Append(markdown, [manifest  |-> m,
                                     certified |-> HighestCertifiedLevel(Man, results),
                                     failures  |-> FailureDetails(Man, results)])
    /\ pc' = "load" /\ m' = m + 1
    /\ UNCHANGED <<run, prereqs, results, overall, reports, torn, exit>>

\* Mutant of Summarize: the exit status is that of the last certification.
SummarizeLast ==
    /\ pc = "load" /\ m > Len(Manifests)
    /\ Exit(IF reports # <<>> /\ reports[Len(reports)].result # "pass" THEN "1" ELSE "0")
    /\ UNCHANGED <<run, prereqs, m, results, overall, docVars>>

Summarize ==
    /\ pc = "load" /\ m > Len(Manifests)
    /\ Exit(IF \E k \in DOMAIN reports : reports[k].result # "pass" THEN "1" ELSE "0")
    /\ UNCHANGED <<run, prereqs, m, results, overall, docVars>>

\* The process ends while it writes: the file is not there, or cut off.
CutOff == torn' \in IF pc \in {"json", "markdown"} THEN {"none", pc} ELSE {"none"}

\* Mutant of Crash: the exception is swallowed and no status is set.
CrashSilently ==
    /\ \/ pc = "prereqs" /\ Manifests # <<>> /\ Len(prereqs) < run.prereqs
       \/ pc = "load" /\ m <= Len(Manifests) /\ ~WellFormed(Man)
       \/ pc \in {"test", "json", "markdown"}
    /\ CutOff
    /\ pc' = "crashed" /\ UNCHANGED exit
    /\ UNCHANGED <<run, prereqs, m, results, overall, reports, markdown>>

\* A malformed manifest, an exception out of execute_test or out of the writers
\* ends the process with a traceback: exit status 1.
Crash ==
    /\ \/ pc = "prereqs" /\ Manifests # <<>> /\ Len(prereqs) < run.prereqs
       \/ pc = "load" /\ m <= Len(Manifests) /\ ~WellFormed(Man)
       \/ pc \in {"test", "json", "markdown"}
    /\ CutOff
    /\ pc' = "crashed" /\ exit' = "1"
    /\ UNCHANGED <<run, prereqs, m, results, overall, reports, markdown>>

Next ==
    \/ NoManifest \/ RunPrereq \/ PrereqsDone
    \/ LoadManifest \/ RunTest \/ WriteJson \/ WriteMarkdown \/ Summarize \/ Crash

Spec == Init /\ [][Next]_vars

-----------------------------------------------------------------------------
(* Properties.                                                             *)

\* A sequence, of whatever is in it.
IsSeq(s) == s \in Seq(ToSet(s))

\* Types; a process that ended by itself, by a traceback too, has an exit status.
TypeOK ==
    /\ run \in Runs /\ IsSeq(reports) /\ IsSeq(markdown)
    /\ pc \in {"prereqs", "load", "test", "json", "markdown", "exited", "crashed", "killed"}
    /\ prereqs \in Seq(Verdicts) /\ Len(prereqs) <= run.prereqs
    /\ m \in 1..Len(Manifests) + 1
    /\ overall \in Verdicts
    /\ pc \in {"test", "json", "markdown"} => results \in [Tests -> Verdicts \cup {"none"}]
    /\ exit \in {"none", "0", "1"} /\ torn \in {"none", "json", "markdown"}
    /\ (exit # "none") <=> pc \in {"exited", "crashed"}
    /\ Len(markdown) <= Len(reports)
    /\ \A n \in DOMAIN reports :
          /\ reports[n].manifest \in 1..Len(Manifests)
          /\ reports[n].result \in Verdicts
          /\ reports[n].certified \in Levels \cup {NoLevel}
          /\ reports[n].levels \in [DOMAIN reports[n].levels -> {"pass", "fail", "skip"}]
          /\ DOMAIN reports[n].levels \subseteq Levels
          /\ reports[n].tests \in
                 [DOMAIN Manifests[reports[n].manifest].tests -> Verdicts \cup {"none"}]

\* The rank of a level in its manifest: where a test of it first appears.
Rank(man, level) == CHOOSE k \in DOMAIN man.tests :
                        man.tests[k] = level /\ \A j \in 1..k-1 : man.tests[j] # level

\* What a report means for a level: all of the manifest's tests at the level and
\* at every level before it were run, whatever filter was given, and passed.
Earned(rep, level) ==
    LET man == Manifests[rep.manifest]
    IN  \A k \in DOMAIN man.tests :
            /\ man.tests[k] # NoLevel
            /\ Rank(man, man.tests[k]) <= Rank(man, level)
            => rep.tests[k] = "pass"

\* A certified level is earned over the unfiltered manifest and never above the
\* cap; and no earned level within the cap is higher, so a filter, a duplicate
\* level or the order of the tests neither gives nor takes a level.
CertifiedLevelEarned ==
    \A n \in DOMAIN reports :
        LET rep == reports[n]
            man == Manifests[rep.manifest]
            within(l) == man.cap = NoLevel \/ Rank(man, l) <= Rank(man, man.cap)
            earned == {l \in Levels : /\ \E k \in DOMAIN man.tests : man.tests[k] = l
                                      /\ within(l) /\ Earned(rep, l)}
        IN  IF rep.certified = NoLevel
            THEN earned = {}
            ELSE /\ rep.certified \in earned
                 /\ \A l \in earned : Rank(man, l) <= Rank(man, rep.certified)

\* The worst of the verdicts of a certification.
Worst(res) ==
    LET seen == {res[k] : k \in DOMAIN res}
    IN  IF "error" \in seen THEN "error" ELSE IF "fail" \in seen THEN "fail" ELSE "pass"

\* The documents of a certification do not disagree: its result is the worst of its
\* verdicts in whatever order the tests ran (an error is never masked by a failure,
\* nor a failure by a pass), every level up to the certified one reads "pass", a
\* result "pass" has no level that reads "fail", and the Markdown report of the same certificate names the same level and details a
\* failure exactly when the result is not "pass", whether the failing test has a
\* level or not.
ReportConsistent ==
    \A n \in DOMAIN reports :
        LET rep == reports[n]
            man == Manifests[rep.manifest]
        IN  /\ rep.result = Worst(rep.tests)
            /\ \A l \in DOMAIN rep.levels :
                 rep.certified # NoLevel /\ Rank(man, l) <= Rank(man, rep.certified)
                 => rep.levels[l] = "pass"
            /\ rep.result = "pass" => \A l \in DOMAIN rep.levels : rep.levels[l] # "fail"
            /\ n <= Len(markdown) =>
                 /\ markdown[n].manifest = rep.manifest
                 /\ markdown[n].certified = rep.certified
                 /\ (markdown[n].failures = {}) <=> (rep.result = "pass")

\* Test k of an installed manifest is meant by the command line: there is no
\* filter, or one names its version, its release or its level.
Asked(man, k) ==
    \/ run.asked = <<>>
    \/ \E f \in ToSet(run.asked) :
          \/ f = man.version
          \/ man.tests[k] # NoLevel /\ f \in {man.tests[k], ReleaseOf[man.tests[k]]}

\* No certification stops early and no filter widens or narrows another: a
\* report has a verdict for exactly the tests that are asked for, and when the
\* harness returns behind its prerequisites every such test is in a report.
ReportComplete ==
    /\ \A n \in DOMAIN reports :
           LET man == Manifests[reports[n].manifest]
           IN  \A k \in DOMAIN man.tests : (reports[n].tests[k] # "none") <=> Asked(man, k)
    /\ pc = "exited" /\ Manifests # <<>> /\ (\A k \in DOMAIN prereqs : prereqs[k] = "pass") =>
           \A j \in DOMAIN run.installed : \A k \in DOMAIN run.installed[j].tests :
               Asked(run.installed[j], k) =>
                   \E n \in DOMAIN reports : Manifests[reports[n].manifest] = run.installed[j]

\* No test of a certification runs unless every prerequisite was run and passed.
PrereqsGate ==
    pc \in {"load", "test", "json", "markdown"} \/ reports # <<>> =>
        /\ Len(prereqs) = run.prereqs
        /\ \A k \in DOMAIN prereqs : prereqs[k] = "pass"

\* Exit status 0 means that no test of the run, prerequisites included, did
\* anything but pass.
ExitZeroMeansPassed ==
    exit = "0" =>
        /\ \A k \in DOMAIN prereqs : prereqs[k] = "pass"
        /\ \A n \in DOMAIN reports : \A k \in DOMAIN reports[n].tests :
               reports[n].tests[k] \in {"pass", "none"}

-----------------------------------------------------------------------------
(* The inductive invariant.                                                *)

\* Where the gate is, and how the run may have ended.
Gated ==
    /\ PrereqsGate
    /\ pc = "prereqs" => m = 1 /\ reports = <<>> /\ markdown = <<>>
    /\ exit = "0" => /\ \A k \in DOMAIN prereqs : prereqs[k] = "pass"
                     /\ \A n \in DOMAIN reports : reports[n].result = "pass"
    /\ pc = "exited" /\ Manifests # <<>> /\ (\A k \in DOMAIN prereqs : prereqs[k] = "pass") =>
           m > Len(Manifests)

\* The certification under way: only selected tests have run, and the fold is
\* the worst of their verdicts; behind the loop all of them have.
UnderWay ==
    pc \in {"test", "json", "markdown"} =>
        /\ m <= Len(Manifests) /\ WellFormed(Man)
        /\ \A k \in Tests : results[k] # "none" => k \in Selected(Man)
        /\ pc # "test" => \A k \in Selected(Man) : results[k] # "none"
        /\ overall = Worst(results)

\* What a report says of the verdicts it carries.
Recorded(rep) ==
    LET man == Manifests[rep.manifest]
    IN  /\ WellFormed(man)
        /\ \A k \in DOMAIN man.tests : (rep.tests[k] # "none") <=> k \in Selected(man)
        /\ rep.result    = Worst(rep.tests)
        /\ rep.certified = HighestCertifiedLevel(man, rep.tests)
        /\ rep.levels    = LevelDoc(man, rep.tests)

\* The documents written so far, one pair for each manifest that was run.
Written ==
    /\ \A n \in DOMAIN reports : Recorded(reports[n]) /\ reports[n].manifest <= m
    /\ \A n \in DOMAIN reports : reports[n].manifest = m => pc \in {"markdown", "crashed", "killed"}
    /\ \A i, j \in DOMAIN reports : i < j => reports[i].manifest < reports[j].manifest
    /\ \A n \in DOMAIN markdown :
           LET rep == reports[n]
               man == Manifests[rep.manifest]
           IN  /\ markdown[n].manifest  = rep.manifest /\ rep.manifest < m
               /\ markdown[n].certified = rep.certified
               /\ markdown[n].failures  = FailureDetails(man, rep.tests)
    /\ pc = "markdown" => /\ Len(reports) = Len(markdown) + 1
                          /\ reports[Len(reports)].manifest = m
                          /\ reports[Len(reports)].tests = results
    /\ pc \in {"prereqs", "load", "test", "json", "exited"} => Len(reports) = Len(markdown)

\* No manifest behind the loop was left out.
Covered ==
    \A k \in 1..m-1 :
        \/ Selected(Manifests[k]) = {}
        \/ \E n \in DOMAIN reports : reports[n].manifest = k

IInv == TypeOK /\ Gated /\ UnderWay /\ Written /\ Covered
=============================================================================
