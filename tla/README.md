# snpcert in TLA+

This directory holds a TLA+ model of the certification harness of this
repository (`src/sev_verify`, with the vsock agent of the guest image), the TLC
configurations that check it and TLAPS proofs of its safety properties. Paths below are
relative to `src/`; `cli.py`, `runner.py` and so on are in `src/sev_verify/`.

    tlasany M.tla                       # parse a module
    tlc -workers 2 -config X.cfg M      # the runs, listed below
    tlapm TestExecutionProofs.tla       # the proofs; likewise the other *Proofs.tla and FoldFacts.tla

## 1. The system

snpcert boots a host image, runs a Python harness on it that boots SEV-SNP guests
under QEMU and runs certification tests in them, and publishes what it found.

| part | code | state it keeps | operations |
|---|---|---|---|
| test execution | `cli.py` 364-608, `runner.py` | the loop index, `ctx.profile`, `launch`, the step results, the thread of a handler | load the module, launch, stop, guest, pull, host and callable steps, the verdict, `finally` |
| VM profile and launch | `vm_profile.py` | a QEMU process | `validate`, `vm_launch`, `stop_vm` |
| vsock channel | `guest_vsock.py`, `modules/build/guest/vsock/.../vsock_exec.py` | one socket; the kernel's queue, the agent | ping until booted, run a command, pull a file; accept, run, respond |
| step and test records | `models.py` | none (dataclasses) | construction with validation |
| certification run | `cli.py` 161-361, 611-865 | results per test and certification | prerequisites, manifests, filters, fold, certified level, exit status |
| result writers | `output.py` | the report files | JSON and Markdown |
| guest OS information | `os_info.py` | a field of the environment | read once after a boot |
| TCB config and commit test | `cert_tests/.../snphost_config_commit.py` | the PSP's TCB versions, the artifact directory | 17 steps that lower, verify, restore and commit |
| attestation test | `cert_tests/.../attestation_test.py` | artifact directory | measure, launch, report, verify |
| ID block test | `cert_tests/.../id_block_test.py`, `cvm_props.py` | `ctx.profile`, key and block files | regenerate the block, good and bad launches |
| step log | `step_log.py` | a directory per guest | debug logs |
| environment detection | `environment.py` | none | reads versions |
| attestation report parser | `attestation_report.py` | none | choose the TCB layout by CPUID, decode or refuse |
| host pipeline | `modules/test/host/`, `modules/stop/host/` | unit states, `/root/results` | run the harness for ten minutes at most, publish its reports, reboot |
| guest pipeline | units under `modules/.../guest/` | unit states | order the scripts of the guest image |
| certification matrix | `.github/workflows/update-certification-matrix.yml` | two Markdown files of a branch, its pull request, issues | enter a certificate, close duplicates, per issue |
| image build, release | `images/`, `modules/build/`, `.github/` | none at run time | mkosi |

How they interact. `main` runs the prerequisite tests and then each manifest's
tests, one `execute_test` after the other, and writes a JSON and a Markdown report
per certification. On a host image a systemd service runs `main`, the next one publishes
each report as a GitHub issue, and each issue starts the matrix workflow. `main`'s only
view of a test is the
`TestResult`, or the exception, that comes back. `execute_test` owns at most one QEMU
process, shares `ctx.profile` with the handlers of the test module (they run in a
thread) and reaches the guest by vsock connections, one per request. The
guest's agent serves them one at a time and lives beside QEMU and the harness: it may hang,
die or be restarted by systemd in the middle of any of this. Some tests share
more than the context: the artifact directory and the firmware outlive the
test and the process.

What is hard here, and what should therefore hold:

* *Who owns the guest.* Launch, implicit launch, stop and `finally` can each
  fail, in any order, while QEMU lives and dies by itself. At most one guest,
  none after a result, and a guest step reaches the guest it was meant for.
* *The handler's thread.* It shares the profile with the loop and may outlast
  its timeout. It must not act beside a later step.
* *The verdict.* Three step types, four results and a gate; the report must
  have one result per step, and the verdict and the certified level must follow from it.
* *Requests that were given up, or that the guest failed.* A timeout ends the harness's side
  only; an error of the agent reads like one of the command; the agent or QEMU may die under a
  request.
* *State that outlives its run.* Files of earlier runs and a TCB override
  can be taken for this run's.
* *Termination.* Everything waits with a timeout, with one exception.
* *A run that is cut off.* systemd ends it after ten minutes wherever it is; what is published
  must still be earned, and the host must come free.
* *Evidence that must be decoded.* A TCB's byte order is not in the report; a guess gives
  plausible values.
* *Two issues at once.* The workflow's jobs share a branch, two files and a pull request,
  each call can fail or find the world changed.

`PROJECT.json` lists the hazards one by one, at their line, each with the
properties that would catch it.

## 2. Modules

    TestContract            what a test promises        (abstract)
        ^ refined by
    TestExecution           execute_test                (core)
        ^ extended by MCTestExecution (plans for TLC), TestExecutionProofs
    Certification           main, over the verdicts of tests;  CertificationProofs
        ^ extended by
    Publication             the host image around one run;  MCCertification, PublicationProofs
    VsockChannel            guest_vsock.py and the agent;  VsockChannelProofs
    TcbConfigCommit         one test's steps over firmware and artifacts;  TcbConfigCommitProofs
    AttestationReport       the parser, as operators
        ^ extended by
    IdBlock                 one test's steps over platform, profile and artifacts;  MCIdBlock, IdBlockProofs
    MatrixUpdate            the GitHub workflow behind the published issues
        ^ extended by MCMatrixUpdate, MatrixUpdateProofs
    FoldFacts               sets of numbers and folds, for CertificationProofs and MatrixUpdateProofs

The modules meet at narrow interfaces: what `Certification` assumes of a test
(any verdict or an exception) is what `TestExecution` shows of `execute_test`;
what `TestExecution` lets a guest step do (an answer while QEMU is ready, or an
error at any time, or `OSError`) is what `VsockChannel` shows of a request;
what `Publication` publishes (an issue per certification) is what opens the issues of
`MatrixUpdate`; `TcbConfigCommit` and `IdBlock` repeat the step loop's gating and verdict for one real test each.

### TestExecution

One call of `execute_test`. Variables are the locals of that function (`i`,
`profile`, `launch`, `launchOk`, `results`, `overall`), the shared context
(`ctxProfile`), the world (`qemu`, `vmProfile`, `handler`), the way out
(`outcome`, `verdict`) and one history variable, `served`: the process that ran
the command of each guest step. `flight` is a process that `vm_launch` has
spawned and not returned: only a stack frame refers to it.

`pc` names the place where the main thread is: at the head of the loop, in
`vm_launch` (`launch`, `spawned`, `boot`), in `update_environment_with_guest_os`, in a step,
in `stop_vm` (`journal`, `stop`, `terminating`, `killing`), `done`. Each action
is the code from one such place to the next, so QEMU (`QemuBoots`, `QemuExits`) and the handler's thread
(`HandlerSetsProfile`, `HandlerEnds`) interleave wherever the code waits. The
end of an iteration (`Record`) is part of the action that produces the result:
append, fold, and after a failed setup step the skips and the break.

What a command prints is reduced to its exit code and whether it holds the
expected text, so every step has every outcome its kind can have. A
`guest_pull` always "exits" 0 with no output, as in the code, so it cannot
satisfy `stdout_contains`. `vm_launch` that is refused is compared with the
step's expectation (the negative launches of the ID block test rely on it), the
same refusal behind a guest step is an error. `Escape` is every exception the
harness does not name: `OSError` from `Popen` or on a connected socket, decoding
errors, directories that cannot be written. `stop_vm` in `finally` can raise too
(`TerminateFails`, `KillTimeout`), and then replaces the result.

### TestContract

What a caller and a test author rely on: results are reported in step
order, at most one guest runs, nothing starts behind a failed setup step, and
the verdict is a function of the report. It knows nothing of processes being launched or
stopped, profiles, threads or `finally`. `TestExecution` maps to it with
`running` the processes that run, `log` the results and the verdict visible
only at the end.

### Certification

`main` over tests reduced to their level. The command line's filters choose the manifests
(`Manifests`, `LevelFilters`, as `discover_manifests` does) and the tests (`Selected`); the
verdicts are arbitrary. The two reports of a certification are written one after the other
(`WriteJson`, `WriteMarkdown`), and the process can end in either (`CutOff` leaves a torn file).
`AllLevels`, `MatchesLevel`, `WorseResult`, `Walk`, `Clamp`, `LevelDoc` and `FailureDetails` are
the pure functions of the code; the properties state what they mean over the
*unfiltered* manifest, by definitions that do not use them
(`Earned` ranks a level by where it first appears, `Asked` says what a filter means). The loops
of the code that collect or stop are folds of a named turn (`See`, `Discover`, `Walk`).

Levels, releases (`3.0.0`) and versions (`3.0`) are names; `ReleaseOf` and `VersionOf` say what
`_matches_level` and `_manifest_version` cut off, and `LevelAssumption` what that makes of them.
`InstalledAssumption` is a convention of the data, not of the code: one directory per
version (`discover_manifests` composes its name from the version, `cli.py` 281), and in
its manifest levels of that version only, as in `cert_tests/c3_0/manifest.toml`. A level of
another version would never be reached by a filter for it.

### Publication

One boot of the host image: `sev-verify.service` runs the harness without filters and ends it
after 600 s in any state (`ServiceTimeout`: SIGTERM, no `finally`), `beacon-report.sh` goes over
the reports in `/root/results` in the order of the glob and publishes each certification whose
JSON is complete and whose Markdown exists, `login-or-reboot.sh` reboots unless a key is pressed. A command
of the script that fails ends it (`set -e`), and the pipeline goes on. A harness that was started
by hand has the files and no pipeline.

### VsockChannel

Harness, kernel queue and agent. Connections are numbered in the order they are
made. The ends fail independently:

* The client may give up in any state of the agent, which notices only when it answers: then
  the response goes nowhere, or `sendall` raises outside the `try`, the agent dies, the kernel
  resets what was queued and systemd starts it again (`Respond`).
* The agent answers what it cannot carry out with exit code 1 (`erred`): a request that comes cut or
  empty, a `recv` or a `subprocess.run` that raises before the command started (`Recv`), output
  it cannot decode after it ran (`CommandEnds`). The harness reads that as an
  ordinary result that failed; so only a result with exit code 0 shows that a command ran,
  and an answered ping ends the boot wait whatever its exit code (`Receive`).
* The agent may be killed in any state (`AgentKilled`; its command goes with it, the service's control
  group is stopped as a whole) and QEMU may exit in any state (`GuestDies`). What was pending is lost
  and recorded in `cutOff`; the client meets end of file, a response cut short, or an
  `OSError` that nothing wraps. With QEMU gone, connecting fails until the next launch.

Two boots of the guest share the CID. The harness may also end
with an exception that leaves QEMU running (the finding `TornDownAlways`): the guest left behind
keeps the CID from the next one, until it dies, and answers in its place.

`RunOnceInOrder`, `NoStragglers` and `AnsweredByOwnGuest` hold across all of that.
`BrokenHasItsCause` says what a broken connection goes back to: a kill while this very request was in
the guest, or an earlier request to the same guest that was given up. That the agent never
breaks one for another reason depends on its answering errors rather than dropping them (the mutant).

### TcbConfigCommit

The 17 steps of the test over the PSP's three TCB versions, which the model
counts as numbers, and the report and certificate files of the artifact
directory. It runs several times: between the steps the harness may crash and
the host reboot; between the runs provisional firmware may be loaded and rolled back. Files stay.
The firmware is external: `config set` lowers ReportedTcb, at most to
CommittedTcb; `config reset` restores it to CommittedTcb (the ABI order the
test's documentation quotes; the same documentation also says CurrentTcb, on
a host with provisional firmware `verify_match` then fails, so the test
cannot pass either way); `commit` raises CommittedTcb to CurrentTcb.

### AttestationReport

`parse`, `read`, `host_generation` and `resolve_generation` as operators over what the
parser decides on: the size, the version, the CPUID bytes and the eight TCB bytes. The
table of generations is the code's. `LayoutNeverGuessed` compares the decoded TCB with
the one the machine had, over machines at both edges of every range and outside them.

### IdBlock

The ID block test, whose purpose is to be refused. The platform is chosen in
the initial state: which of the three defects (digest, SMT, ABI version) it
refuses, whether its reports carry the ID block, and (`host`) its processor and how its firmware
fills a report; so is the environment's metadata, which may be unusable.
So the question is what a verdict says about the platform, in both directions. A launch
is judged by the text QEMU leaves (`Says`, `Passes`); it may also fail
for reasons of its own (`Mishaps`), the measurement may be malformed though the tool exits 0, and
a handler may be late after it has rewritten
the profile (`Done`). `faults` counts what failed without the platform's doing. Files
of an earlier run stay in the artifact directory, SMT may be switched at any
time. The report is read by `ReadOn` of `AttestationReport`.
The firmware's checks (`LaunchOf`) are external, in the order the comments of the test give.

### MatrixUpdate

The two jobs of the workflow, call by call: `update-matrix` reads the default branch, looks for
an open pull request, makes the branch anew or keeps it, reads, edits and writes one or two
files and ends with a pull request or a comment; a 404, 409 or 422 starts the next attempt, any
other error ends the job. `close-duplicates` lists and closes. A file is its
cells without the text (`UpdateRow` is `updateTable`, `Without` its filter of empty cells); a branch also has, as history,
the entries made on it (`log`). GitHub is external: refs, the pull request it closes with its
branch, the sha check of a write, maintainers who merge (while the branch is up to
date with the default branch) or close. `clash` are the jobs that ran beside another or while a
maintainer acted.

## 3. Runs

| run | instance | shows |
|---|---|---|
| `test` | every plan of up to 3 steps over 9 step shapes with a VM, up to 2 without; the shapes of the shipped tests, up to 6 steps; 5 processes, 2 profiles, `--debug`, `FairSpec` | `IInv`, `OneGuest`, `TornDown`, `VerdictSound`, `SetupGate`, `HandlerConfined`, `GuestContinuity`, `LaunchesCurrentProfile`, `ImplementsContract` (refinement), `Returns` (liveness) |
| `certification` | a manifest of up to 3 tests over 3 levels, every cap and one filter; up to 2 installed manifests behind prerequisites, two filters; the service around it, `FairService` | `CertifiedLevelEarned`, `ReportConsistent`, `ReportComplete`, `PrereqsGate`, `ExitZeroMeansPassed`, `OnlyEarnedPublished`, `AllWrittenPublished`, `HostFreed` (liveness) |
| `tcb` | 2 runs, TCB versions up to 2 | `PassRestsOnFreshReports`, `OverrideCleared`, `CommitBehindGate`, `FreshEvidenceKeepsFloor` |
| `id_block` | 2 runs, 16 platforms on 2 hosts (a Turin with zeroed CPUID, a processor newer than the table), 2 faults per run | `RefusedForItsCase`, `PassMeansEnforced`, `PassRestsOnThisGuest`, `NoFalseAlarm`, `ReportsDecodedRight` |
| `vsock` | 4 connections, 2 boots, backlog 2, the agent and QEMU killed at any time, `FairSpec` | `RunOnceInOrder`, `NoStragglers`, `BrokenHasItsCause`, `AnsweredByOwnGuest`, `Settles` |
| `matrix` | 2 issues of 4 kinds on one distribution, 3 attempts | `LandsWhenUndisturbed`, `LatestInItsColumn`, `NoDuplicateLeft` |
| `test_leak`, `test_hang`, `tcb_stale`, `vsock_respond`, `matrix_race`, `matrix_cells` | as above | a documented promise the code breaks, see Findings |

Every passing run also checks the inductive invariant of its module (`IInv`, in `certification`
`ServiceInv`, which contains that of the harness); `TypeOK` is a part of it. `CHECK_DEADLOCK FALSE`
everywhere: a test, a process, a boot, a bounded sequence of connections or issues
end.

**Why the bounds are enough.** Three steps hold each pattern the
properties speak of: something launched, something that fails, something after it; a
process is used once and the lowest free one is taken, so `VM` never runs out. Two profiles tell "the current
one" from "another". Three levels of two releases, with repetition and tests without a
level, give every order of cap and highest level, and a filter by level or by
release. A second manifest and a second run are what it takes to see state carried
over. Four connections fill the
queue of two behind the one being served, and one is refused; or one is given up, one is served,
one breaks and one comes later, of the same guest or the next. The code's backlog only makes the
same queue longer, and the proofs are about any number of connections. Two faults let a handler fail
and the launch behind it, or the pull and the verification. Two issues are what it takes for
two jobs to meet, and for one to come after the other's merged, closed or open pull
request; the code's five attempts only repeat the third. The four kinds of
certificate have a table with one column and one with two, a level that is native and
enters `README.md` too, and a column that is missing. `MaxConn`,
`MaxBoots`, `MaxRuns`, `MaxTcb`, `MaxFaults`, `MaxIssues` and `MaxRetries` (in the code: 5) are the only
bounds in guards.

**Fairness.** `Scheduled` is weak fairness of the harness's main thread: it is
never descheduled for ever, and each of its waits (boot deadline, socket
timeouts, `wait(timeout)`, subprocess timeouts) has a limit, so some harness action is enabled
at each of them. The exception is leaving the thread pool, where it waits for
the handler; `FairSpec` adds that handlers end, which is a matter of the test
module. Nothing is assumed of QEMU or of the guest. In `VsockChannel`, `FairSpec` says
that the client acts on its socket, or its timeout, and assumes nothing of the agent: a
command may run for ever. `FairService` is weak fairness of systemd's jobs and timers and of
`beacon`, which has no timeout of its own; of the harness nothing is assumed, which is why
`HostFreed` needs the service's timeout. `MatrixUpdate` assumes none.

**Mutants.** Every property has a mutant (operators marked "Mutant of"), a
plausible bug in the code's logic under which it fails: a `vm_stop` that
failed and still gives the guest up, an abandoned pool thread, an error that does not
count, a profile that is not read again, a clamp without comparison, a response whose
exit code is not read, a service without its timeout, a branch made anew for every issue, a write
without the sha of what was read, a foreign report decoded as the host's.

## 4. Findings

* `TornDownAlways` (`test_leak`). README.md:58 of the harness says a guest
  still running is torn down in `finally`. An exception inside
  `vm_launch` after `Popen` (`guest_vsock.py` wraps `connect` and the recv timeout
  only) leaves QEMU running: `launch` was not assigned yet.
* `TimeoutEnforced` (`test_hang`). A callable's timeout is said to be enforced. The `with` block
  around the pool waits for the thread anyway, so a handler that hangs keeps its step, and
  the harness, for as long as it does. The same wait is what makes
  `HandlerConfined` true.
* `FloorNeedsConsent` (`tcb_stale`). The commit gate reads a report file; when this
  run's pull fails (a required step, the test goes on) an older run's file answers, and the TCB
  floor can advance over provisional firmware without `--allow-host-changes`.
  `FreshEvidenceKeepsFloor` shows that a report of this run is all it takes to exclude that.
* `AlwaysResponds` (`vsock_respond`). The agent "must always respond" (its own comment), but dies
  when a client that gave up is answered, and takes a waiting client with it. The property excepts
  an agent or a QEMU that was killed from outside, of which the comment cannot speak.
* `ConcurrentUpdatesKept` (`matrix_race`). The workflow has a "Retry loop to handle concurrent
  updates" (yml line 122). Two jobs that both see no pull request both delete the branch; the
  slower one does so behind the pull request the faster has opened. GitHub closes it, the faster
  job has succeeded and its certificate is nowhere. `LandsWhenUndisturbed` is what remains true.
* `CellsUnderTheirHeader` (`matrix_cells`). `updateTable` drops the empty cells of a row before it
  counts columns (yml line 64): a certificate behind a gap moves under the header of another
  version, against the column headers (`docs/certifications.md` line 30) by which the
  workflow chose the column (yml line 102). `LatestInItsColumn` shows
  that the entry just made is always right.

Not findings, but worth knowing: `close-duplicates` is named for older issues and closes newer
ones too, so two jobs can close each other's issue (`NoDuplicateLeft` says at most one is left,
not that one is; no property covers that both may be closed). `AnsweredByOwnGuest` holds with one exception, which it states: a guest that a dead harness left
running. The SMT case of the ID block test accepts any refusal of
LAUNCH_START, so `RefusedForItsCase` and `PassMeansEnforced` except an unrelated one.

## 5. Proofs

Every invariant and action property of the passing runs, and the refinement, is proved for all values of
the constants: any set of plans, manifests of any length, any number of connections,
boots, runs, issues and attempts, any tables. TLC shows the same on the small instances, and shows that
each can fail (the mutants). The assumptions are the named ones of the modules; most
say only that a value that stands for "none" is not one of the others, or
that a bound is a number.

No property is inductive alone. Each module ends with the inductive invariant `IInv`, a
conjunction of named parts; TLC checked it before it was proved. The layout is the same
everywhere: facts about the operators, one lemma for each action (or a group that changes the
same things), `Invariant == Spec => []IInv`, and the properties as consequences of it.

| module | theorems | the inductive invariant beside `TypeOK`, and why |
|---|---|---|
| `TestExecutionProofs` | `Invariant`, `TypeCorrect`, `OneGuestAlways`, `TornDownOnReturn`, `VerdictIsSound`, `SetupGateHolds`, `HandlerIsConfined`, `GuestContinues`, `LaunchesCurrentProfileAlways`, `Refinement` | `Control`: what the place of the main thread says of the variables it works with. That no guest survives a result needs that `launch` is the only process that may run, which needs where `flight` is set. `Ledger`: results up to the current step, the verdict folded from every prefix, a skip only behind a failed setup step. `Continuity`: a process once used is never new again, and `launch` is the guest of a step until a `vm_stop` gives it up |
| `VsockChannelProofs` | `Invariant`, `TypeCorrect`, `CommandsRunOnceInOrder`, `NothingLeftBehind`, `BrokenIsBlamed`, `OwnGuestAnswers` | `Order`: queue and agent go through the connections by number, so what is pending is newer than all that was answered. `History`: the same of the commands that ran. `Blame`: every response that was not sent, and every guest that is not the launch's own, has its cause on record. An error answer must be told from a command's own (`erred`) all the way from `Recv` to the result, and a connection lost to a kill (`cutOff`) from one lost to the agent's own death |
| `TcbConfigCommitProofs` | `Invariant`, `TypeCorrect`, `PassOnFreshReports`, `OverrideIsCleared`, `CommitsBehindTheGate`, `FreshEvidenceKeepsTheFloor` | `OneBoot`: reports in the guest are of this run and boot. `Evidence`: what each passed step says of the files and the firmware *now*; a report of this run is still true because nothing but the last step moves the levels |
| `IdBlockProofs` | `Invariant`, `TypeCorrect`, `RefusedForTheirCases`, `PassesMeanEnforced`, `PassesRestOnThisGuest`, `NoFalseAlarms`, `NeverGuessed`, `ReportsRight` | `Launched`: a defect is in the profile of its own case only. `Evidence`: where the report files come from. `StraightPath`: the one way an undisturbed run takes, step by step, which is what "no false alarm" is about. `NeverGuessed` is the parser alone, over every processor and report |
| `CertificationProofs` | `Invariant`, `TypeCorrect`, `CertificationEarned`, `DocumentsAgree`, `NothingSkipped`, `PrereqsFirst`, `ZeroMeansPassed` | `Gated`, `UnderWay` (the fold so far), `Written` (each document recomputed from its verdicts), `Covered` (no manifest behind the loop was left out). The rest is about the pure functions: `CertifiedIsHighestEarned` says that the walk with its clamp finds the highest level that is earned by the definition of the property, `DiscoverFacts` that the manifests found are those asked for |
| `PublicationProofs` | `ServiceInvariant`, `PublishedWasEarned`, `EverythingPublished`, `KilledHarness` | `Turns` (which service runs, and what the harness must be by then) and `Raised` (an issue for each complete pair of files that was passed). `KilledHarness` carries the properties of the harness over to one that systemd ends in any state |
| `MatrixUpdateProofs` | `Invariant`, `UndisturbedLands`, `LatestStays`, `NoDuplicateLeftAlways`, `RowsWithoutGapsStay` | `Based`: every branch, and every version of the default branch that a job still holds, has its last entries in place and what the default branch of its version has. That is needed because a branch is made from a ref that was read earlier, and because a merge must lose nothing. `OnItsWay`, `Alone`: an undisturbed job finds branch and pull request as it left them. `Landed`: no job is about to delete the pull request that holds its entry. `StillToClose`: of two open duplicates the older one is on the list of the newer one's job, or that job has not listed yet |

`MatrixUpdateProofs` has one lemma, `JobStep`, for the calls that a job makes once it
has started: `Effect` says what such a call may do, and each call is shown to do no more.
`CommitFacts` says that a commit puts its entry in place and keeps the last entry of every other
row; it rests on what `Without` returns. `RowsWithoutGapsStay` delimits the finding
`CellsUnderTheirHeader`: a cell moves only from behind a gap.

**Folds.** What a fold computes is an induction over data, for which the library's induction theorems
cannot be instantiated here. `FoldFacts` gets around it with sets: `SetInduction` is
induction for a *set* of numbers (from `WFMin`, the least element of a well-founded
order), and `FoldExists` gives, for a family of functions, the function on sets of indices
that the fold of the community modules chooses. `FirstSeenTurns`, `WalkTurns`,
`DiscoverTurns` and `WithoutTurns` then give each fold as a sequence of turns, and an
invariant of the turns is proved as a set of indices.

**Only model-checked.** Liveness under fairness, which is beyond the prover as `ENABLED` is:
`Returns` (`test`), `Settles` (`vsock`), `HostFreed` (`certification`). The findings
are counterexamples, and are TLC's alone.

**Not assumed, not proved.** Nothing here is about the models' distance from the code; the map in
`PROJECT.json` is what a reader compares.

## 6. Not modelled

* The QEMU command line, wording of logs and reports, Markdown layout: data without control.
* `step_log.py`: files for debugging which no verdict reads. One hazard stays without a
  property: under `--debug` the loop leaves the guest id in `ctx.profile` (`cli.py` 477) and a later
  launch writes into the same directory, where `models.py` 53 promises a generated id.
* `os_info.py` beyond the flag `osKnown`: what it reads is shown and not judged.
* `environment.py`, `snp_ok.py`: read tools, or a single host step.
* `attestation_test.py` beyond its step shapes: its checks are those of the tools it runs.
* Construction-time validation of steps and most of `models.py`: wrong test modules, not runs.
* The guest pipeline: units that run `snpguest` once and print; nothing reads them.
* Image build and release workflow: nothing at run time.

## 7. Plan

Done: `TestExecution` with its contract and proofs, `Certification` and `Publication`,
`TcbConfigCommit`, `VsockChannel` with the guest left behind, `AttestationReport` and `IdBlock`,
`MatrixUpdate`.

Left to model: the guest directories of `step_log.py`, over the launches of `TestExecution`.

Left to prove: every safety property that a run checks is proved, and liveness is beyond the
prover. The next theorems are about pairs of modules rather than single ones: that what
`Certification` assumes of a test is what `TestContract` allows.
