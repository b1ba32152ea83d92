-------------------------- MODULE TcbConfigCommit --------------------------
(***************************************************************************)
(* The snphost-config-commit test over several runs of the harness: the    *)
(* firmware's TCB values it changes, the guest it boots, the reports it    *)
(* pulls into an artifact directory that no run cleans, and the gate in    *)
(* front of the commit.  A TCB is a level; "lower one field" is the level  *)
(* below.  The steps follow execute_test: a setup step that does not pass  *)
(* skips the rest, a required one only fails the test.                     *)
(***************************************************************************)
EXTENDS Naturals, Sequences

CONSTANTS
    Flash,      \* the TCB level of the firmware in flash, loaded at boot
    MaxTcb,     \* bound: the highest level a provisional image brings
    MaxRuns,    \* bound: the runs of the test
    NoReport    \* no such file

ASSUME TcbAssumption == /\ Flash \in Nat \ {0} /\ MaxTcb \in Nat /\ Flash <= MaxTcb
                        /\ MaxRuns \in Nat \ {0}

Plan == <<"show-tcb", "config-set-lower", "verify-differ", "launch",
          "guest-report-after-lower", "pull-report-after-lower",
          "verify-guest-report-lowered", "verify-lowered-report-signature",
          "config-reset", "verify-match",
          "guest-report-after-reset", "pull-report-after-reset",
          "verify-guest-report-restored", "stop", "teardown-config-reset",
          "verify-committed-equals-current", "commit-current-tcb">>

N == Len(Plan)
StepType(k) == IF Plan[k] \in {"show-tcb", "verify-committed-equals-current"} THEN "setup"
               ELSE IF Plan[k] \in {"stop", "teardown-config-reset"} THEN "info"
               ELSE "required"

VARIABLES
    current, committed, reported,  \* the PSP's TCB values (snphost show tcb, reports)
    allow,     \* --allow-host-changes of this run
    run,       \* how many runs were started
    pc,        \* "idle" between runs, "running", "returned" with a TestResult
    i,         \* the step of this run
    results,   \* "none", "pass", "bad" (fail or error) or "skip" per step
    target,    \* the level the plan was built with, one below Platform
    guest,     \* [state, boot, first, second]: the VM and the report files in it
    disk       \* [report, after]: report.bin and report_after_reset.bin

fwVars == <<current, committed, reported>>
vars == <<current, committed, reported, allow, run, pc, i, results, target, guest,
          disk>>

NoGuest == [state |-> "none", boot |-> 0, first |-> NoReport, second |-> NoReport]

Init ==
    /\ current = Flash /\ committed = Flash /\ reported = Flash
    /\ allow = FALSE /\ run = 0 /\ pc = "idle" /\ i = 1
    /\ results = [k \in 1..N |-> "none"]
    /\ target = 0 /\ guest = NoGuest
    /\ disk = [report |-> NoReport, after |-> NoReport]

-----------------------------------------------------------------------------
(* The firmware, as snphost drives it (ReportedTcb <= CommittedTcb <=      *)
(* CurrentTcb), and what happens to the host between two runs.             *)

ConfigSet(level) ==
    /\ level <= committed
    /\ reported' = level
    /\ UNCHANGED <<current, committed>>

ConfigReset ==
    /\ reported' = committed
    /\ UNCHANGED <<current, committed>>

\* A commit of a provisional image raises the floor and clears the override; a
\* no-op commit leaves both alone.
Commit ==
    /\ committed' = current
    /\ reported' = IF committed < current THEN current ELSE reported
    /\ UNCHANGED current

\* DOWNLOAD_FIRMWARE_EX with a newer image, or back to the committed one.
LoadProvisional ==
    /\ pc # "running" /\ current < MaxTcb
    /\ current' = current + 1
    /\ UNCHANGED <<committed, reported, allow, run, pc, i, results, target, guest, disk>>

RollBack ==
    /\ pc # "running" /\ current > committed
    /\ current' = committed
    /\ UNCHANGED <<committed, reported, allow, run, pc, i, results, target, guest, disk>>

\* The harness process is gone, and with it everything but the files it wrote.
ProcessGone ==
    /\ pc' = "idle" /\ i' = 1 /\ results' = [k \in 1..N |-> "none"]
    /\ target' = 0 /\ allow' = FALSE /\ guest' = NoGuest

Reboot ==
    /\ pc # "running"
    /\ current' = Flash /\ committed' = Flash /\ reported' = Flash
    /\ ProcessGone
    /\ UNCHANGED <<run, disk>>

-----------------------------------------------------------------------------
(* The run.                                                                *)

\* steps() reads the Platform TCB and builds the plan from it.  The artifact
\* directory is created when missing and never emptied.
StartRun ==
    /\ pc # "running" /\ run < MaxRuns
    /\ run' = run + 1 /\ pc' = "running" /\ i' = 1
    /\ allow' \in BOOLEAN
    /\ results' = [k \in 1..N |-> "none"]
    /\ target' = current - 1
    /\ guest' = NoGuest
    /\ UNCHANGED <<fwVars, disk>>

At(name) == pc = "running" /\ i <= N /\ Plan[i] = name

\* Mutant of Finish: the test goes on behind a setup step that did not pass.
FinishGoesOn(r) ==
    /\ results' = [results EXCEPT ![i] = r]
    /\ i' = i + 1
    /\ UNCHANGED <<allow, run, pc, target>>

\* Append the result; a setup step that did not pass skips the rest.
Finish(r) ==
    LET stop == r = "bad" /\ StepType(i) = "setup"
    IN  /\ results' = [k \in 1..N |-> IF k = i THEN r
                                      ELSE IF k > i /\ stop THEN "skip" ELSE results[k]]
        /\ i' = IF stop THEN N + 1 ELSE i + 1
        /\ UNCHANGED <<allow, run, pc, target>>

\* A step whose tool fails or times out before it did anything.
StepBreaks ==
    /\ pc = "running" /\ i <= N
    /\ Plan[i] \notin {"launch", "stop"}
    /\ Finish("bad")
    /\ UNCHANGED <<fwVars, guest, disk>>

ShowTcb == At("show-tcb") /\ Finish("pass") /\ UNCHANGED <<fwVars, guest, disk>>

\* A command may take effect and still time out.
ConfigSetLower ==
    /\ At("config-set-lower")
    /\ ConfigSet(target)
    /\ \E r \in {"pass", "bad"} : Finish(r)
    /\ UNCHANGED <<guest, disk>>

VerifyDiffer ==
    /\ At("verify-differ") /\ reported # current
    /\ Finish("pass")
    /\ UNCHANGED <<fwVars, guest, disk>>

\* vm_launch, or the implicit launch of a guest step when no guest is held: the
\* guest boots, or is held without having booted, or QEMU was refused.
Boot(state) == [state |-> state, boot |-> guest.boot + 1,
                first |-> NoReport, second |-> NoReport]

LaunchGuest ==
    /\ At("launch")
    /\ \/ guest' = Boot("up") /\ Finish("pass")
       \/ guest' = Boot("broken") /\ Finish("bad")
       \/ UNCHANGED guest /\ Finish("bad")
    /\ UNCHANGED <<fwVars, disk>>

ImplicitLaunch ==
    /\ pc = "running" /\ i <= N /\ guest.state = "none"
    /\ Plan[i] \in {"guest-report-after-lower", "pull-report-after-lower",
                    "guest-report-after-reset", "pull-report-after-reset"}
    /\ \/ guest' = Boot("up")
          /\ UNCHANGED <<allow, run, pc, i, results, target>>
       \/ guest' = Boot("broken") /\ Finish("bad")
    /\ UNCHANGED <<fwVars, disk>>

\* The report the firmware issues now, with the run and the boot it is from.
\* The command may write it and still not answer in time.
Report == [reported |-> reported, committed |-> committed, current |-> current,
           run |-> run, boot |-> guest.boot]

GuestReport ==
    /\ guest.state = "up"
    /\ \/ /\ At("guest-report-after-lower")
          /\ guest' = [guest EXCEPT !.first = Report]
       \/ /\ At("guest-report-after-reset")
          /\ guest' = [guest EXCEPT !.second = Report]
    /\ \E r \in {"pass", "bad"} : Finish(r)
    /\ UNCHANGED <<fwVars, disk>>

\* Mutant of PullReport: a file that is already on the host is kept.
PullReportKeepsOld ==
    /\ guest.state = "up"
    /\ \/ /\ At("pull-report-after-lower") /\ guest.first # NoReport
          /\ disk' = IF disk.report # NoReport THEN disk
                     ELSE [disk EXCEPT !.report = guest.first]
       \/ /\ At("pull-report-after-reset") /\ guest.second # NoReport
          /\ disk' = IF disk.after # NoReport THEN disk
                     ELSE [disk EXCEPT !.after = guest.second]
    /\ Finish("pass")
    /\ UNCHANGED <<fwVars, guest>>

\* The file exists in the guest: it replaces the one on the host.
PullReport ==
    /\ guest.state = "up"
    /\ \/ /\ At("pull-report-after-lower") /\ guest.first # NoReport
          /\ disk' = [disk EXCEPT !.report = guest.first]
       \/ /\ At("pull-report-after-reset") /\ guest.second # NoReport
          /\ disk' = [disk EXCEPT !.after = guest.second]
    /\ Finish("pass")
    /\ UNCHANGED <<fwVars, guest>>

\* _verify_guest_tcb on a file that exists.
GuestTcbMatches(rep) ==
    /\ rep # NoReport
    /\ rep.reported = reported /\ rep.current = current

VerifyReportLowered ==
    /\ At("verify-guest-report-lowered")
    /\ GuestTcbMatches(disk.report) /\ reported # current
    /\ Finish("pass")
    /\ UNCHANGED <<fwVars, guest, disk>>

\* The VCEK is fetched and the signature checked outside.
VerifySignature ==
    /\ At("verify-lowered-report-signature") /\ disk.report # NoReport
    /\ Finish("pass")
    /\ UNCHANGED <<fwVars, guest, disk>>

\* Mutant of ResetTcb: the teardown reset is gone.
ResetOnce ==
    /\ \/ /\ At("config-reset") /\ ConfigReset
          /\ \E r \in {"pass", "bad"} : Finish(r)
       \/ At("teardown-config-reset") /\ Finish("pass") /\ UNCHANGED fwVars
    /\ UNCHANGED <<guest, disk>>

ResetTcb ==
    /\ At("config-reset") \/ At("teardown-config-reset")
    /\ ConfigReset
    /\ \E r \in {"pass", "bad"} : Finish(r)
    /\ UNCHANGED <<guest, disk>>

VerifyMatch ==
    /\ At("verify-match") /\ reported = current
    /\ Finish("pass")
    /\ UNCHANGED <<fwVars, guest, disk>>

VerifyReportRestored ==
    /\ At("verify-guest-report-restored")
    /\ GuestTcbMatches(disk.after) /\ reported = current
    /\ Finish("pass")
    /\ UNCHANGED <<fwVars, guest, disk>>

\* Mutant of StopGuest: the record of the stopped guest is not cleared.
StopGuestKeepsReports ==
    /\ At("stop")
    /\ \/ guest.state # "none" /\ guest' = [guest EXCEPT !.state = "none"]
          /\ Finish("pass")
       \/ UNCHANGED guest /\ Finish("bad")
    /\ UNCHANGED <<fwVars, disk>>

StopGuest ==
    /\ At("stop")
    /\ \/ guest.state # "none" /\ guest' = [NoGuest EXCEPT !.boot = guest.boot]
          /\ Finish("pass")
       \/ UNCHANGED guest /\ Finish("bad")
    /\ UNCHANGED <<fwVars, disk>>

\* Mutant of CommitGate: it reads the report taken under the lowered TCB.
CommitGateFirstReport ==
    /\ At("verify-committed-equals-current")
    /\ disk.report # NoReport
    /\ disk.report.committed = disk.report.current \/ allow
    /\ Finish("pass")
    /\ UNCHANGED <<fwVars, guest, disk>>

\* verify_committed_equals_current: what report_after_reset.bin says, whichever
\* run pulled it, or the operator's consent.
CommitGate ==
    /\ At("verify-committed-equals-current")
    /\ disk.after # NoReport
    /\ disk.after.committed = disk.after.current \/ allow
    /\ Finish("pass")
    /\ UNCHANGED <<fwVars, guest, disk>>

CommitTcb ==
    /\ At("commit-current-tcb")
    /\ Commit
    /\ \E r \in {"pass", "bad"} : Finish(r)
    /\ UNCHANGED <<guest, disk>>

Return ==
    /\ pc = "running" /\ i > N
    /\ pc' = "returned" /\ guest' = NoGuest
    /\ UNCHANGED <<fwVars, allow, run, i, results, target, disk>>

\* An exception out of execute_test, or systemd's TimeoutStartSec.
Crash ==
    /\ pc = "running"
    /\ ProcessGone
    /\ UNCHANGED <<fwVars, run, disk>>

\* The guest dies on its own; the harness keeps holding it.
GuestDies ==
    /\ guest.state = "up" /\ guest' = [guest EXCEPT !.state = "broken"]
    /\ UNCHANGED <<fwVars, allow, run, pc, i, results, target, disk>>

Steps ==
    \/ StepBreaks \/ ShowTcb \/ ConfigSetLower \/ VerifyDiffer \/ LaunchGuest
    \/ ImplicitLaunch \/ GuestReport \/ PullReport \/ VerifyReportLowered
    \/ VerifySignature \/ ResetTcb \/ VerifyMatch \/ VerifyReportRestored
    \/ StopGuest \/ CommitGate \/ CommitTcb

Next == \/ LoadProvisional \/ RollBack \/ Reboot
        \/ StartRun \/ Steps \/ Return \/ Crash \/ GuestDies

Spec == Init /\ [][Next]_vars

-----------------------------------------------------------------------------
(* Properties.                                                             *)

Tcb == 0..MaxTcb
Reports == [reported : Tcb, committed : Tcb, current : Tcb, run : 1..MaxRuns, boot : 1..N]

\* Types, the order the ABI puts on the three values, and that a guest which was given
\* up leaves no report behind for the next one.
TypeOK ==
    /\ current \in Tcb /\ committed \in Tcb /\ reported \in Tcb
    /\ reported <= committed /\ committed <= current
    /\ pc \in {"idle", "running", "returned"} /\ i \in 1..N + 1 /\ run \in 0..MaxRuns
    /\ results \in [1..N -> {"none", "pass", "bad", "skip"}]
    /\ disk \in [report : Reports \cup {NoReport}, after : Reports \cup {NoReport}]
    /\ guest.state \in {"none", "up", "broken"}
    /\ guest.state = "none" => guest.first = NoReport /\ guest.second = NoReport

Passed == pc = "returned" /\ \A k \in 1..N : StepType(k) # "info" => results[k] = "pass"

StepOf(name) == CHOOSE k \in 1..N : Plan[k] = name
Result(name) == results[StepOf(name)]

\* A test that passes was judged on its own evidence: both reports are of this
\* run and of one boot of its guest, the first was issued under the lowered
\* TCB and the second under the restored one.
PassRestsOnFreshReports ==
    Passed =>
        /\ disk.report.run = run /\ disk.after.run = run
        /\ disk.report.boot = disk.after.boot
        /\ disk.report.reported < disk.report.current
        /\ disk.after.reported = disk.after.current

\* The commit gate is right whenever its evidence is: with a report this run
\* pulled, the anti-rollback floor moves only with --allow-host-changes,
\* whatever failed before and whatever firmware earlier runs left.
FreshEvidenceKeepsFloor ==
    [][committed' > committed /\ disk.after # NoReport /\ disk.after.run = run
          => allow]_vars

\* A finished run leaves an override of the reported TCB behind, its own or one
\* it found, only when neither of its two resets is known to have worked: the
\* teardown reset stands before the gate that can halt the test.
OverrideCleared ==
    pc = "returned" /\ Result("show-tcb") = "pass" /\ reported # committed =>
        /\ Result("config-reset") # "pass"
        /\ Result("teardown-config-reset") # "pass"

\* The host's firmware is only ever changed under a test that got past reading
\* it, and the floor only behind the gate: a commit happens when every setup
\* step of this run passed.
CommitBehindGate ==
    [][committed' > committed =>
          /\ Result("show-tcb") = "pass"
          /\ Result("verify-committed-equals-current") = "pass"]_vars

\* verify_committed_equals_current: "if Committed does not already equal
\* Current, committing would advance the floor ..., so this fails and the runner
\* halts before the commit step - unless --allow-host-changes".
FloorNeedsConsent == [][committed' > committed => allow]_vars
-----------------------------------------------------------------------------
(* The inductive invariant behind the safety properties.                   *)

Levels == current \in Tcb /\ committed \in Tcb /\ Flash <= committed /\ target \in Tcb

\* The results are those of the steps before the current one; a setup step that did not
\* pass, and with it any skip, ends the test.
Progress ==
    /\ \A k \in 1..N : (results[k] = "none") <=> k >= i
    /\ \A k \in 1..N : StepType(k) = "setup" /\ results[k] = "bad" => i = N + 1
    /\ \A k \in 1..N : results[k] = "skip" => i = N + 1

\* A run boots at most one guest, and none before its launch step; the report files in it
\* are of this run and of that boot.
OneBoot ==
    /\ guest \in [state : {"none", "up", "broken"}, boot : 0..1,
                   first : Reports \cup {NoReport}, second : Reports \cup {NoReport}]
    /\ pc = "running" => run > 0
    /\ pc # "running" \/ i <= StepOf("launch") => guest = NoGuest
    /\ guest.state # "none" => guest.boot = 1
    /\ guest.state = "none" /\ i <= StepOf("stop") => guest.boot = 0
    /\ \A rep \in {guest.first, guest.second} \ {NoReport} :
           rep.run = run /\ rep.boot = guest.boot

\* A report of this run says what the firmware still holds: nothing but the commit, the
\* last step, moves the two levels while a test runs.
Current(rep) ==
    rep # NoReport /\ rep.run = run => rep.committed = committed /\ rep.current = current

\* What the results so far say of the files and of the firmware.
Evidence ==
    /\ \A rep \in {disk.report, disk.after} \ {NoReport} : rep.run <= run
    /\ pc = "running" /\ i <= N => Current(disk.after) /\ Current(guest.second)
    /\ Result("pull-report-after-lower") = "pass" =>
           disk.report # NoReport /\ disk.report.run = run /\ disk.report.boot = 1
    /\ Result("verify-guest-report-lowered") = "pass" =>
           disk.report.reported < disk.report.current
    /\ Result("pull-report-after-reset") = "pass" =>
           disk.after # NoReport /\ disk.after.run = run /\ disk.after.boot = 1
    /\ Result("verify-guest-report-restored") = "pass" =>
           disk.after.reported = disk.after.current
    /\ Result("verify-committed-equals-current") = "pass" =>
           disk.after.committed = disk.after.current \/ allow
    /\ "pass" \in {Result("config-reset"), Result("teardown-config-reset")} =>
           reported = committed

\* The invariant the proofs carry through every step.
IInv == TypeOK /\ Levels /\ Progress /\ OneBoot /\ Evidence
=============================================================================
