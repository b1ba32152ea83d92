--------------------------- MODULE TestExecution ---------------------------
(***************************************************************************)
(* One call of execute_test (sev_verify/cli.py): the loop that runs the    *)
(* steps of a test, the QEMU process it owns, the thread of a callable     *)
(* step and the finally clause.  A plan is a test: whether it needs a VM   *)
(* and its steps, each a record [kind, type, expect].  What a command      *)
(* prints is reduced to its exit code and to whether its output holds the  *)
(* text the step expects; a VM profile is a member of Profiles.            *)
(***************************************************************************)
EXTENDS Naturals, Sequences

CONSTANTS
    VM,         \* the QEMU processes that may be started
    NoVM,       \* Python's None for a launch
    Profiles,   \* VM profiles a test module or a callable may install
    Declared,   \* what effective_vm_profile returns for this test
    NoProfile,  \* None, the profile of a test with scope "host"
    Plans,      \* the tests to execute: [vm : BOOLEAN, steps : Seq(Steps)]
    Debug       \* the --debug flag

Kinds   == {"vm_launch", "vm_stop", "host", "guest", "guest_pull", "callable"}
Types   == {"setup", "required", "info"}
Expects == {"exit_code:0", "exit_code:1", "stdout_contains"}
Steps   == [kind : Kinds, type : Types, expect : Expects]
Results == {"pass", "fail", "error", "skip"}
Bad     == {"fail", "error"}

ASSUME VMAssumption      == NoVM \notin VM
ASSUME ProfileAssumption == Declared \in Profiles /\ NoProfile \notin Profiles
ASSUME PlanAssumption    == /\ Plans \subseteq [vm : BOOLEAN, steps : Seq(Steps)]
                            /\ Debug \in BOOLEAN

VARIABLES
    plan,        \* the test being executed
    pc,          \* where the harness's main thread is
    i,           \* the step the loop is at, counted from 1
    ctxProfile,  \* ctx.profile, shared with the handlers
    profile,     \* the loop's local copy of it
    launch,      \* the local "launch": the guest this test owns, or NoVM
    launchOk,    \* launch.ok
    flight,      \* the QEMU process vm_launch has spawned and not returned yet
    qemu,        \* what each QEMU process is doing
    vmProfile,   \* the profile each QEMU process was started with
    handler,     \* the thread of a callable step
    results,     \* the entry of step_results for each step, "none" before it
    overall,     \* the verdict so far
    served,      \* the QEMU process that ran the command of each guest step
    outcome,     \* how the try block was left: "none" while inside it
    verdict,     \* TestResult.result once the call returns
    osKnown      \* the guest OS needs no reading: no environment, or read before

stepVars == <<i, results, overall>>
vmVars   == <<qemu, vmProfile>>
ownVars  == <<launch, launchOk, flight>>
exitVars == <<outcome, verdict>>
ctxVars  == <<ctxProfile, handler>>
vars == <<plan, pc, i, ctxProfile, profile, launch, launchOk, flight, qemu,
          vmProfile, handler, results, overall, served, outcome, verdict, osKnown>>

N    == Len(plan.steps)
Step == plan.steps[i]

\* A process that runs: spawned and not yet exited.
Alive(v) == qemu[v] \in {"booting", "ready"}

\* _check_expected_values
Matches(code, says) ==
    \/ Step.expect = "exit_code:0" /\ code = 0
    \/ Step.expect = "exit_code:1" /\ code = 1
    \/ Step.expect = "stdout_contains" /\ says

Judge(code, says) == IF Matches(code, says) THEN "pass" ELSE "fail"

-----------------------------------------------------------------------------
Init ==
    /\ plan \in Plans
    /\ pc = "load"
    /\ i = 1
    /\ ctxProfile = NoProfile /\ profile = NoProfile
    /\ launch = NoVM /\ launchOk = FALSE /\ flight = NoVM
    /\ qemu = [v \in VM |-> "none"]
    /\ vmProfile = [v \in VM |-> NoProfile]
    /\ handler = "idle"
    /\ results = [k \in 1..N |-> "none"]
    /\ overall = "pass"
    /\ served = [k \in 1..N |-> NoVM]
    /\ outcome = "none" /\ verdict = "none"
    /\ osKnown \in BOOLEAN

\* Mutant of Record: an "error" of a required step does not count.
RecordIgnoresErrors(r) ==
    LET stop == r \in Bad /\ Step.type = "setup"
    IN  /\ results' = [k \in 1..N |-> IF k = i THEN r
                                      ELSE IF k > i /\ stop THEN "skip"
                                      ELSE results[k]]
        /\ overall' = IF r = "fail" /\ Step.type \in {"setup", "required"}
                      THEN "fail" ELSE overall
        /\ i' = IF stop THEN N + 1 ELSE i + 1
        /\ pc' = "loop"

\* Mutant of Record: the break after a failed setup step is missing.
RecordGoesOn(r) ==
    /\ results' = [results EXCEPT ![i] = r]
    /\ overall' = IF r \in Bad /\ Step.type \in {"setup", "required"}
                  THEN "fail" ELSE overall
    /\ i' = i + 1
    /\ pc' = "loop"

\* The end of an iteration: append the result, fold it into the verdict, and
\* after a setup step that did not pass append "skip" for the rest and leave.
Record(r) ==
    LET stop == r \in Bad /\ Step.type = "setup"
    IN  /\ results' = [k \in 1..N |-> IF k = i THEN r
                                      ELSE IF k > i /\ stop THEN "skip"
                                      ELSE results[k]]
        /\ overall' = IF r \in Bad /\ Step.type \in {"setup", "required"}
                      THEN "fail" ELSE overall
        /\ i' = IF stop THEN N + 1 ELSE i + 1
        /\ pc' = "loop"

\* Mutant of Unwind: only a guest that booted is torn down.
UnwindBootedOnly(how) ==
    /\ outcome' = how
    /\ pc' = IF launch = NoVM \/ ~launchOk THEN "done" ELSE "stop"

\* Leaving the try block by return or by an exception: the finally clause
\* stops the guest the local "launch" holds.
Unwind(how) ==
    /\ outcome' = how
    /\ pc' = IF launch = NoVM THEN "done" ELSE "stop"

-----------------------------------------------------------------------------
(* Loading the test module and building the context.                       *)

LoadPlan ==
    /\ pc = "load"
    /\ pc' = "loop"
    /\ ctxProfile' = IF plan.vm THEN Declared ELSE NoProfile
    /\ UNCHANGED <<plan, profile, handler, stepVars, vmVars, ownVars, exitVars,
                   served, osKnown>>

LoadFails ==
    /\ pc = "load"
    /\ verdict' = "error"
    /\ Unwind("return")
    /\ UNCHANGED <<plan, ctxVars, profile, stepVars, vmVars, ownVars, served, osKnown>>

(* The head of the loop: copy ctx.profile, then branch on the step kind.   *)

AtStep(kinds) == pc = "loop" /\ i <= N /\ Step.kind \in kinds

\* The steps the loop answers itself: a VM step of a test without a profile,
\* a second vm_launch, a vm_stop with no guest.
RefuseStep ==
    /\ \/ AtStep({"vm_launch"}) /\ (ctxProfile = NoProfile \/ launch # NoVM)
       \/ AtStep({"guest", "guest_pull"}) /\ ctxProfile = NoProfile
       \/ AtStep({"vm_stop"}) /\ launch = NoVM
       \/ AtStep({"guest", "guest_pull"}) /\ launch # NoVM /\ ~launchOk
    /\ profile' = ctxProfile
    /\ Record("error")
    /\ UNCHANGED <<plan, ctxVars, vmVars, ownVars, exitVars, served, osKnown>>

\* Mutant of BeginStep: no check for a guest that is already running.
BeginStepTwice ==
    /\ \/ /\ AtStep({"vm_launch"}) /\ ctxProfile # NoProfile
          /\ pc' = "launch"
       \/ /\ AtStep({"guest", "guest_pull"}) /\ ctxProfile # NoProfile
          /\ pc' = IF launch = NoVM THEN "launch" ELSE "guest"
       \/ /\ AtStep({"vm_stop"}) /\ launch # NoVM
          /\ pc' = IF Debug THEN "journal" ELSE "stop"
       \/ AtStep({"host"}) /\ pc' = "host"
    /\ profile' = ctxProfile
    /\ UNCHANGED <<plan, ctxVars, stepVars, vmVars, ownVars, exitVars, served, osKnown>>

\* Mutant of BeginStep: the local profile, once set, is not read again.
BeginStepStale ==
    /\ \/ /\ AtStep({"vm_launch", "guest", "guest_pull"}) /\ ctxProfile # NoProfile
          /\ launch = NoVM
          /\ pc' = "launch"
       \/ /\ AtStep({"guest", "guest_pull"}) /\ launch # NoVM /\ launchOk
          /\ pc' = "guest"
       \/ /\ AtStep({"vm_stop"}) /\ launch # NoVM
          /\ pc' = IF Debug THEN "journal" ELSE "stop"
       \/ AtStep({"host"}) /\ pc' = "host"
    /\ profile' = IF profile = NoProfile THEN ctxProfile ELSE profile
    /\ UNCHANGED <<plan, ctxVars, stepVars, vmVars, ownVars, exitVars, served, osKnown>>

BeginStep ==
    /\ \/ /\ AtStep({"vm_launch"}) /\ ctxProfile # NoProfile /\ launch = NoVM
          /\ pc' = "launch"
       \/ /\ AtStep({"guest", "guest_pull"}) /\ ctxProfile # NoProfile
          /\ launch = NoVM            \* the implicit launch
          /\ pc' = "launch"
       \/ /\ AtStep({"guest", "guest_pull"}) /\ ctxProfile # NoProfile
          /\ launch # NoVM /\ launchOk
          /\ pc' = "guest"
       \/ /\ AtStep({"vm_stop"}) /\ launch # NoVM
          /\ pc' = IF Debug THEN "journal" ELSE "stop"
       \/ /\ AtStep({"host"})
          /\ pc' = "host"
    /\ profile' = ctxProfile
    /\ UNCHANGED <<plan, ctxVars, stepVars, vmVars, ownVars, exitVars, served, osKnown>>

\* Mutant of Finish: the verdict is that of the last step.
FinishWithLast ==
    /\ pc = "loop" /\ i > N
    /\ verdict' = IF N = 0 \/ results[N] = "pass" THEN "pass" ELSE "fail"
    /\ Unwind("return")
    /\ UNCHANGED <<plan, ctxVars, profile, stepVars, vmVars, ownVars, served, osKnown>>

\* The loop is over: build the TestResult, then the finally clause.
Finish ==
    /\ pc = "loop" /\ i > N
    /\ verdict' = overall
    /\ Unwind("return")
    /\ UNCHANGED <<plan, ctxVars, profile, stepVars, vmVars, ownVars, served, osKnown>>

-----------------------------------------------------------------------------
(* vm_launch, explicit or implied by a guest step.                         *)

\* validate() or QEMU's early exit raises VMProfileError: a vm_launch step
\* compares it with its expectation, a guest step is an error.
LaunchRejected(says) ==
    Record(IF Step.kind = "vm_launch" /\ Matches(1, says) THEN "pass" ELSE "error")

RejectProfile ==
    /\ pc = "launch"
    /\ \E says \in BOOLEAN : LaunchRejected(says)
    /\ UNCHANGED <<plan, ctxVars, profile, vmVars, ownVars, exitVars, served, osKnown>>

\* The process Popen creates is one that was never started.  Which of them does
\* not matter, so the model takes them in a fixed order.
NextPid == CHOOSE v \in VM : qemu[v] = "none"

SpawnQemu ==
    /\ pc = "launch"
    /\ \E v \in VM :
         /\ qemu[v] = "none" /\ v = NextPid
         /\ qemu' = [qemu EXCEPT ![v] = "booting"]
         /\ vmProfile' = [vmProfile EXCEPT ![v] = profile]
         /\ flight' = v
    /\ pc' = "spawned"
    /\ UNCHANGED <<plan, ctxVars, profile, launch, launchOk, stepVars, exitVars,
                   served, osKnown>>

\* poll() after the two-second sleep.
QemuDiedAtOnce ==
    /\ pc = "spawned" /\ ~Alive(flight)
    /\ \E says \in BOOLEAN : LaunchRejected(says)
    /\ flight' = NoVM
    /\ UNCHANGED <<plan, ctxVars, profile, vmVars, launch, launchOk, exitVars,
                   served, osKnown>>

QemuSurvived ==
    /\ pc = "spawned" /\ Alive(flight)
    /\ pc' = "boot"
    /\ UNCHANGED <<plan, ctxVars, profile, stepVars, vmVars, ownVars, exitVars,
                   served, osKnown>>

\* check_guest_ready: a ping is answered, or QEMU is seen dead after a failed
\* ping, or the boot deadline passes with QEMU still running.
LaunchReturns(ok) ==
    /\ launch' = flight /\ launchOk' = ok /\ flight' = NoVM

GuestBooted ==
    /\ pc = "boot" /\ qemu[flight] = "ready"
    /\ LaunchReturns(TRUE)
    /\ pc' = "osinfo"
    /\ UNCHANGED <<plan, ctxVars, profile, stepVars, vmVars, exitVars, served, osKnown>>

\* Mutant of GuestNotBooted: no boot deadline, only a dead QEMU ends the wait.
GuestNeverLate ==
    /\ pc = "boot" /\ ~Alive(flight)
    /\ LaunchReturns(FALSE)
    /\ \E says \in BOOLEAN :
         Record(IF Step.kind = "vm_launch" THEN Judge(1, says) ELSE "error")
    /\ UNCHANGED <<plan, ctxVars, profile, vmVars, exitVars, served, osKnown>>

GuestNotBooted ==
    /\ pc = "boot"
    /\ LaunchReturns(FALSE)
    /\ \E says \in BOOLEAN :
         Record(IF Step.kind = "vm_launch" THEN Judge(1, says) ELSE "error")
    /\ UNCHANGED <<plan, ctxVars, profile, vmVars, exitVars, served, osKnown>>

\* update_environment_with_guest_os, then the vm_launch step is judged or the
\* guest step that implied the launch goes on.
GuestOsRead ==
    /\ pc = "osinfo"
    /\ osKnown' = TRUE
    /\ \/ /\ Step.kind = "vm_launch"
          /\ \E says \in BOOLEAN : Record(Judge(0, says))
       \/ /\ Step.kind # "vm_launch"
          /\ pc' = "guest"
          /\ UNCHANGED stepVars
    /\ UNCHANGED <<plan, ctxVars, profile, vmVars, ownVars, exitVars, served>>

-----------------------------------------------------------------------------
(* guest and guest_pull steps over vsock; host steps.                      *)

\* The agent answers.  A pull has the fixed outcome exit code 0 and no output.
GuestAnswers ==
    /\ pc = "guest" /\ qemu[launch] = "ready"
    /\ served' = [served EXCEPT ![i] = launch]
    /\ \/ /\ Step.kind = "guest"
          /\ \E code \in {0, 1}, says \in BOOLEAN : Record(Judge(code, says))
       \/ /\ Step.kind = "guest_pull"
          /\ Record(Judge(0, FALSE))
    /\ UNCHANGED <<plan, ctxVars, profile, vmVars, ownVars, exitVars, osKnown>>

\* GuestVsockError: no connection, no answer in time, a bad answer.
GuestStepError ==
    /\ pc = "guest"
    /\ Record("error")
    /\ UNCHANGED <<plan, ctxVars, profile, vmVars, ownVars, exitVars, served, osKnown>>

HostStepEnds ==
    /\ pc = "host"
    /\ \/ \E code \in {0, 1}, says \in BOOLEAN : Record(Judge(code, says))
       \/ Record("error")        \* TimeoutExpired or OSError
    /\ UNCHANGED <<plan, ctxVars, profile, vmVars, ownVars, exitVars, served, osKnown>>

-----------------------------------------------------------------------------
(* callable steps: the handler runs in a thread of its own, and leaving    *)
(* the with block waits for that thread whatever the timeout said.         *)

CallHandler ==
    /\ AtStep({"callable"})
    /\ profile' = ctxProfile
    /\ \/ /\ handler' = "running" /\ pc' = "callable"
          /\ UNCHANGED stepVars
       \/ /\ Record("error")     \* no such attribute, or not callable
          /\ UNCHANGED handler
    /\ UNCHANGED <<plan, ctxProfile, vmVars, ownVars, exitVars, served, osKnown>>

\* The handler's side: it may replace ctx.profile, and it ends.
HandlerSetsProfile ==
    /\ handler = "running" /\ ctxProfile # NoProfile
    /\ \E p \in Profiles : ctxProfile' = p
    /\ UNCHANGED <<plan, pc, handler, profile, stepVars, vmVars, ownVars, exitVars,
                   served, osKnown>>

HandlerEnds ==
    /\ handler = "running"
    /\ handler' = "ended"
    /\ UNCHANGED <<plan, pc, ctxProfile, profile, stepVars, vmVars, ownVars, exitVars,
                   served, osKnown>>

\* fut.result returns the StepHandlerResult, or the handler's exception, or
\* something that is not a StepHandlerResult.
HandlerResult ==
    /\ pc = "callable" /\ handler = "ended"
    /\ \/ \E code \in {0, 1}, says \in BOOLEAN : Record(Judge(code, says))
       \/ Record("error")
    /\ handler' = "idle"
    /\ UNCHANGED <<plan, ctxProfile, profile, vmVars, ownVars, exitVars, served, osKnown>>

\* Mutant of HandlerTimeout: shutdown(wait=False), the thread is abandoned.
HandlerAbandoned ==
    /\ pc = "callable" /\ handler = "running"
    /\ Record("error")
    /\ UNCHANGED <<plan, ctxVars, profile, vmVars, ownVars, exitVars, served, osKnown>>

HandlerTimeout ==
    /\ pc = "callable" /\ handler = "running"
    /\ pc' = "shutdown"
    /\ UNCHANGED <<plan, ctxVars, profile, stepVars, vmVars, ownVars, exitVars,
                   served, osKnown>>

\* ThreadPoolExecutor.__exit__ is shutdown(wait=True).
PoolShutDown ==
    /\ pc = "shutdown" /\ handler = "ended"
    /\ handler' = "idle"
    /\ Record("error")
    /\ UNCHANGED <<plan, ctxProfile, profile, vmVars, ownVars, exitVars, served, osKnown>>

-----------------------------------------------------------------------------
(* stop_vm, from a vm_stop step (outcome = "none") or from finally.        *)

JournalFetched ==
    /\ pc = "journal"
    /\ pc' = "stop"
    /\ UNCHANGED <<plan, ctxVars, profile, stepVars, vmVars, ownVars, exitVars,
                   served, osKnown>>

Terminate ==
    /\ pc = "stop"
    /\ pc' = "terminating"
    /\ UNCHANGED <<plan, ctxVars, profile, stepVars, vmVars, ownVars, exitVars,
                   served, osKnown>>

\* Mutant of TerminateFails: a vm_stop that failed still gives the guest up.
TerminateForgets ==
    /\ pc = "stop"
    /\ \/ /\ outcome = "none"
          /\ Record("error")
          /\ launch' = NoVM /\ launchOk' = FALSE
          /\ UNCHANGED exitVars
       \/ /\ outcome # "none"
          /\ outcome' = "raise" /\ pc' = "done" /\ verdict' = "none"
          /\ UNCHANGED <<stepVars, launch, launchOk>>
    /\ UNCHANGED <<plan, ctxVars, profile, vmVars, flight, served, osKnown>>

\* terminate() raises OSError: the vm_stop step is an error and the guest is
\* kept; in finally the exception leaves execute_test.
TerminateFails ==
    /\ pc = "stop"
    /\ \/ /\ outcome = "none"
          /\ Record("error")
          /\ UNCHANGED exitVars
       \/ /\ outcome # "none"
          /\ outcome' = "raise" /\ pc' = "done" /\ verdict' = "none"
          /\ UNCHANGED stepVars
    /\ UNCHANGED <<plan, ctxVars, profile, vmVars, ownVars, served, osKnown>>

\* wait() returns: a vm_stop step is judged on exit code 0 and gives the guest
\* up whatever the judgement; finally is over.
QemuStopped ==
    /\ pc \in {"terminating", "killing"} /\ ~Alive(launch)
    /\ \/ /\ outcome = "none"
          /\ \E says \in BOOLEAN : Record(Judge(0, says))
          /\ launch' = NoVM /\ launchOk' = FALSE
       \/ /\ outcome # "none"
          /\ pc' = "done"
          /\ UNCHANGED <<stepVars, launch, launchOk>>
    /\ UNCHANGED <<plan, ctxVars, profile, vmVars, flight, exitVars, served, osKnown>>

WaitTimeout ==
    /\ pc = "terminating" /\ Alive(launch)
    /\ pc' = "killing"
    /\ UNCHANGED <<plan, ctxVars, profile, stepVars, vmVars, ownVars, exitVars,
                   served, osKnown>>

\* Mutant of KillTimeout: the exception of the finally clause is lost on the
\* way and the TestResult that was about to be returned stays.
KillTimeoutKeepsVerdict ==
    /\ pc = "killing" /\ Alive(launch)
    /\ UNCHANGED verdict
    /\ outcome' = "raise"
    /\ pc' = IF outcome = "none" THEN "stop" ELSE "done"
    /\ UNCHANGED <<plan, ctxVars, profile, stepVars, vmVars, ownVars, served, osKnown>>

\* The wait after kill() has the same timeout and nothing catches it.
KillTimeout ==
    /\ pc = "killing" /\ Alive(launch)
    /\ verdict' = "none"
    /\ outcome' = "raise"
    /\ pc' = IF outcome = "none" THEN "stop" ELSE "done"
    /\ UNCHANGED <<plan, ctxVars, profile, stepVars, vmVars, ownVars, served, osKnown>>

-----------------------------------------------------------------------------
\* An exception no handler of the harness names: OSError from Popen or from a
\* connected vsock socket (only connect() is wrapped), a decoding error, the
\* artifact directory or a debug log that cannot be written.  The frame of
\* vm_launch holds the only reference to the process in flight.
Escape ==
    /\ \/ pc \in {"load", "launch", "host"}
       \/ pc = "loop" /\ Debug
       \/ pc = "boot" /\ qemu[flight] = "ready"
       \/ pc = "osinfo" /\ ~osKnown
       \/ pc \in {"guest", "journal"}
    /\ flight' = NoVM
    /\ Unwind("raise")
    /\ UNCHANGED <<plan, ctxVars, profile, stepVars, vmVars, launch, launchOk,
                   verdict, served, osKnown>>

(* QEMU on its own.                                                        *)

QemuBoots ==
    /\ \E v \in VM : qemu[v] = "booting" /\ qemu' = [qemu EXCEPT ![v] = "ready"]
    /\ UNCHANGED <<plan, pc, ctxVars, profile, stepVars, vmProfile, ownVars, exitVars,
                   served, osKnown>>

QemuExits ==
    /\ \E v \in VM : Alive(v) /\ qemu' = [qemu EXCEPT ![v] = "dead"]
    /\ UNCHANGED <<plan, pc, ctxVars, profile, stepVars, vmProfile, ownVars, exitVars,
                   served, osKnown>>

-----------------------------------------------------------------------------
Harness ==
    \/ LoadPlan \/ LoadFails \/ RefuseStep \/ BeginStep \/ Finish
    \/ RejectProfile \/ SpawnQemu \/ QemuDiedAtOnce \/ QemuSurvived
    \/ GuestBooted \/ GuestNotBooted \/ GuestOsRead
    \/ GuestAnswers \/ GuestStepError \/ HostStepEnds
    \/ CallHandler \/ HandlerResult \/ HandlerTimeout \/ PoolShutDown
    \/ JournalFetched \/ Terminate \/ TerminateFails \/ QemuStopped
    \/ WaitTimeout \/ KillTimeout \/ Escape

Next == Harness \/ HandlerSetsProfile \/ HandlerEnds \/ QemuBoots \/ QemuExits

Spec == Init /\ [][Next]_vars

\* The main thread is never descheduled for ever and all its waits but one
\* are timed; the exception is the wait for a handler's thread.
Scheduled == Spec /\ WF_vars(Harness)
FairSpec  == Scheduled /\ WF_vars(HandlerEnds)

-----------------------------------------------------------------------------
(* Properties.                                                             *)

\* Every variable has its type: among the rest, "launch" is a process that was
\* spawned, and a verdict exists exactly when execute_test returned.
TypeOK ==
    /\ plan \in Plans
    /\ pc \in {"load", "loop", "launch", "spawned", "boot", "osinfo", "guest", "host",
               "callable", "shutdown", "journal", "stop", "terminating", "killing", "done"}
    /\ i \in 1..N + 1
    /\ ctxProfile \in Profiles \cup {NoProfile}
    /\ profile \in Profiles \cup {NoProfile}
    /\ launch \in VM \cup {NoVM} /\ flight \in VM \cup {NoVM}
    /\ launchOk \in BOOLEAN /\ osKnown \in BOOLEAN
    /\ qemu \in [VM -> {"none", "booting", "ready", "dead"}]
    /\ vmProfile \in [VM -> Profiles \cup {NoProfile}]
    /\ handler \in {"idle", "running", "ended"}
    /\ results \in [1..N -> Results \cup {"none"}]
    /\ overall \in {"pass", "fail"}
    /\ served \in [1..N -> VM \cup {NoVM}]
    /\ outcome \in {"none", "return", "raise"}
    /\ verdict \in {"none", "pass", "fail", "error"}
    /\ (outcome = "return") <=> (verdict # "none")

Guestlike == {"guest", "guest_pull"}

\* A test never has two guests (they would share the vsock CID and the logs):
\* as long as no exception got out, the only QEMU process that may run is the
\* one being launched or, when none is, the one "launch" refers to.
OneGuest ==
    outcome # "raise" =>
        \A v \in VM : Alive(v) => v = (IF flight # NoVM THEN flight ELSE launch)

\* When execute_test returns a TestResult no guest of the test is running, for
\* every order of vm_launch, vm_stop and implicit launches, whichever failed.
TornDown == pc = "done" /\ outcome = "return" => \A v \in VM : ~Alive(v)

SetupFailed(k) == plan.steps[k].type = "setup" /\ results[k] \in Bad

\* The verdict of a returned test: "pass" exactly when every setup and every
\* required step passed, with one result per step, and a step is skipped only
\* behind a setup step that did not pass.
VerdictSound ==
    pc = "done" /\ verdict \in {"pass", "fail"} =>
        /\ (verdict = "pass") <=>
               \A k \in 1..N : plan.steps[k].type # "info" => results[k] = "pass"
        /\ \A k \in 1..N : results[k] # "none"
        /\ \A k \in 1..N : results[k] = "skip" => \E j \in 1..k-1 : SetupFailed(j)

\* A setup step that did not pass is the last one to touch anything: every
\* later step is "skip", no handler runs and no guest is spawned any more, the
\* harness has only to stop the guest it has and return.
SetupGate ==
    \A k \in 1..N : SetupFailed(k) =>
        /\ \A l \in k+1..N : results[l] = "skip" /\ served[l] = NoVM
        /\ pc \in {"loop", "stop", "terminating", "killing", "done"} /\ i > N
        /\ handler = "idle" /\ flight = NoVM

\* Two guest steps are answered by the same boot of the guest exactly when no
\* vm_stop between them gave the guest up: the report a guest_pull fetches was
\* written by the guest that ran the steps before it, and a guest step behind
\* a vm_stop never reaches the old guest.
GuestContinuity ==
    \A k \in 1..N, l \in 1..N :
        k < l /\ served[k] # NoVM /\ served[l] # NoVM =>
            ((served[k] = served[l]) <=>
                ~\E m \in k+1..l-1 : /\ plan.steps[m].kind = "vm_stop"
                                     /\ results[m] # "error")

\* The handler's thread is never left behind: while it runs the loop stands at
\* its step, so a timed-out handler cannot change ctx.profile under a later
\* step or run beside it.
HandlerConfined ==
    handler # "idle" =>
        /\ pc \in {"callable", "shutdown"}
        /\ results[i] = "none" /\ flight = NoVM

\* A guest is started with the profile that ctx.profile holds at that moment,
\* whatever handlers replaced it and however late (the loop once wrote its own
\* stale copy back, cli.py:435-439).
LaunchesCurrentProfile ==
    [][\A v \in VM : qemu[v] = "none" /\ qemu'[v] # "none" =>
                        vmProfile'[v] = ctxProfile]_vars

\* execute_test implements TestContract: a result as it is appended, the
\* processes that run, and the verdict when the finally clause is over.
Contract == INSTANCE TestContract WITH
    running <- {v \in VM : Alive(v)},
    log     <- results,
    phase   <- IF pc # "done" THEN "open"
               ELSE IF outcome = "return" THEN "returned" ELSE "raised",
    verdict <- IF pc = "done" THEN verdict ELSE "none"

\* Every behaviour of the loop, its guest and its handlers is one that the
\* contract of a test allows.
ImplementsContract == Contract!Spec

\* If handlers end, execute_test does: no boot, wait, stop or vsock exchange
\* blocks for ever and no sequence of step results makes the loop spin.
Returns == <>(pc = "done")

\* sev_verify/README.md:58, "if the test ends with a guest still running, the
\* harness still tears it down in a finally block": also when the test ends by
\* an exception.
TornDownAlways == pc = "done" => \A v \in VM : ~Alive(v)

\* runner.py:311, a callable runs "with a wall-clock timeout": a step whose
\* handler has not returned gets past it.
TimeoutEnforced == pc = "callable" ~> pc \notin {"callable", "shutdown"}
-----------------------------------------------------------------------------
(* The inductive invariant behind the safety properties.                   *)

InStep   == {"launch", "spawned", "boot", "osinfo", "guest", "host", "callable",
             "shutdown", "journal"}
Stopping == {"stop", "terminating", "killing"}

\* What the position of the main thread says of the variables it works with.
Control ==
    /\ pc \in InStep \/ (pc \in Stopping /\ outcome = "none") => i \in 1..N
    /\ pc = "load" => i = 1 /\ launch = NoVM
    /\ pc = "done" => outcome # "none"
    /\ outcome # "none" => pc \in Stopping \cup {"done"}
    /\ pc \in Stopping => verdict # "error"
    /\ flight # NoVM <=> pc \in {"spawned", "boot"}
    /\ pc \in {"launch", "spawned", "boot"} => launch = NoVM
    /\ pc \in {"osinfo", "guest", "journal"} \cup Stopping => launch # NoVM
    /\ handler # "idle" => pc \in {"callable", "shutdown"}
    /\ pc = "launch" => profile = ctxProfile

\* The results up to the current step, and the verdict folded from them.
Ledger ==
    /\ \A k \in 1..N : results[k] = "none" <=> k >= i
    /\ \A k \in 1..N : results[k] \in {"none", "skip"} => served[k] = NoVM
    /\ \A k \in 1..N : SetupFailed(k) =>
           i = N + 1 /\ \A l \in k+1..N : results[l] = "skip"
    /\ \A k \in 1..N : results[k] = "skip" => \E j \in 1..k-1 : SetupFailed(j)
    /\ (overall = "pass") <=>
           \A k \in 1..N : k < i /\ plan.steps[k].type # "info" => results[k] = "pass"
    /\ verdict \in {"pass", "fail"} => i = N + 1 /\ verdict = overall

\* A vm_stop step that gave the guest up.
GaveUp(m) == plan.steps[m].kind = "vm_stop" /\ results[m] \in {"pass", "fail"}

\* Which guests were used: processes once spawned are never new again, and the guest that
\* served a step is the one "launch" holds until a vm_stop gives it up.
Continuity ==
    /\ outcome = "none" /\ pc \in InStep \cup Stopping =>
           ((Step.kind = "vm_stop") <=> pc \in {"journal"} \cup Stopping)
    /\ \A v \in {launch, flight} \ {NoVM} : qemu[v] # "none"
    /\ \A k \in 1..N : served[k] # NoVM =>
           /\ qemu[served[k]] # "none" /\ served[k] # flight
           /\ (served[k] = launch) <=> ~\E m \in k+1..i-1 : GaveUp(m)
    /\ GuestContinuity

\* The invariant the proofs carry through every step.
IInv == TypeOK /\ Control /\ Ledger /\ OneGuest /\ TornDown /\ Continuity
=============================================================================
