------------------------------ MODULE IdBlock ------------------------------
(***************************************************************************)
(* The ID block test (id_block_test.py, cvm_props.py) over several runs:   *)
(* a guest with a valid ID block is launched and its report checked, then  *)
(* launches that the platform must refuse, each with the profile a handler *)
(* rewrote for its case.  The platform is a parameter of the behaviour:    *)
(* which defects it refuses, whether its reports carry the ID block, its   *)
(* processor and how its firmware fills the report (AttestationReport).    *)
(* A refused launch passes by the text QEMU leaves, not by its exit code.  *)
(* No guest step launches implicitly here: until "stop" a guest is held.   *)
(***************************************************************************)
EXTENDS Naturals, Sequences, AttestationReport

CONSTANTS
    MaxRuns,    \* bound: the runs of the test
    MaxFaults,  \* bound: what fails in a run that is not the platform's doing
    Hosts,      \* [cpu, version, zeroed]: processors and the reports of their firmware
    NoReport    \* no such file

ASSUME RunsAssumption == MaxRuns \in Nat \ {0} /\ MaxFaults \in Nat
ASSUME FileAssumption == NoReport \notin [run : 1..MaxRuns, block : BOOLEAN]
ASSUME HostAssumption == Hosts \subseteq [cpu : Machines, version : Versions, zeroed : BOOLEAN]

Cases == {"digest", "smt", "abi"}

S(op, case) == [op |-> op, case |-> case]

CaseSteps(c) == <<S("set", c), S("launch", c), S("stop", c)>>

\* steps(): the SMT case is in the list only when SMT is active then.
PlanFor(smtActive) ==
    <<S("measure", "valid"), S("generate", "valid"), S("launch", "valid"),
      S("report", "valid"), S("pull", "valid"), S("stop", "valid"), S("verify", "valid")>>
    \o CaseSteps("digest")
    \o (IF smtActive THEN CaseSteps("smt") ELSE <<S("note", "smt")>>)
    \o CaseSteps("abi")

StepType(s) == IF s.op \in {"measure", "generate"} \/ s = S("launch", "valid") THEN "setup"
               ELSE IF s.op \in {"stop", "note"} THEN "info"
               ELSE "required"

VARIABLES
    platform,  \* [refuses : SUBSET Cases, binds : BOOLEAN], fixed
    host,      \* the processor and its firmware, fixed
    metadata,  \* ID_BLOCK_*: the policy with SMT or without, or unusable; fixed
    smt,       \* SMT is active on the host
    run,       \* how many runs were started
    pc,        \* "idle", "running", "returned"
    plan,      \* the steps of this run
    i,         \* the step it is at
    results,   \* "none", "pass", "bad" (fail or error) or "skip" per step
    profile,   \* ctx.profile: the digest in the ID block and the policy
    measured,  \* guest_measurement.txt in the artifact directory: what it holds
    report,    \* report.bin in the artifact directory
    guest,     \* [state, profile, report]: the guest "launch" holds
    why,       \* how each launch step went
    faults     \* how often something other than the platform failed in this run

fixed   == <<platform, host, metadata>>
runVars == <<run, pc, plan>>
vars == <<platform, host, metadata, smt, run, pc, plan, i, results, profile, measured,
          report, guest, why, faults>>

N == Len(plan)
NoGuest == [state |-> "none", digest |-> "none", report |-> NoReport]

\* effective_vm_profile: no ID block, and QEMU's policy, which allows SMT.
Declared == [digest |-> "none", smt |-> TRUE, abi |-> "ok"]

Init ==
    /\ platform \in [refuses : SUBSET Cases, binds : BOOLEAN]
    /\ host \in Hosts /\ metadata \in {"smt", "no smt", "unusable"} /\ smt \in BOOLEAN
    /\ run = 0 /\ pc = "idle" /\ plan = <<>> /\ i = 1 /\ results = <<>>
    /\ profile = Declared /\ measured = "missing" /\ report = NoReport
    /\ guest = NoGuest /\ why = <<>> /\ faults = 0

-----------------------------------------------------------------------------
(* The platform.                                                           *)

\* How a launch of profile p ends when nothing else is wrong.  KVM looks at SMT
\* before the firmware looks at the policy; the digest is last.
LaunchOf(p) ==
    IF ~p.smt /\ smt /\ "smt" \in platform.refuses THEN "smt"
    ELSE IF p.abi = "max" /\ "abi" \in platform.refuses THEN "abi"
    ELSE IF p.digest = "flipped" /\ "digest" \in platform.refuses THEN "digest"
    ELSE "booted"

\* What else may happen to a launch: QEMU fails for a reason of its own, or
\* LAUNCH_START for one of the host's, or the guest never answers.
Mishaps == {"qemu", "launch-start", "hung"}

\* The texts in the message of vm_launch; of a guest that is running there is
\* none of QEMU's.
Says(w) ==
    CASE w = "digest"       -> {"Bad measurement"}
      [] w = "smt"          -> {"SNP_LAUNCH_START"}
      [] w = "abi"          -> {"SNP_LAUNCH_START", "Policy is not allowed"}
      [] w = "launch-start" -> {"SNP_LAUNCH_START"}
      [] OTHER              -> {}

Expected == [digest |-> "Bad measurement", smt |-> "SNP_LAUNCH_START",
             abi |-> "Policy is not allowed"]

\* Mutant of Passes: a refused launch is expected by exit code 1.
PassesRefused(case, w) == IF case = "valid" THEN w = "booted" ELSE w # "booted"

Passes(case, w) == IF case = "valid" THEN w = "booted" ELSE Expected[case] \in Says(w)

-----------------------------------------------------------------------------
(* The run.                                                                *)

StartRun ==
    /\ pc # "running" /\ run < MaxRuns
    /\ run' = run + 1 /\ pc' = "running" /\ plan' = PlanFor(smt) /\ i' = 1
    /\ results' = [k \in 1..Len(plan') |-> "none"]
    /\ why' = [k \in 1..Len(plan') |-> "none"]
    /\ profile' = Declared /\ guest' = NoGuest /\ faults' = 0
    /\ UNCHANGED <<fixed, smt, measured, report>>

At(op) == pc = "running" /\ i <= N /\ plan[i].op = op

\* Append the result; a setup step that did not pass skips the rest.
Finish(r) ==
    LET stop == r = "bad" /\ StepType(plan[i]) = "setup"
    IN  /\ results' = [k \in 1..N |-> IF k = i THEN r
                                      ELSE IF k > i /\ stop THEN "skip" ELSE results[k]]
        /\ i' = IF stop THEN N + 1 ELSE i + 1
        /\ UNCHANGED <<fixed, runVars, smt>>

\* Something fails that is not the platform's doing.
Fault == faults < MaxFaults /\ faults' = faults + 1

\* A step that had its effect, in time or too late for its timeout.
Done == \/ Finish("pass") /\ UNCHANGED faults
        \/ Finish("bad") /\ Fault

\* A tool, a handler or the vsock channel fails before it did anything.
StepBreaks ==
    /\ pc = "running" /\ i <= N /\ plan[i].op \notin {"launch", "stop", "note"}
    /\ Finish("bad") /\ Fault
    /\ UNCHANGED <<profile, measured, report, guest, why>>

\* calculate_measurement looks at the exit code only: what the tool wrote is
\* validated by read_measurement, where it is used.
CalculateMeasurement ==
    /\ At("measure")
    /\ \/ measured' = "valid" /\ Done
       \/ measured' = "malformed" /\ Finish("pass") /\ Fault
    /\ UNCHANGED <<profile, report, guest, why>>

\* read_measurement: the file is there and holds a digest.
MeasurementUsable == measured = "valid"

\* read_id_block_metadata: the policy from the environment.
PolicySmt == metadata = "smt"

\* generate_id_block: unusable metadata or a malformed measurement fail it, without a
\* measurement it passes and changes nothing.
GenerateIdBlock ==
    /\ At("generate")
    /\ \/ /\ metadata = "unusable" \/ measured = "malformed"
          /\ Finish("bad") /\ UNCHANGED <<profile, faults>>
       \/ /\ metadata # "unusable" /\ measured # "malformed"
          /\ profile' = IF MeasurementUsable
                        THEN [digest |-> "real", smt |-> PolicySmt, abi |-> "ok"] ELSE profile
          /\ Done
    /\ UNCHANGED <<measured, report, guest, why>>

\* vm_launch: a guest that is held already is an error.  A QEMU that ends at
\* once leaves nothing, one that ends while it is waited for is still held.
LaunchGuest ==
    /\ At("launch")
    /\ \/ /\ guest.state # "none"
          /\ Finish("bad")
          /\ UNCHANGED <<guest, why, faults>>
       \/ /\ guest.state = "none"
          /\ \E w \in {LaunchOf(profile)} \cup Mishaps,
                state \in {"none", "up", "held"} :
               /\ (state = "up") <=> (w = "booted")
               /\ w = "hung" => state = "held"
               /\ why' = [why EXCEPT ![i] = w]
               /\ guest' = IF state = "none" THEN NoGuest
                           ELSE [NoGuest EXCEPT !.state = state, !.digest = profile.digest]
               /\ Finish(IF Passes(plan[i].case, w) THEN "pass" ELSE "bad")
               /\ IF w \in Mishaps THEN Fault ELSE UNCHANGED faults
    /\ UNCHANGED <<profile, measured, report>>

\* snpguest report in the guest.  ID_KEY_DIGEST and the four fields are those
\* of the ID block the guest was launched with, on a platform that binds them.
GuestReport ==
    /\ At("report") /\ guest.state = "up"
    /\ guest' = [guest EXCEPT !.report =
                    [run |-> run, block |-> platform.binds /\ guest.digest # "none"]]
    /\ Done
    /\ UNCHANGED <<profile, measured, report, why>>

\* Mutant of PullReport: a file that is already on the host is kept.
PullReportKeepsOld ==
    /\ At("pull") /\ guest.state = "up" /\ guest.report # NoReport
    /\ report' = IF report # NoReport THEN report ELSE guest.report
    /\ Done
    /\ UNCHANGED <<profile, measured, guest, why>>

PullReport ==
    /\ At("pull") /\ guest.state = "up" /\ guest.report # NoReport
    /\ report' = guest.report
    /\ Done
    /\ UNCHANGED <<profile, measured, guest, why>>

\* Mutant of VerifyFields: a report without an ID block is not an error.
VerifyFieldsLenient ==
    /\ At("verify")
    /\ Finish(IF report # NoReport THEN "pass" ELSE "bad")
    /\ UNCHANGED <<profile, measured, report, guest, why, faults>>

\* attestation_report.read on the host that launched the guest.
ReadReport ==
    ReadOn(host.cpu, ReportFile(host.cpu, host.version, IF host.zeroed THEN Zeroed ELSE host.cpu))

\* verify_id_block_fields, on the report.bin that is there.
VerifyFields ==
    /\ At("verify")
    /\ Finish(IF report # NoReport /\ ReadReport.error = "none" /\ report.block
              THEN "pass" ELSE "bad")
    /\ UNCHANGED <<profile, measured, report, guest, why, faults>>

\* Mutant of StopGuest: the record of the stopped guest is not cleared.
StopGuestKeepsReport ==
    /\ At("stop")
    /\ guest' = [guest EXCEPT !.state = "none"]
    /\ Finish(IF guest.state # "none" THEN "pass" ELSE "bad")
    /\ UNCHANGED <<profile, measured, report, why, faults>>

\* vm_stop: nothing to stop is an error, and so is a guest that cannot be
\* signalled, which stays.
StopGuest ==
    /\ At("stop")
    /\ \/ /\ guest' = NoGuest
          /\ Finish(IF guest.state # "none" THEN "pass" ELSE "bad")
          /\ UNCHANGED faults
       \/ /\ guest.state # "none" /\ UNCHANGED guest
          /\ Finish("bad") /\ Fault
    /\ UNCHANGED <<profile, measured, report, why>>

\* Mutant of Regenerated: the policy is derived from the profile in force.
RegeneratedFromProfile(c) ==
    [digest |-> IF c = "digest" THEN "flipped" ELSE "real",
     smt    |-> IF c = "smt" THEN FALSE ELSE profile.smt,
     abi    |-> IF c = "abi" THEN "max" ELSE profile.abi]

\* _regenerate_id_block: one defect, everything else from the environment and
\* the measurement again, not from the profile of the case before.
Regenerated(c) ==
    [digest |-> IF c = "digest" THEN "flipped" ELSE "real",
     smt    |-> PolicySmt /\ c # "smt",
     abi    |-> IF c = "abi" THEN "max" ELSE "ok"]

\* set_bad_measurement, set_incompatible_policy (which looks at SMT again) and
\* set_bad_abi_version.
SetCase ==
    /\ At("set")
    /\ \/ /\ (plan[i].case = "smt" /\ ~smt) \/ ~MeasurementUsable \/ metadata = "unusable"
          /\ Finish("bad") /\ UNCHANGED <<profile, faults>>
       \/ /\ plan[i].case = "smt" => smt
          /\ MeasurementUsable /\ metadata # "unusable"
          /\ profile' = Regenerated(plan[i].case)
          /\ Done
    /\ UNCHANGED <<measured, report, guest, why>>

SmtCaseNotApplicable ==
    /\ At("note")
    /\ Finish("pass")
    /\ UNCHANGED <<profile, measured, report, guest, why, faults>>

\* The finally clause stops what is still held.
Return ==
    /\ pc = "running" /\ i > N
    /\ pc' = "returned" /\ guest' = NoGuest
    /\ UNCHANGED <<fixed, smt, run, plan, i, results, profile, measured, report,
                   why, faults>>

(* The world: SMT is switched, the guest dies.                             *)

SwitchSmt ==
    /\ smt' = ~smt
    /\ IF pc = "running" THEN Fault ELSE UNCHANGED faults
    /\ UNCHANGED <<fixed, runVars, i, results, profile, measured, report, guest, why>>

GuestDies ==
    /\ guest.state = "up"
    /\ guest' = [guest EXCEPT !.state = "held"] /\ Fault
    /\ UNCHANGED <<fixed, runVars, smt, i, results, profile, measured, report, why>>

Steps ==
    \/ StepBreaks \/ CalculateMeasurement \/ GenerateIdBlock \/ LaunchGuest
    \/ GuestReport \/ PullReport \/ VerifyFields \/ StopGuest \/ SetCase
    \/ SmtCaseNotApplicable

Next == StartRun \/ Steps \/ Return \/ SwitchSmt \/ GuestDies

Spec == Init /\ [][Next]_vars

-----------------------------------------------------------------------------
(* Properties.                                                             *)

Launches == Cases \cup Mishaps \cup {"booted"}
Reports  == [run : 1..MaxRuns, block : BOOLEAN]

\* Types; a guest that was given up leaves nothing behind in "guest", and only
\* launch steps have a launch.
TypeOK ==
    /\ platform \in [refuses : SUBSET Cases, binds : BOOLEAN]
    /\ host \in Hosts /\ metadata \in {"smt", "no smt", "unusable"}
    /\ smt \in BOOLEAN /\ measured \in {"missing", "malformed", "valid"} /\ faults \in 0..MaxFaults
    /\ run \in 0..MaxRuns /\ pc \in {"idle", "running", "returned"}
    /\ plan \in {<<>>, PlanFor(TRUE), PlanFor(FALSE)} /\ i \in 1..N + 1
    /\ results \in [1..N -> {"none", "pass", "bad", "skip"}]
    /\ profile \in [digest : {"none", "real", "flipped"}, smt : BOOLEAN, abi : {"ok", "max"}]
    /\ report \in Reports \cup {NoReport}
    /\ guest \in [state : {"none", "up", "held"}, digest : {"none", "real", "flipped"},
                  report : Reports \cup {NoReport}]
    /\ guest.state = "none" => guest = NoGuest
    /\ why \in [1..N -> Launches \cup {"none"}]
    /\ \A k \in 1..N : why[k] # "none" => plan[k].op = "launch"

LaunchAt(case) == CHOOSE k \in 1..N : plan[k] = S("launch", case)
HasCase(case)  == \E k \in 1..N : plan[k] = S("launch", case)

\* A refused launch passes only when the platform refused it for the defect of
\* its own case and had accepted the same guest without the defect in this run,
\* whichever handler failed or timed out before.  The SMT case has no text of
\* its own: there an unrelated failure of LAUNCH_START passes too.
RefusedForItsCase ==
    \A c \in Cases : HasCase(c) /\ results[LaunchAt(c)] = "pass" =>
        /\ why[LaunchAt(c)] \in {c} \cup (IF c = "smt" THEN {"launch-start"} ELSE {})
        /\ why[LaunchAt("valid")] = "booted"

Passed == pc = "returned" /\ \A k \in 1..N : StepType(plan[k]) # "info" => results[k] = "pass"

\* What a pass certifies: the platform binds the ID block into its reports, which the
\* parser could read for this processor and firmware, and refuses every defect that
\* was tried.
PassMeansEnforced ==
    Passed =>
        /\ platform.binds
        /\ ResolveGeneration(host.cpu) # Unknown /\ host.version >= 2
        /\ {"digest", "abi"} \subseteq platform.refuses
        /\ HasCase("smt") => \/ "smt" \in platform.refuses
                             \/ why[LaunchAt("smt")] = "launch-start"

\* The report a passing test was judged on is of this run and of the guest that
\* was launched with the valid ID block, not a file of an earlier run.
PassRestsOnThisGuest ==
    Passed => report.run = run /\ report.block /\ why[LaunchAt("valid")] = "booted"

\* No false alarm: on a platform that enforces everything, of a processor the parser
\* knows, with a policy it can satisfy, a run in which nothing else failed passes.  A case must neither
\* inherit the defect of the one before nor trip over its guest.
NoFalseAlarm ==
    /\ pc = "returned" /\ faults = 0
    /\ platform = [refuses |-> Cases, binds |-> TRUE]
    /\ ResolveGeneration(host.cpu) # Unknown /\ host.version >= 2
    /\ metadata # "unusable" /\ (HasCase("smt") => PolicySmt)
    => Passed

\* The parser alone, over every machine, host and report: a TCB is never decoded with a
\* guessed layout, and no report is refused for its processor on the machine it comes
\* from (LayoutNeverGuessed of AttestationReport, attestation_report.py lines
\* 257-458).  It depends on no variable, so it is evaluated before the first run only.
ReportsDecodedRight == run = 0 => LayoutNeverGuessed
-----------------------------------------------------------------------------
(* The inductive invariant behind the safety properties.                   *)

\* The results are those of the steps before the current one, up to the first setup step
\* that did not pass; the plan is there from the start of a run to the next.
Progress ==
    /\ \A k \in 1..N : (results[k] = "none") <=> k >= i
    /\ \A k \in 1..N : results[k] = "skip" => i = N + 1
    /\ \A k \in 1..N : StepType(plan[k]) = "setup" /\ k < i => results[k] = "pass" \/ i = N + 1
    /\ \A j, k \in 1..N : j < k /\ StepType(plan[j]) = "setup" /\ results[k] = "pass"
                            => results[j] = "pass"
    /\ pc = "returned" => i = N + 1
    /\ pc = "running" => run > 0
    /\ (pc = "idle") <=> (plan = <<>>)

\* A launch was refused only for a defect the platform refuses, and for the ABI only in the
\* last case: the profile carries that defect to no other launch.
Launched ==
    /\ profile.abi = "max" => \A k \in 1..N : k >= i /\ plan[k].op = "launch" => plan[k].case = "abi"
    /\ \A k \in 1..N :
          /\ why[k] \in Cases => why[k] \in platform.refuses
          /\ why[k] = "abi" => plan[k].case = "abi"
          /\ plan[k].op = "launch" /\ results[k] = "pass" => Passes(plan[k].case, why[k])

\* Where the report files come from, and what the steps that read them established.
Evidence ==
    /\ pc # "running" => guest = NoGuest
    /\ guest.report # NoReport => guest.report.run = run
    /\ \A rep \in {report, guest.report} \ {NoReport} : rep.block => platform.binds
    /\ \A k \in 1..N :
          /\ plan[k].op = "pull" /\ results[k] = "pass" => report # NoReport /\ report.run = run
          /\ plan[k].op = "verify" /\ results[k] = "pass" =>
                 report # NoReport /\ report.block /\ ReadReport.error = "none"

\* Nothing but the platform has had a say in this run, and it enforces everything.
Undisturbed ==
    /\ faults = 0
    /\ platform = [refuses |-> Cases, binds |-> TRUE]
    /\ ResolveGeneration(host.cpu) # Unknown /\ host.version >= 2
    /\ metadata # "unusable" /\ (HasCase("smt") => PolicySmt)

\* The profile a launch is made with, when the handlers in front of it worked.
ProfileOf(case) ==
    IF case = "valid" THEN [digest |-> "real", smt |-> PolicySmt, abi |-> "ok"] ELSE Regenerated(case)

\* The one way an undisturbed run takes: where it stands, every judged step has passed, a
\* guest is held only by the steps that need it, and each launch has the profile of its
\* own case.
StraightPath ==
    Undisturbed =>
        /\ \A k \in 1..N : k < i /\ StepType(plan[k]) # "info" => results[k] = "pass"
        /\ pc = "running" => (smt <=> HasCase("smt"))
        /\ pc = "running" /\ i > 1 => measured = "valid"
        /\ pc = "running" /\ i <= N =>
              /\ plan[i].op \notin {"report", "pull", "stop"} => guest = NoGuest
              /\ plan[i].op = "launch" => profile = ProfileOf(plan[i].case)
              /\ plan[i].op \in {"report", "pull"} => guest.state = "up" /\ guest.digest = "real"
              /\ plan[i].op = "pull" => guest.report # NoReport /\ guest.report.block
              /\ plan[i] = S("stop", "valid") \/ plan[i].op = "verify" =>
                     report # NoReport /\ report.block

\* The invariant the proofs carry through every step.
IInv == TypeOK /\ Progress /\ Launched /\ Evidence /\ StraightPath
=============================================================================
