----------------------- MODULE TcbConfigCommitProofs -----------------------
(***************************************************************************)
(* Proofs about TcbConfigCommit for every level of the firmware, any       *)
(* number of runs and any provisional images.                              *)
(***************************************************************************)
EXTENDS TcbConfigCommit, TLAPS

\* Where each step stands in the plan.
LEMMA PlanSteps ==
    /\ N = 17
    /\ StepOf("show-tcb") = 1
    /\ StepOf("launch") = 4
    /\ StepOf("pull-report-after-lower") = 6
    /\ StepOf("verify-guest-report-lowered") = 7
    /\ StepOf("config-reset") = 9
    /\ StepOf("pull-report-after-reset") = 12
    /\ StepOf("verify-guest-report-restored") = 13
    /\ StepOf("stop") = 14
    /\ StepOf("teardown-config-reset") = 15
    /\ StepOf("verify-committed-equals-current") = 16
<1>0. N = 17
  BY DEF N, Plan
<1>1. StepOf("show-tcb") = 1
  <2>1. \A k \in 1..17 : Plan[k] = "show-tcb" <=> k = 1
    BY DEF Plan
  <2> QED
    BY <1>0, <2>1 DEF StepOf
<1>2. StepOf("pull-report-after-lower") = 6
  <2>1. \A k \in 1..17 : Plan[k] = "pull-report-after-lower" <=> k = 6
    BY DEF Plan
  <2> QED
    BY <1>0, <2>1 DEF StepOf
<1>3. StepOf("verify-guest-report-lowered") = 7
  <2>1. \A k \in 1..17 : Plan[k] = "verify-guest-report-lowered" <=> k = 7
    BY DEF Plan
  <2> QED
    BY <1>0, <2>1 DEF StepOf
<1>4. StepOf("config-reset") = 9
  <2>1. \A k \in 1..17 : Plan[k] = "config-reset" <=> k = 9
    BY DEF Plan
  <2> QED
    BY <1>0, <2>1 DEF StepOf
<1>5. StepOf("pull-report-after-reset") = 12
  <2>1. \A k \in 1..17 : Plan[k] = "pull-report-after-reset" <=> k = 12
    BY DEF Plan
  <2> QED
    BY <1>0, <2>1 DEF StepOf
<1>6. StepOf("verify-guest-report-restored") = 13
  <2>1. \A k \in 1..17 : Plan[k] = "verify-guest-report-restored" <=> k = 13
    BY DEF Plan
  <2> QED
    BY <1>0, <2>1 DEF StepOf
<1>7. StepOf("stop") = 14
  <2>1. \A k \in 1..17 : Plan[k] = "stop" <=> k = 14
    BY DEF Plan
  <2> QED
    BY <1>0, <2>1 DEF StepOf
<1>8. StepOf("teardown-config-reset") = 15
  <2>1. \A k \in 1..17 : Plan[k] = "teardown-config-reset" <=> k = 15
    BY DEF Plan
  <2> QED
    BY <1>0, <2>1 DEF StepOf
<1>9. StepOf("verify-committed-equals-current") = 16
  <2>1. \A k \in 1..17 : Plan[k] = "verify-committed-equals-current" <=> k = 16
    BY DEF Plan
  <2> QED
    BY <1>0, <2>1 DEF StepOf
<1>10. StepOf("launch") = 4
  <2>1. \A k \in 1..17 : Plan[k] = "launch" <=> k = 4
    BY DEF Plan
  <2> QED
    BY <1>0, <2>1 DEF StepOf
<1> QED
  BY <1>0, <1>1, <1>2, <1>3, <1>4, <1>5, <1>6, <1>7, <1>8, <1>9, <1>10

\* The setup steps are the first one and the gate before the commit.
LEMMA SetupSteps ==
    \A k \in 1..N : (StepType(k) = "setup" <=> k \in {1, 16}) /\ StepType(k) \in {"setup", "info", "required"}
<1>1. \A k \in 1..17 : Plan[k] \in {"show-tcb", "verify-committed-equals-current"} <=> k \in {1, 16}
  BY DEF Plan
<1> QED
  BY <1>1, PlanSteps DEF StepType

\* Ending a step keeps the results what they are: those of the steps before the current one,
\* the last of them a setup step that did not pass or no such step among them.
LEMMA FinishFacts ==
    ASSUME TypeOK, Progress, i \in 1..N, NEW r \in {"pass", "bad"}, Finish(r)
    PROVE  /\ i' \in 1..N + 1 /\ i' > i
           /\ results' \in [1..N -> {"none", "pass", "bad", "skip"}]
           /\ results'[i] = r
           /\ \A k \in 1..N : k < i => results'[k] = results[k]
           /\ \A k \in 1..N : k > i => results'[k] \in {"none", "skip"}
           /\ i < 16 /\ i # 1 => i' = i + 1
           /\ Progress'
           /\ UNCHANGED <<allow, run, pc, target>>
<1> DEFINE stop == r = "bad" /\ StepType(i) = "setup"
<1>1. /\ i' = IF stop THEN N + 1 ELSE i + 1
      /\ results' = [k \in 1..N |-> IF k = i THEN r
                                    ELSE IF k > i /\ stop THEN "skip" ELSE results[k]]
      /\ UNCHANGED <<allow, run, pc, target>>
  BY DEF Finish
<1>2. stop <=> r = "bad" /\ i \in {1, 16}
  BY SetupSteps
<1> HIDE DEF stop
<1>3. N = 17 /\ i \in Nat /\ \A k \in 1..N : StepType(k)' = StepType(k)
  BY PlanSteps DEF StepType
<1>4. /\ results' \in [1..N -> {"none", "pass", "bad", "skip"}]
      /\ \A k \in 1..N : results'[k] = IF k = i THEN r
                                       ELSE IF k > i /\ stop THEN "skip" ELSE results[k]
  BY <1>1, <1>2, <1>3 DEF TypeOK
<1>5. \A k \in 1..N : (results[k] = "none") <=> k >= i
  BY DEF Progress
<1>6. \A k \in 1..N : (results'[k] = "none") <=> k >= i'
  BY <1>1, <1>2, <1>3, <1>4, <1>5
<1>7. \A k \in 1..N : results[k] # "skip" /\ (StepType(k) = "setup" => results[k] # "bad")
  BY <1>3 DEF Progress
<1>8. \A k \in 1..N : results'[k] = "skip" => i' = N + 1
  BY <1>1, <1>2, <1>3, <1>4, <1>7
<1>9. \A k \in 1..N : StepType(k) = "setup" /\ results'[k] = "bad" => i' = N + 1
  BY <1>1, <1>2, <1>3, <1>4, <1>7, SetupSteps
<1>10. Progress'
  BY <1>3, <1>6, <1>8, <1>9 DEF Progress
<1>11. \A k \in 1..N : k > i => results'[k] \in {"none", "skip"}
  BY <1>3, <1>4, <1>5
<1>12. i' \in 1..N + 1 /\ i' > i /\ (i < 16 /\ i # 1 => i' = i + 1)
  BY <1>1, <1>2, <1>3
<1> QED
  BY <1>1, <1>3, <1>4, <1>10, <1>11, <1>12

\* The judged steps and what they establish: a pull brings the guest's file, and each check
\* that passes leaves its fact.
LEMMA FinishStep ==
    ASSUME IInv, pc = "running", i \in 1..N, NEW r \in {"pass", "bad"}, Finish(r),
           UNCHANGED <<current, committed>>, reported' \in 0..committed,
           reported' = reported \/ i = 2 \/ reported' = committed,
           OneBoot',
           guest'.state = "none" => guest'.first = NoReport /\ guest'.second = NoReport,
           guest'.second = guest.second \/ Current(guest'.second),
           \/ disk' = disk /\ (r = "pass" => i \notin {6, 12})
           \/ i = 6  /\ guest.state = "up" /\ guest.first # NoReport
              /\ disk' = [disk EXCEPT !.report = guest.first]
           \/ i = 12 /\ guest.state = "up" /\ guest.second # NoReport
              /\ disk' = [disk EXCEPT !.after = guest.second],
           r = "pass" => /\ i = 7 => disk.report.reported < disk.report.current
                         /\ i = 13 => disk.after.reported = disk.after.current
                         /\ i = 16 => disk.after.committed = disk.after.current \/ allow
                         /\ i \in {9, 15} => reported' = committed
    PROVE  IInv'
<1>0. /\ N = 17 /\ i \in Nat /\ 17 \in Nat
      /\ i' \in 1..N + 1 /\ i' > i
      /\ results' \in [1..N -> {"none", "pass", "bad", "skip"}]
      /\ results'[i] = r
      /\ \A k \in 1..N : k < i => results'[k] = results[k]
      /\ \A k \in 1..N : k > i => results'[k] \in {"none", "skip"}
      /\ Progress' /\ UNCHANGED <<allow, run, pc, target>>
  BY FinishFacts, PlanSteps DEF IInv
<1>1. /\ disk \in [report : Reports \cup {NoReport}, after : Reports \cup {NoReport}]
      /\ guest.first \in Reports \cup {NoReport} /\ guest.second \in Reports \cup {NoReport}
  BY DEF IInv, TypeOK, OneBoot
<1>2. /\ disk' \in [report : Reports \cup {NoReport}, after : Reports \cup {NoReport}]
      /\ disk'.report = IF disk' # disk /\ i = 6 THEN guest.first ELSE disk.report
      /\ disk'.after = IF disk' # disk /\ i = 12 THEN guest.second ELSE disk.after
  BY <1>1
<1>3. TypeOK'
  BY <1>0, <1>2, TcbAssumption DEF IInv, TypeOK, Levels, OneBoot, Tcb
<1>4. Levels'
  BY <1>0 DEF IInv, Levels
<1>5. /\ \A rep \in {guest.first, guest.second} \ {NoReport} : rep.run = run /\ rep.boot = guest.boot
      /\ guest.state = "up" => guest.boot = 1
      /\ Current(disk.after) /\ Current(guest.second)
      /\ \A rep \in {disk.report, disk.after} \ {NoReport} : rep.run <= run
      /\ run \in Nat
  BY <1>0 DEF IInv, OneBoot, Evidence, TypeOK
<1>7. Current(disk.after)' /\ Current(guest.second)'
  <2>1. Current(disk'.after) /\ Current(guest'.second)
    BY <1>2, <1>5
  <2> QED
    BY <1>0, <2>1 DEF Current
<1>8. \A rep \in {disk'.report, disk'.after} \ {NoReport} : rep.run <= run
  BY <1>2, <1>5
<1>9. /\ results[6] = "pass" => disk.report # NoReport /\ disk.report.run = run /\ disk.report.boot = 1
      /\ results[7] = "pass" => disk.report.reported < disk.report.current
      /\ results[12] = "pass" => disk.after # NoReport /\ disk.after.run = run /\ disk.after.boot = 1
      /\ results[13] = "pass" => disk.after.reported = disk.after.current
      /\ results[16] = "pass" => disk.after.committed = disk.after.current \/ allow
      /\ results[9] = "pass" \/ results[15] = "pass" => reported = committed
  BY PlanSteps DEF IInv, Evidence, Result
<1>10. \A k \in 1..N : results'[k] = "pass" => k <= i /\ (k < i => results[k] = "pass")
  BY <1>0
<1>11. results'[6] = "pass" =>
          disk'.report # NoReport /\ disk'.report.run = run /\ disk'.report.boot = 1
  BY <1>0, <1>1, <1>2, <1>5, <1>9, <1>10
<1>12. results'[7] = "pass" => disk'.report.reported < disk'.report.current
  BY <1>0, <1>2, <1>9, <1>10
<1>13. results'[12] = "pass" =>
          disk'.after # NoReport /\ disk'.after.run = run /\ disk'.after.boot = 1
  BY <1>0, <1>1, <1>2, <1>5, <1>9, <1>10
<1>14. results'[13] = "pass" => disk'.after.reported = disk'.after.current
  BY <1>0, <1>2, <1>9, <1>10
<1>15. results'[16] = "pass" => disk'.after.committed = disk'.after.current \/ allow
  BY <1>0, <1>2, <1>9, <1>10
<1>16. results'[9] = "pass" \/ results'[15] = "pass" => reported' = committed
  BY <1>0, <1>9, <1>10
<1>17. Evidence'
  BY <1>0, <1>7, <1>8, <1>11, <1>12, <1>13, <1>14, <1>15, <1>16, PlanSteps
     DEF Evidence, Result
<1> QED
  BY <1>0, <1>3, <1>4, <1>17 DEF IInv

\* A step that leaves the guest alone keeps what is known of it.
LEMMA GuestKept ==
    ASSUME IInv, pc = "running", i \in 1..N, NEW r \in {"pass", "bad"}, Finish(r), guest' = guest
    PROVE  /\ OneBoot'
           /\ guest'.state = "none" => guest'.first = NoReport /\ guest'.second = NoReport
<1>1. /\ i' > i /\ UNCHANGED <<run, pc>> /\ i' \in 1..18 /\ i \in 1..17
  BY FinishFacts, PlanSteps DEF IInv
<1> QED
  BY <1>1, PlanSteps DEF IInv, OneBoot, TypeOK

\* The reading and checking steps: nothing but the result changes.
LEMMA CheckingSteps ==
    ASSUME IInv,
           \/ StepBreaks \/ ShowTcb \/ VerifyDiffer \/ VerifyReportLowered \/ VerifySignature
           \/ VerifyMatch \/ VerifyReportRestored \/ CommitGate
    PROVE  IInv'
<1>0. N = 17 /\ reported \in 0..committed /\ committed \in Nat
  BY PlanSteps DEF IInv, TypeOK, Tcb
<1>1. /\ pc = "running" /\ i \in 1..N
      /\ UNCHANGED <<current, committed, reported, guest, disk>>
  BY <1>0 DEF StepBreaks, ShowTcb, VerifyDiffer, VerifyReportLowered, VerifySignature,
     VerifyMatch, VerifyReportRestored, CommitGate, At, fwVars, IInv, TypeOK
<1>2. CASE StepBreaks
  BY <1>0, <1>1, <1>2, GuestKept, FinishStep DEF StepBreaks
<1>3. CASE ShowTcb
  <2>1. i = 1
    BY <1>0, <1>1, <1>3 DEF ShowTcb, At, Plan
  <2> QED
    BY <1>0, <1>1, <1>3, <2>1, GuestKept, FinishStep DEF ShowTcb
<1>4. CASE VerifyDiffer
  <2>1. i = 3
    BY <1>0, <1>1, <1>4 DEF VerifyDiffer, At, Plan
  <2> QED
    BY <1>0, <1>1, <1>4, <2>1, GuestKept, FinishStep DEF VerifyDiffer
<1>5. CASE VerifyReportLowered
  <2>1. i = 7
    BY <1>0, <1>1, <1>5 DEF VerifyReportLowered, At, Plan
  <2>2. disk.report.reported < disk.report.current
    BY <1>5 DEF VerifyReportLowered, GuestTcbMatches, IInv, TypeOK, Tcb
  <2> QED
    BY <1>0, <1>1, <1>5, <2>1, <2>2, GuestKept, FinishStep DEF VerifyReportLowered
<1>6. CASE VerifySignature
  <2>1. i = 8
    BY <1>0, <1>1, <1>6 DEF VerifySignature, At, Plan
  <2> QED
    BY <1>0, <1>1, <1>6, <2>1, GuestKept, FinishStep DEF VerifySignature
<1>7. CASE VerifyMatch
  <2>1. i = 10
    BY <1>0, <1>1, <1>7 DEF VerifyMatch, At, Plan
  <2> QED
    BY <1>0, <1>1, <1>7, <2>1, GuestKept, FinishStep DEF VerifyMatch
<1>8. CASE VerifyReportRestored
  <2>1. i = 13
    BY <1>0, <1>1, <1>8 DEF VerifyReportRestored, At, Plan
  <2>2. disk.after.reported = disk.after.current
    BY <1>8 DEF VerifyReportRestored, GuestTcbMatches
  <2> QED
    BY <1>0, <1>1, <1>8, <2>1, <2>2, GuestKept, FinishStep DEF VerifyReportRestored
<1>9. CASE CommitGate
  <2>1. i = 16
    BY <1>0, <1>1, <1>9 DEF CommitGate, At, Plan
  <2> QED
    BY <1>0, <1>1, <1>9, <2>1, GuestKept, FinishStep DEF CommitGate
<1> QED
  BY <1>2, <1>3, <1>4, <1>5, <1>6, <1>7, <1>8, <1>9

\* The steps that move the reported TCB.
LEMMA FirmwareSteps ==
    ASSUME IInv, ConfigSetLower \/ ResetTcb
    PROVE  IInv'
<1>0. /\ N = 17 /\ reported \in 0..committed /\ committed \in Nat /\ target \in Nat
  BY PlanSteps DEF IInv, TypeOK, Levels, Tcb
<1>1. CASE ConfigSetLower
  <2>1. i \in 1..N /\ i = 2 /\ pc = "running"
    BY <1>0, <1>1 DEF ConfigSetLower, At, Plan, IInv, TypeOK
  <2>2. PICK r \in {"pass", "bad"} : Finish(r)
    BY <1>1 DEF ConfigSetLower
  <2>3. reported' \in 0..committed /\ UNCHANGED <<current, committed, guest, disk>>
    BY <1>0, <1>1 DEF ConfigSetLower, ConfigSet
  <2> QED
    BY <2>1, <2>2, <2>3, GuestKept, FinishStep
<1>2. CASE ResetTcb
  <2>1. i \in 1..N /\ i \in {9, 15} /\ pc = "running"
    BY <1>0, <1>2 DEF ResetTcb, At, Plan, IInv, TypeOK
  <2>2. PICK r \in {"pass", "bad"} : Finish(r)
    BY <1>2 DEF ResetTcb
  <2>3. reported' = committed /\ UNCHANGED <<current, committed, guest, disk>>
    BY <1>2 DEF ResetTcb, ConfigReset
  <2>4. reported' \in 0..committed
    BY <1>0, <2>3
  <2> QED
    BY <2>1, <2>2, <2>3, <2>4, GuestKept, FinishStep
<1> QED
  BY <1>1, <1>2

\* The record of a guest that has just booted.
LEMMA BootFacts ==
    ASSUME IInv, pc = "running", guest.state = "none", i < 14, NEW state \in {"up", "broken"}
    PROVE  /\ Boot(state) = [state |-> state, boot |-> 1, first |-> NoReport, second |-> NoReport]
           /\ Boot(state) \in [state : {"none", "up", "broken"}, boot : 0..1,
                               first : Reports \cup {NoReport}, second : Reports \cup {NoReport}]
<1>1. guest.boot = 0
  BY PlanSteps DEF IInv, OneBoot, TypeOK
<1>2. Boot(state) = [state |-> state, boot |-> guest.boot + 1,
                     first |-> NoReport, second |-> NoReport]
  BY DEF Boot
<1>3. Boot(state) = [state |-> state, boot |-> 1, first |-> NoReport, second |-> NoReport]
  BY <1>1, <1>2
<1> QED
  BY <1>3

\* The guest boots, implicitly or by its step, or is refused.
LEMMA BootSteps ==
    ASSUME IInv, LaunchGuest \/ ImplicitLaunch
    PROVE  IInv'
<1>0. /\ N = 17 /\ reported \in 0..committed /\ committed \in Nat /\ i \in Nat
      /\ UNCHANGED <<current, committed, reported, disk>>
  BY PlanSteps DEF IInv, TypeOK, Tcb, LaunchGuest, ImplicitLaunch, fwVars
<1>1. pc = "running" /\ i \in 1..N /\ i \in {4, 5, 6, 11, 12}
  <2>1. CASE LaunchGuest
    BY <1>0, <2>1 DEF LaunchGuest, At, Plan, IInv, TypeOK
  <2>2. CASE ImplicitLaunch
    <3>1. \A k \in 1..17 : Plan[k] \in {"guest-report-after-lower", "pull-report-after-lower",
                    "guest-report-after-reset", "pull-report-after-reset"} => k \in {5, 6, 11, 12}
      BY DEF Plan
    <3>2. i \in 1..17
      BY <1>0, <2>2 DEF ImplicitLaunch, IInv, TypeOK
    <3> QED
      BY <1>0, <2>2, <3>1, <3>2 DEF ImplicitLaunch
  <2> QED
    BY <2>1, <2>2
<1>2. ASSUME NEW r \in {"pass", "bad"}, Finish(r), guest' = guest, r = "bad"
      PROVE  IInv'
  BY <1>0, <1>1, <1>2, GuestKept, FinishStep
<1>3. ASSUME NEW state \in {"up", "broken"}, guest' = Boot(state), guest.state = "none"
      PROVE  /\ guest' = [state |-> state, boot |-> 1, first |-> NoReport, second |-> NoReport]
             /\ guest' \in [state : {"none", "up", "broken"}, boot : 0..1,
                            first : Reports \cup {NoReport}, second : Reports \cup {NoReport}]
  BY <1>0, <1>1, <1>3, BootFacts
<1>4. ASSUME NEW state \in {"up", "broken"}, guest' = Boot(state), guest.state = "none",
             pc' = "running", run' = run, i' > 4, i' \in Nat
      PROVE  OneBoot' /\ Current(guest'.second) /\ guest'.state # "none"
  <2>1. guest'.first = NoReport /\ guest'.second = NoReport /\ guest'.boot = 1
        /\ guest'.state \in {"up", "broken"} /\ run > 0
    BY <1>1, <1>3, <1>4 DEF IInv, OneBoot
  <2>2. OneBoot'
    BY <1>3, <1>4, <2>1, PlanSteps DEF OneBoot, Reports
  <2> QED
    BY <2>1, <2>2 DEF Current
<1>5. ASSUME NEW r \in {"pass", "bad"}, Finish(r), NEW state \in {"up", "broken"},
             guest' = Boot(state), guest.state = "none", r = "pass" => i = 4
      PROVE  IInv'
  <2>1. pc' = "running" /\ run' = run /\ i' > 4 /\ i' \in Nat
    BY <1>0, <1>1, <1>5, FinishFacts DEF IInv
  <2>2. OneBoot' /\ Current(guest'.second) /\ guest'.state # "none"
    BY <1>4, <1>5, <2>1
  <2> QED
    BY <1>0, <1>1, <1>5, <2>2, FinishStep
<1>6. CASE LaunchGuest
  <2>1. i = 4 /\ guest.state = "none"
    <3>1. i = 4
      BY <1>0, <1>1, <1>6 DEF LaunchGuest, At, Plan
    <3> QED
      BY <3>1, PlanSteps DEF IInv, OneBoot, NoGuest
  <2> QED
    BY <1>2, <1>5, <1>6, <2>1 DEF LaunchGuest
<1>7. CASE ImplicitLaunch
  <2>1. CASE guest' = Boot("broken") /\ Finish("bad")
    BY <1>5, <1>7, <2>1 DEF ImplicitLaunch
  <2>2. CASE guest' = Boot("up") /\ UNCHANGED <<allow, run, pc, i, results, target>>
    <3>0. i > 4
      <4>1. \A k \in 1..17 : Plan[k] = "launch" <=> k = 4
        BY DEF Plan
      <4> QED
        BY <1>0, <1>1, <1>7, <4>1 DEF ImplicitLaunch
    <3>1. OneBoot' /\ guest'.second = NoReport /\ guest'.state = "up"
      <4>1. OneBoot'
        BY <1>0, <1>1, <1>4, <1>7, <2>2, <3>0 DEF ImplicitLaunch
      <4>2. guest'.second = NoReport /\ guest'.state = "up"
        BY <1>3, <1>7, <2>2 DEF ImplicitLaunch
      <4> QED
        BY <4>1, <4>2
    <3>2. TypeOK'
      BY <1>0, <2>2, <3>1 DEF IInv, TypeOK
    <3>3. Levels' /\ Progress'
      BY <1>0, <2>2 DEF IInv, Levels, Progress
    <3>4. Evidence'
      BY <1>0, <2>2, <3>1 DEF IInv, Evidence, Current, Result
    <3> QED
      BY <3>1, <3>2, <3>3, <3>4 DEF IInv
  <2> QED
    BY <1>7, <2>1, <2>2 DEF ImplicitLaunch
<1> QED
  BY <1>6, <1>7

\* The reports: the firmware issues one, the harness pulls one; the guest is stopped.
LEMMA ReportSteps ==
    ASSUME IInv, GuestReport \/ PullReport \/ StopGuest
    PROVE  IInv'
<1>0. /\ N = 17 /\ reported \in 0..committed /\ committed \in Nat /\ i \in Nat
      /\ UNCHANGED <<current, committed, reported>>
  BY PlanSteps DEF IInv, TypeOK, Tcb, GuestReport, PullReport, StopGuest, fwVars
<1>1. guest \in [state : {"none", "up", "broken"}, boot : 0..1,
                 first : Reports \cup {NoReport}, second : Reports \cup {NoReport}]
      /\ disk \in [report : Reports \cup {NoReport}, after : Reports \cup {NoReport}]
  BY DEF IInv, OneBoot, TypeOK
<1>2. CASE GuestReport
  <2>1. PICK r \in {"pass", "bad"} : Finish(r)
    BY <1>2 DEF GuestReport
  <2>2. pc = "running" /\ i \in 1..N /\ i \in {5, 11} /\ guest.state = "up" /\ disk' = disk
    BY <1>0, <1>2 DEF GuestReport, At, Plan, IInv, TypeOK
  <2>3. /\ guest.boot = 1 /\ run \in 1..MaxRuns /\ pc' = "running" /\ run' = run
    <3>1. guest.boot = 1 /\ pc' = "running" /\ run' = run
      BY <2>1, <2>2 DEF IInv, OneBoot, Finish
    <3> QED
      BY <2>2, <3>1 DEF IInv, TypeOK, OneBoot
  <2>4. Report \in Reports /\ Report.run = run /\ Report.boot = guest.boot /\ Current(Report)
    BY <1>0, <2>3 DEF Report, Reports, Current, IInv, TypeOK
  <2>5. guest' \in [state : {"none", "up", "broken"}, boot : 0..1,
                    first : Reports \cup {NoReport}, second : Reports \cup {NoReport}]
        /\ guest'.state = "up" /\ guest'.boot = guest.boot
        /\ guest'.first \in {guest.first, Report} /\ guest'.second \in {guest.second, Report}
    BY <1>1, <1>2, <2>2, <2>4 DEF GuestReport
  <2>6. OneBoot'
    <3>1. i' > i /\ i' \in Nat /\ run > 0 /\ run' > 0
      BY <1>0, <2>1, <2>2, <2>3, FinishFacts DEF IInv
    <3>2. \A rep \in {guest'.first, guest'.second} \ {NoReport} :
             rep.run = run /\ rep.boot = guest.boot
      BY <2>4, <2>5 DEF IInv, OneBoot
    <3> QED
      BY <1>0, <2>2, <2>3, <2>5, <3>1, <3>2, PlanSteps DEF OneBoot
  <2> QED
    BY <1>0, <2>1, <2>2, <2>4, <2>5, <2>6, FinishStep
<1>3. CASE PullReport
  <2>1. pc = "running" /\ i \in 1..N /\ Finish("pass") /\ guest' = guest /\ guest.state = "up"
        /\ \/ i = 6 /\ guest.first # NoReport /\ disk' = [disk EXCEPT !.report = guest.first]
           \/ i = 12 /\ guest.second # NoReport /\ disk' = [disk EXCEPT !.after = guest.second]
    BY <1>0, <1>3 DEF PullReport, At, Plan, IInv, TypeOK
  <2> QED
    BY <1>0, <2>1, GuestKept, FinishStep
<1>4. CASE StopGuest
  <2>1. pc = "running" /\ i \in 1..N /\ i = 14 /\ disk' = disk
    BY <1>0, <1>4 DEF StopGuest, At, Plan, IInv, TypeOK
  <2>2. CASE guest' = guest /\ Finish("bad")
    BY <1>0, <2>1, <2>2, GuestKept, FinishStep
  <2>3. CASE guest' = [NoGuest EXCEPT !.boot = guest.boot] /\ Finish("pass")
    <3>1. guest' = [state |-> "none", boot |-> guest.boot, first |-> NoReport, second |-> NoReport]
      BY <2>3 DEF NoGuest
    <3>2. pc' = "running" /\ i' > 14
      BY <1>0, <2>1, <2>3, FinishFacts DEF IInv
    <3>3. guest' \in [state : {"none", "up", "broken"}, boot : 0..1,
                      first : Reports \cup {NoReport}, second : Reports \cup {NoReport}]
      BY <1>1, <3>1
    <3>4. OneBoot'
      <4>1. guest'.state = "none" /\ guest'.first = NoReport /\ guest'.second = NoReport
        BY <3>1
      <4>2. run' > 0 /\ i' \in Nat
        BY <1>0, <2>1, <2>3, FinishFacts DEF IInv, OneBoot
      <4> QED
        BY <3>2, <3>3, <4>1, <4>2, PlanSteps DEF OneBoot, Reports
    <3>5. guest'.second = NoReport /\ Current(guest'.second)
      BY <3>1 DEF Current
    <3> QED
      BY <1>0, <2>1, <2>3, <3>1, <3>4, <3>5, FinishStep
  <2> QED
    BY <1>4, <2>2, <2>3 DEF StopGuest
<1> QED
  BY <1>2, <1>3, <1>4

\* At the commit step the harness has got past both setup steps.
LEMMA SetupPassed ==
    ASSUME IInv, At("commit-current-tcb")
    PROVE  i = 17 /\ results[1] = "pass" /\ results[16] = "pass"
<1>1. N = 17 /\ i \in 1..17 /\ i = 17
  <2>1. \A k \in 1..17 : Plan[k] = "commit-current-tcb" <=> k = 17
    BY DEF Plan
  <2> QED
    BY <2>1, PlanSteps DEF At, IInv, TypeOK
<1>2. \A k \in {1, 16} : results[k] \notin {"none", "skip", "bad"}
  BY <1>1, SetupSteps DEF IInv, Progress
<1>3. \A k \in {1, 16} : results[k] \in {"none", "pass", "bad", "skip"}
  BY <1>1 DEF IInv, TypeOK
<1> QED
  BY <1>1, <1>2, <1>3

\* The commit, the last step: the floor rises to the current level, and an override that a
\* reset cleared stays cleared.
LEMMA CommitStep ==
    ASSUME IInv, CommitTcb
    PROVE  IInv'
<1>1. /\ i = 17 /\ i \in 1..N /\ pc = "running" /\ N = 17
      /\ UNCHANGED <<current, guest, disk>> /\ committed' = current
      /\ reported' = IF committed < current THEN current ELSE reported
  BY SetupPassed, PlanSteps DEF CommitTcb, Commit, At
<1>2. PICK r \in {"pass", "bad"} : Finish(r)
  BY DEF CommitTcb
<1>3. /\ i' = 18 /\ Progress' /\ UNCHANGED <<allow, run, pc, target>>
      /\ results' \in [1..N -> {"none", "pass", "bad", "skip"}]
      /\ \A k \in 1..N : k < 17 => results'[k] = results[k]
  BY <1>1, <1>2, FinishFacts DEF IInv
<1>4. OneBoot'
  BY <1>1, <1>2, GuestKept
<1>5. reported \in Nat /\ committed \in Nat /\ current \in Nat
      /\ reported <= committed /\ committed <= current
  BY DEF IInv, TypeOK, Tcb
<1>6. TypeOK'
  BY <1>1, <1>3, <1>5 DEF IInv, TypeOK, Tcb
<1>7. Levels'
  BY <1>1, <1>3, <1>5, TcbAssumption DEF IInv, Levels, Tcb
<1>8. reported = committed => reported' = committed'
  BY <1>1, <1>5
<1>9. Evidence'
  BY <1>1, <1>3, <1>8, PlanSteps DEF IInv, Evidence, Result
<1> QED
  BY <1>3, <1>4, <1>6, <1>7, <1>9 DEF IInv

\* Between the runs: the firmware is loaded, rolled back or rebooted, and a run starts.
LEMMA HostSteps ==
    ASSUME IInv, LoadProvisional \/ RollBack \/ Reboot \/ StartRun
    PROVE  IInv'
<1>0. /\ N = 17 /\ pc # "running" /\ UNCHANGED disk /\ run \in Nat
      /\ guest = NoGuest
  BY PlanSteps DEF LoadProvisional, RollBack, Reboot, StartRun, IInv, TypeOK, OneBoot
<1>1. CASE LoadProvisional \/ RollBack
  <2>1. /\ UNCHANGED <<committed, reported, allow, run, pc, i, results, target, guest, disk>>
        /\ current' \in Tcb /\ committed <= current'
    BY <1>1, TcbAssumption DEF LoadProvisional, RollBack, IInv, TypeOK, Tcb
  <2>2. TypeOK'
    BY <2>1 DEF IInv, TypeOK
  <2>3. Levels' /\ Progress' /\ OneBoot'
    BY <2>1 DEF IInv, Levels, Progress, OneBoot
  <2>4. Evidence'
    BY <1>0, <2>1 DEF IInv, Evidence, Result
  <2> QED
    BY <2>2, <2>3, <2>4 DEF IInv
<1>2. CASE Reboot
  <2>1. /\ current' = Flash /\ committed' = Flash /\ reported' = Flash /\ run' = run
        /\ pc' = "idle" /\ i' = 1 /\ results' = [k \in 1..N |-> "none"]
        /\ target' = 0 /\ guest' = NoGuest
    BY <1>2 DEF Reboot, ProcessGone
  <2>2. TypeOK'
    BY <1>0, <2>1, TcbAssumption DEF IInv, TypeOK, Tcb, NoGuest
  <2>3. Levels' /\ Progress'
    BY <1>0, <2>1, TcbAssumption DEF Levels, Progress, Tcb
  <2>4. OneBoot'
    BY <2>1 DEF OneBoot, NoGuest
  <2>5. Evidence'
    BY <1>0, <2>1, PlanSteps DEF IInv, Evidence, Result
  <2> QED
    BY <2>2, <2>3, <2>4, <2>5 DEF IInv
<1>3. CASE StartRun
  <2>1. /\ UNCHANGED fwVars /\ run' = run + 1 /\ run' \in 0..MaxRuns /\ pc' = "running"
        /\ i' = 1 /\ results' = [k \in 1..N |-> "none"]
        /\ target' = current - 1 /\ guest' = NoGuest
    BY <1>0, <1>3, TcbAssumption DEF StartRun
  <2>2. TypeOK'
    BY <1>0, <2>1 DEF IInv, TypeOK, NoGuest, fwVars
  <2>3. Levels' /\ Progress'
    BY <1>0, <2>1, TcbAssumption DEF IInv, TypeOK, Levels, Progress, Tcb, fwVars
  <2>4. OneBoot'
    BY <1>0, <2>1 DEF OneBoot, NoGuest
  <2>5. \A rep \in {disk.report, disk.after} \ {NoReport} : rep.run \in Nat /\ rep.run <= run
    BY DEF IInv, TypeOK, Reports, Evidence
  <2>6. Evidence'
    BY <1>0, <2>1, <2>5, PlanSteps DEF Evidence, Current, Result, NoGuest
  <2> QED
    BY <2>2, <2>3, <2>4, <2>6 DEF IInv
<1> QED
  BY <1>1, <1>2, <1>3

\* The run ends or dies, or its guest does.
LEMMA EndSteps ==
    ASSUME IInv, Return \/ Crash \/ GuestDies
    PROVE  IInv'
<1>0. N = 17 /\ UNCHANGED <<fwVars, run, disk>>
  BY PlanSteps DEF Return, Crash, GuestDies
<1>1. CASE Return
  <2>1. /\ pc' = "returned" /\ guest' = NoGuest
        /\ UNCHANGED <<allow, i, results, target>>
    BY <1>1 DEF Return
  <2>2. TypeOK' /\ OneBoot'
    BY <1>0, <2>1 DEF IInv, TypeOK, OneBoot, NoGuest, fwVars
  <2>3. Levels' /\ Progress' /\ Evidence'
    BY <1>0, <2>1 DEF IInv, Levels, Progress, Evidence, Result, fwVars
  <2> QED
    BY <2>2, <2>3 DEF IInv
<1>2. CASE Crash
  <2>1. /\ pc' = "idle" /\ i' = 1 /\ results' = [k \in 1..N |-> "none"]
        /\ target' = 0 /\ guest' = NoGuest
    BY <1>2 DEF Crash, ProcessGone
  <2>2. TypeOK' /\ OneBoot'
    BY <1>0, <2>1 DEF IInv, TypeOK, OneBoot, NoGuest, fwVars
  <2>3. Levels' /\ Progress'
    BY <1>0, <2>1, TcbAssumption DEF IInv, Levels, Progress, Tcb, fwVars
  <2>4. Evidence'
    BY <1>0, <2>1, PlanSteps DEF IInv, Evidence, Result
  <2> QED
    BY <2>2, <2>3, <2>4 DEF IInv
<1>3. CASE GuestDies
  <2>1. /\ UNCHANGED <<allow, pc, i, results, target>>
        /\ guest.state = "up" /\ guest' = [guest EXCEPT !.state = "broken"]
    BY <1>3 DEF GuestDies
  <2>2. /\ guest' \in [state : {"none", "up", "broken"}, boot : 0..1,
                       first : Reports \cup {NoReport}, second : Reports \cup {NoReport}]
        /\ guest'.state = "broken" /\ guest'.boot = guest.boot
        /\ guest'.first = guest.first /\ guest'.second = guest.second
    BY <2>1 DEF IInv, OneBoot
  <2>3. TypeOK'
    BY <1>0, <2>1, <2>2 DEF IInv, TypeOK, fwVars
  <2>4. OneBoot'
    BY <1>0, <2>1, <2>2 DEF IInv, OneBoot, NoGuest
  <2>5. Levels' /\ Progress'
    BY <1>0, <2>1 DEF IInv, Levels, Progress, fwVars
  <2>6. Evidence'
    BY <1>0, <2>1, <2>2 DEF IInv, Evidence, Current, Result, fwVars
  <2> QED
    BY <2>3, <2>4, <2>5, <2>6 DEF IInv
<1> QED
  BY <1>1, <1>2, <1>3

-----------------------------------------------------------------------------
\* The firmware as it is loaded, no run and no report satisfy the invariant.
LEMMA InitInvariant == Init => IInv
<1> SUFFICES ASSUME Init PROVE IInv
  OBVIOUS
<1>1. TypeOK
  BY PlanSteps, TcbAssumption DEF Init, TypeOK, Tcb, NoGuest
<1>2. Levels /\ Progress
  BY PlanSteps, TcbAssumption DEF Init, Levels, Progress, Tcb
<1>3. OneBoot
  BY DEF Init, OneBoot, NoGuest
<1>4. Evidence
  BY PlanSteps DEF Init, Evidence, Result
<1> QED
  BY <1>1, <1>2, <1>3, <1>4 DEF IInv

\* Every step keeps the invariant.
LEMMA NextInvariant == IInv /\ [Next]_vars => IInv'
<1> SUFFICES ASSUME IInv, [Next]_vars PROVE IInv'
  OBVIOUS
<1>1. CASE Next
  BY <1>1, CheckingSteps, FirmwareSteps, BootSteps, ReportSteps, CommitStep, HostSteps, EndSteps
     DEF Next, Steps
<1>2. CASE UNCHANGED vars
  BY <1>2 DEF vars, IInv, TypeOK, Levels, Progress, OneBoot, Evidence, Current, Result
<1> QED
  BY <1>1, <1>2

\* The inductive invariant holds in every state of every behaviour.
THEOREM Invariant == Spec => []IInv
<1>1. Init => IInv
  BY InitInvariant
<1>2. IInv /\ [Next]_vars => IInv'
  BY NextInvariant
<1> QED
  BY <1>1, <1>2, PTL DEF Spec

\* Types, the ABI's order of the three TCB values, and a guest that was given up leaving no
\* report behind.
THEOREM TypeCorrect == Spec => []TypeOK
<1>1. IInv => TypeOK
  BY DEF IInv
<1> QED
  BY <1>1, Invariant, PTL

\* A test that passes was judged on reports of its own run and of one boot of its guest, the
\* first issued under the lowered TCB and the second under the restored one.
THEOREM PassOnFreshReports == Spec => []PassRestsOnFreshReports
<1>1. IInv => PassRestsOnFreshReports
  <2> SUFFICES ASSUME IInv, Passed PROVE PassRestsOnFreshReports
    BY DEF PassRestsOnFreshReports
  <2>1. \A k \in {6, 7, 12, 13} : results[k] = "pass"
    <3>1. \A k \in {6, 7, 12, 13} : StepType(k) # "info"
      BY DEF StepType, Plan
    <3> QED
      BY <3>1, PlanSteps DEF Passed
  <2>2. /\ Result("pull-report-after-lower") = "pass"
        /\ Result("verify-guest-report-lowered") = "pass"
        /\ Result("pull-report-after-reset") = "pass"
        /\ Result("verify-guest-report-restored") = "pass"
    BY <2>1, PlanSteps DEF Result
  <2> QED
    BY <2>2 DEF PassRestsOnFreshReports, IInv, Evidence
<1> QED
  BY <1>1, Invariant, PTL

\* A finished run leaves an override behind only when neither of its resets worked.
THEOREM OverrideIsCleared == Spec => []OverrideCleared
<1>1. IInv => OverrideCleared
  BY DEF IInv, Evidence, OverrideCleared
<1> QED
  BY <1>1, Invariant, PTL

\* The floor is raised by the commit step and by nothing else.
LEMMA OnlyTheCommitRaises ==
    ASSUME IInv, [Next]_vars, committed' > committed
    PROVE  CommitTcb /\ committed' = current
<1>1. committed \in Nat /\ Flash \in Nat /\ Flash <= committed
  BY TcbAssumption DEF IInv, TypeOK, Levels, Tcb
<1>2. committed' # committed /\ committed' # Flash
  BY <1>1
<1> QED
  BY <1>2 DEF Next, Steps, vars, fwVars, LoadProvisional, RollBack, Reboot, StartRun, Return,
     Crash, GuestDies, StepBreaks, ShowTcb, ConfigSetLower, ConfigSet, VerifyDiffer,
     LaunchGuest, ImplicitLaunch, GuestReport, PullReport, VerifyReportLowered,
     VerifySignature, ResetTcb, ConfigReset, VerifyMatch, VerifyReportRestored, StopGuest,
     CommitGate, CommitTcb, Commit

\* The floor rises only when both setup steps of this run passed.
THEOREM CommitsBehindTheGate == Spec => CommitBehindGate
<1>1. IInv /\ [Next]_vars =>
        (committed' > committed => /\ Result("show-tcb") = "pass"
                                   /\ Result("verify-committed-equals-current") = "pass")
  BY OnlyTheCommitRaises, SetupPassed, PlanSteps DEF Result, CommitTcb
<1> QED
  BY <1>1, Invariant, PTL DEF Spec, CommitBehindGate

\* With a report this run pulled on the host, the floor rises only with the operator's
\* consent: the report still says what the firmware holds when the gate reads it.
THEOREM FreshEvidenceKeepsTheFloor == Spec => FreshEvidenceKeepsFloor
<1>1. IInv /\ [Next]_vars =>
        (committed' > committed /\ disk.after # NoReport /\ disk.after.run = run => allow)
  <2> SUFFICES ASSUME IInv, [Next]_vars, committed' > committed,
                      disk.after # NoReport, disk.after.run = run
               PROVE  allow
    OBVIOUS
  <2>1. CommitTcb /\ committed' = current
    BY OnlyTheCommitRaises
  <2>2. pc = "running" /\ i <= N /\ Result("verify-committed-equals-current") = "pass"
    BY <2>1, SetupPassed, PlanSteps DEF Result, CommitTcb, At
  <2>3. disk.after.committed = committed /\ disk.after.current = current
    BY <2>2 DEF IInv, Evidence, Current
  <2>4. committed # current
    BY <2>1 DEF IInv, TypeOK, Tcb
  <2> QED
    BY <2>2, <2>3, <2>4 DEF IInv, Evidence
<1> QED
  BY <1>1, Invariant, PTL DEF Spec, FreshEvidenceKeepsFloor
=============================================================================
