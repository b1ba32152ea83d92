---------------------------- MODULE IdBlockProofs ----------------------------
(***************************************************************************)
(* Proofs about IdBlock for every platform, processor, firmware and any    *)
(* number of runs and faults.                                              *)
(***************************************************************************)
EXTENDS IdBlock, TLAPS

\* The plan step by step, with and without the SMT case.
LEMMA PlanSteps ==
    ASSUME NEW b \in BOOLEAN, NEW p, p = PlanFor(b)
    PROVE  /\ p[1] = S("measure", "valid") /\ p[2] = S("generate", "valid")
           /\ p[3] = S("launch", "valid") /\ p[4] = S("report", "valid")
           /\ p[5] = S("pull", "valid") /\ p[6] = S("stop", "valid")
           /\ p[7] = S("verify", "valid") /\ p[8] = S("set", "digest")
           /\ p[9] = S("launch", "digest") /\ p[10] = S("stop", "digest")
           /\ Len(p) = IF b THEN 16 ELSE 14
           /\ Len(p) = 16 =>
                   /\ p[11] = S("set", "smt") /\ p[12] = S("launch", "smt")
                   /\ p[13] = S("stop", "smt") /\ p[14] = S("set", "abi")
                   /\ p[15] = S("launch", "abi") /\ p[16] = S("stop", "abi")
           /\ Len(p) = 14 =>
                    /\ p[11] = S("note", "smt") /\ p[12] = S("set", "abi")
                    /\ p[13] = S("launch", "abi") /\ p[14] = S("stop", "abi")
BY DEF PlanFor, CaseSteps

\* The plan of a run that was started.
LEMMA Shape ==
    ASSUME TypeOK, plan # <<>>
    PROVE  /\ N \in {14, 16}
           /\ plan[1] = S("measure", "valid") /\ plan[2] = S("generate", "valid")
           /\ plan[3] = S("launch", "valid") /\ plan[4] = S("report", "valid")
           /\ plan[5] = S("pull", "valid") /\ plan[6] = S("stop", "valid")
           /\ plan[7] = S("verify", "valid") /\ plan[8] = S("set", "digest")
           /\ plan[9] = S("launch", "digest") /\ plan[10] = S("stop", "digest")
           /\ N = 16 => /\ plan[11] = S("set", "smt") /\ plan[12] = S("launch", "smt")
                        /\ plan[13] = S("stop", "smt") /\ plan[14] = S("set", "abi")
                        /\ plan[15] = S("launch", "abi") /\ plan[16] = S("stop", "abi")
           /\ N = 14 => /\ plan[11] = S("note", "smt") /\ plan[12] = S("set", "abi")
                        /\ plan[13] = S("launch", "abi") /\ plan[14] = S("stop", "abi")
<1>1. plan = PlanFor(TRUE) \/ plan = PlanFor(FALSE)
  BY DEF TypeOK
<1> QED
  BY <1>1, PlanSteps DEF N

\* Where the profile is given a defect.
LEMMA SetsAt ==
    ASSUME TypeOK, plan # <<>>, NEW k \in 1..N, plan[k].op = "set"
    PROVE  /\ N = 14 => k \in {8, 12}
           /\ N = 16 => k \in {8, 11, 14}
<1>1. N \in Nat /\ k \in {1, 2, 3, 4, 5, 6, 7, 8, 9, 10, 11, 12, 13, 14, 15, 16}
  BY Shape
<1>2. N = 14 => k \in {8, 12}
  BY <1>1, Shape DEF S
<1>3. N = 16 => k \in {8, 11, 14}
  BY <1>1, Shape DEF S
<1> QED
  BY <1>2, <1>3

\* What kind of step stands where, and what follows on it.
LEMMA Order ==
    ASSUME TypeOK, plan # <<>>, NEW k \in 1..N
    PROVE  /\ plan[k].case \in Cases \cup {"valid"}
           /\ StepType(plan[k]) = "setup" <=> k <= 3
           /\ StepType(plan[k]) = "info" <=> plan[k].op \in {"stop", "note"}
           /\ plan[k].op = "measure" <=> k = 1
           /\ plan[k].op = "generate" <=> k = 2
           /\ plan[k] = S("launch", "valid") <=> k = 3
           /\ plan[k].op = "report" <=> k = 4
           /\ plan[k].op = "pull" <=> k = 5
           /\ plan[k] = S("stop", "valid") <=> k = 6
           /\ plan[k].op = "verify" <=> k = 7
           /\ plan[k].op = "set" => k + 1 <= N /\ plan[k + 1] = S("launch", plan[k].case) /\ plan[k].case \in Cases
           /\ plan[k].op = "launch" /\ k # 3 => k + 1 <= N /\ plan[k + 1] = S("stop", plan[k].case) /\ plan[k].case \in Cases
           /\ plan[k].op = "note" => k + 1 <= N /\ plan[k + 1].op = "set"
           /\ plan[k].op = "stop" /\ k # 6 => k = N \/ plan[k + 1].op \in {"set", "note"}
           /\ plan[k].op = "launch" => plan[k] = S("launch", plan[k].case)
           /\ plan[k].op = "set" => plan[k] = S("set", plan[k].case)
<1>1. N \in Nat /\ k \in {1, 2, 3, 4, 5, 6, 7, 8, 9, 10, 11, 12, 13, 14, 15, 16}
  BY Shape
<1>2. plan[k].case \in Cases \cup {"valid"}
  BY <1>1, Shape DEF S, StepType, Cases
<1>3. StepType(plan[k]) = "setup" <=> k <= 3
  BY <1>1, Shape DEF S, StepType, Cases
<1>4. StepType(plan[k]) = "info" <=> plan[k].op \in {"stop", "note"}
  BY <1>1, Shape DEF S, StepType, Cases
<1>5. plan[k].op = "measure" <=> k = 1
  BY <1>1, Shape DEF S, StepType, Cases
<1>6. plan[k].op = "generate" <=> k = 2
  BY <1>1, Shape DEF S, StepType, Cases
<1>7. plan[k] = S("launch", "valid") <=> k = 3
  BY <1>1, Shape DEF S, StepType, Cases
<1>8. plan[k].op = "report" <=> k = 4
  BY <1>1, Shape DEF S, StepType, Cases
<1>9. plan[k].op = "pull" <=> k = 5
  BY <1>1, Shape DEF S, StepType, Cases
<1>10. plan[k] = S("stop", "valid") <=> k = 6
  BY <1>1, Shape DEF S, StepType, Cases
<1>11. plan[k].op = "verify" <=> k = 7
  BY <1>1, Shape DEF S, StepType, Cases
<1>12. plan[k].op = "set" => k + 1 <= N /\ plan[k + 1] = S("launch", plan[k].case) /\ plan[k].case \in Cases
  BY <1>1, Shape DEF S, StepType, Cases
<1>13. plan[k].op = "launch" /\ k # 3 => k + 1 <= N /\ plan[k + 1] = S("stop", plan[k].case) /\ plan[k].case \in Cases
  BY <1>1, Shape DEF S, StepType, Cases
<1>14. plan[k].op = "note" => k + 1 <= N /\ plan[k + 1].op = "set"
  <2>1. N = 14 /\ plan[k].op = "note" => k = 11
    BY <1>1, Shape DEF S
  <2>2. N = 16 => plan[k].op # "note"
    BY <1>1, Shape DEF S
  <2> QED
    BY <2>1, <2>2, Shape DEF S
<1>15. plan[k].op = "stop" /\ k # 6 => k = N \/ plan[k + 1].op \in {"set", "note"}
  BY <1>1, Shape DEF S, StepType, Cases
<1>16. plan[k].op = "launch" => plan[k] = S("launch", plan[k].case)
  BY <1>1, Shape DEF S, StepType, Cases
<1>17. plan[k].op = "set" => plan[k] = S("set", plan[k].case)
  BY SetsAt, Shape DEF S
<1> QED
  BY <1>2, <1>3, <1>4, <1>5, <1>6, <1>7, <1>8, <1>9, <1>10, <1>11, <1>12, <1>13, <1>14, <1>15, <1>16, <1>17

\* A run that is on its way has a plan and a place in it.
LEMMA RunFacts ==
    ASSUME IInv, pc = "running"
    PROVE  plan # <<>> /\ N \in {14, 16} /\ i \in 1..N + 1 /\ run \in 1..MaxRuns
<1>1. plan # <<>> /\ run > 0 /\ TypeOK
  BY DEF IInv, Progress
<1>2. N \in {14, 16}
  BY <1>1, Shape
<1>3. i \in 1..N + 1 /\ run \in 0..MaxRuns
  BY <1>1 DEF TypeOK
<1>4. run \in 1..MaxRuns
  BY <1>1, <1>3, RunsAssumption
<1> QED
  BY <1>1, <1>2, <1>3, <1>4

\* Ending a step keeps the results what they are.
LEMMA FinishFacts ==
    ASSUME IInv, pc = "running", i \in 1..N, NEW r \in {"pass", "bad"}, Finish(r)
    PROVE  /\ UNCHANGED <<platform, host, metadata, smt, run, pc, plan>> /\ N' = N
           /\ i' \in 1..N + 1 /\ i' > i /\ (r = "pass" \/ i > 3 => i' = i + 1)
           /\ results' \in [1..N -> {"none", "pass", "bad", "skip"}]
           /\ results'[i] = r
           /\ \A k \in 1..N : k < i => results'[k] = results[k]
           /\ \A k \in 1..N : k > i => results'[k] \in {"none", "skip"}
           /\ Progress'
<1> DEFINE stop == r = "bad" /\ StepType(plan[i]) = "setup"
<1>0. plan # <<>> /\ N \in {14, 16} /\ i \in Nat
  BY RunFacts
<1>1. /\ i' = IF stop THEN N + 1 ELSE i + 1
      /\ results' = [k \in 1..N |-> IF k = i THEN r
                                    ELSE IF k > i /\ stop THEN "skip" ELSE results[k]]
      /\ UNCHANGED <<platform, host, metadata, smt, run, pc, plan>> /\ N' = N
  BY DEF Finish, fixed, runVars, N
<1>2. stop <=> r = "bad" /\ i <= 3
  BY <1>0, Order DEF IInv
<1> HIDE DEF stop
<1>3. /\ results' \in [1..N -> {"none", "pass", "bad", "skip"}]
      /\ \A k \in 1..N : results'[k] = IF k = i THEN r
                                       ELSE IF k > i /\ stop THEN "skip" ELSE results[k]
  BY <1>1 DEF IInv, TypeOK
<1>4. /\ \A k \in 1..N : (results[k] = "none") <=> k >= i
      /\ \A k \in 1..N : results[k] # "skip"
      /\ \A k \in 1..N : k <= 3 /\ k < i => results[k] = "pass"
  BY <1>0, Order DEF IInv, Progress
<1>5. \A k \in 1..N : (results'[k] = "none") <=> k >= i'
  BY <1>0, <1>1, <1>2, <1>3, <1>4
<1>6. \A k \in 1..N : results'[k] = "skip" => i' = N + 1
  BY <1>0, <1>1, <1>3, <1>4
<1>7. \A k \in 1..N : k <= 3 /\ k < i' => results'[k] = "pass" \/ i' = N + 1
  BY <1>0, <1>1, <1>2, <1>3, <1>4
<1>8. \A j, k \in 1..N : j < k /\ j <= 3 /\ results'[k] = "pass" => results'[j] = "pass"
  BY <1>0, <1>1, <1>2, <1>3, <1>4
<1>9. \A k \in 1..N : StepType(plan'[k]) = "setup" <=> k <= 3
  BY <1>0, <1>1, Order DEF IInv
<1>10. Progress'
  BY <1>0, <1>1, <1>5, <1>6, <1>7, <1>8, <1>9 DEF Progress, IInv
<1>11. i' \in 1..N + 1 /\ i' > i /\ (r = "pass" \/ i > 3 => i' = i + 1)
  BY <1>0, <1>1, <1>2
<1>12. \A k \in 1..N : k > i => results'[k] \in {"none", "skip"}
  BY <1>0, <1>3, <1>4
<1>13. results'[i] = r /\ \A k \in 1..N : k < i => results'[k] = results[k]
  BY <1>0, <1>3
<1> QED
  BY <1>1, <1>3, <1>10, <1>11, <1>12, <1>13


\* What holds of the results behind a step: the earlier ones stay, no later step has passed.
LEMMA PassesSoFar ==
    ASSUME IInv, pc = "running", i \in 1..N, NEW r \in {"pass", "bad"}, Finish(r), NEW k \in 1..N,
           results'[k] = "pass"
    PROVE  (k = i /\ r = "pass") \/ (k < i /\ results[k] = "pass")
<1>1. N \in {14, 16} /\ results'[i] = r
  BY RunFacts, FinishFacts
<1>2. CASE k < i
  BY <1>2, FinishFacts
<1>3. CASE k = i
  BY <1>1, <1>3
<1>4. CASE k > i
  BY <1>4, FinishFacts
<1> QED
  BY <1>1, <1>2, <1>3, <1>4

\* A step that ends keeps the types.
LEMMA TypeStep ==
    ASSUME IInv, pc = "running", i \in 1..N, NEW r \in {"pass", "bad"}, Finish(r),
           measured' \in {"missing", "malformed", "valid"}, faults' \in 0..MaxFaults,
           profile' \in [digest : {"none", "real", "flipped"}, smt : BOOLEAN, abi : {"ok", "max"}],
           guest' \in [state : {"none", "up", "held"}, digest : {"none", "real", "flipped"},
                       report : Reports \cup {NoReport}],
           guest'.state = "none" => guest' = NoGuest,
           report' \in {report, guest.report},
           why' \in [1..N -> Launches \cup {"none"}],
           \A k \in 1..N : k # i => why'[k] = why[k],
           why'[i] # "none" => plan[i].op = "launch"
    PROVE  TypeOK'
<1>1. /\ UNCHANGED <<platform, host, metadata, smt, run, pc, plan>> /\ N' = N
      /\ i' \in 1..N + 1 /\ results' \in [1..N -> {"none", "pass", "bad", "skip"}]
  BY FinishFacts
<1>2. report' \in Reports \cup {NoReport}
  BY DEF IInv, TypeOK
<1>3. \A k \in 1..N : why'[k] # "none" => plan[k].op = "launch"
  <2>1. \A k \in 1..N : why[k] # "none" => plan[k].op = "launch"
    BY DEF IInv, TypeOK
  <2> QED
    BY <2>1
<1>4. NoGuest' = NoGuest /\ Reports' = Reports /\ Launches' = Launches
  BY DEF NoGuest, Reports, Launches, Mishaps, Cases
<1> QED
  BY <1>1, <1>2, <1>3, <1>4 DEF IInv, TypeOK

\* A step that ends keeps what is known of the launches.
LEMMA LaunchedStep ==
    ASSUME IInv, pc = "running", i \in 1..N, NEW r \in {"pass", "bad"}, Finish(r),
           profile'.abi = "max" => profile.abi = "max" \/ plan[i] = S("set", "abi"),
           \A k \in 1..N : k # i => why'[k] = why[k],
           \/ why'[i] = why[i]
           \/ /\ plan[i].op = "launch"
              /\ why'[i] \in Cases => why'[i] \in platform.refuses
              /\ why'[i] = "abi" => profile.abi = "max",
           plan[i].op = "launch" /\ r = "pass" => Passes(plan[i].case, why'[i])
    PROVE  Launched'
<1>0. /\ plan # <<>> /\ TypeOK /\ N \in {14, 16} /\ i \in Nat
      /\ UNCHANGED <<platform, plan>> /\ N' = N /\ i' \in 1..N + 1 /\ i' > i
  BY FinishFacts, RunFacts DEF IInv
<1>1. profile.abi = "max" => \A k \in 1..N : k >= i /\ plan[k].op = "launch" => plan[k].case = "abi"
  BY DEF IInv, Launched
<1>2. plan[i] = S("set", "abi") =>
         \A k \in 1..N : k > i /\ plan[k].op = "launch" => plan[k].case = "abi"
  <2> SUFFICES ASSUME plan[i] = S("set", "abi"), NEW k \in 1..N, k > i, plan[k].op = "launch"
               PROVE  plan[k].case = "abi"
    OBVIOUS
  <2>0. /\ plan[i].op = "set" /\ plan[i].case = "abi"
        /\ N = 14 => i \in {8, 12}
        /\ N = 16 => i \in {8, 11, 14}
    <3>1. plan[i].op = "set" /\ plan[i].case = "abi"
      BY DEF S
    <3> QED
      BY <1>0, <3>1, SetsAt
  <2>1. N = 16 => i = 14 /\ plan[15] = S("launch", "abi") /\ plan[16] = S("stop", "abi")
    <3>2. N = 16 => plan[8].case # "abi" /\ plan[11].case # "abi"
      BY <1>0, Shape DEF S
    <3> QED
      BY <1>0, <2>0, <3>2, Shape
  <2>2. N = 14 => i = 12 /\ plan[13] = S("launch", "abi") /\ plan[14] = S("stop", "abi")
    <3>2. N = 14 => plan[8].case # "abi"
      BY <1>0, Shape DEF S
    <3> QED
      BY <1>0, <2>0, <3>2, Shape
  <2> QED
    BY <1>0, <2>1, <2>2 DEF S
<1>3. profile'.abi = "max" =>
         \A k \in 1..N : k >= i' /\ plan[k].op = "launch" => plan[k].case = "abi"
  BY <1>0, <1>1, <1>2
<1>4. \A k \in 1..N : why'[k] \in Cases => why'[k] \in platform.refuses
  BY DEF IInv, Launched
<1>5. \A k \in 1..N : why'[k] = "abi" => plan[k].case = "abi"
  BY <1>0, <1>1 DEF IInv, Launched
<1>6. \A k \in 1..N : plan[k].op = "launch" /\ results'[k] = "pass" => Passes(plan[k].case, why'[k])
  BY <1>0, PassesSoFar DEF IInv, Launched
<1>7. Cases' = Cases /\ \A c, w : Passes(c, w)' = Passes(c, w)
  BY DEF Passes, Expected, Says, Cases
<1> QED
  BY <1>0, <1>3, <1>4, <1>5, <1>6, <1>7 DEF Launched

\* A step that ends keeps what is known of the reports.
LEMMA EvidenceStep ==
    ASSUME IInv, pc = "running", i \in 1..N, NEW r \in {"pass", "bad"}, Finish(r),
           guest'.report # NoReport => guest'.report.run = run /\ (guest'.report.block => platform.binds),
           \/ report' = report
           \/ plan[i].op = "pull" /\ guest.report # NoReport /\ report' = guest.report,
           plan[i].op = "pull" /\ r = "pass" => report' = guest.report /\ guest.report # NoReport,
           plan[i].op = "verify" /\ r = "pass" =>
              report # NoReport /\ report.block /\ ReadReport.error = "none"
    PROVE  Evidence'
<1>0. /\ plan # <<>> /\ TypeOK /\ N \in {14, 16} /\ i \in Nat
      /\ UNCHANGED <<platform, host, run, pc, plan>> /\ N' = N
  BY FinishFacts, RunFacts DEF IInv
<1>1. \A rep \in {report', guest'.report} \ {NoReport} : rep.block => platform.binds
  BY DEF IInv, Evidence
<1>2. \A k \in 1..N : plan[k].op = "pull" /\ results'[k] = "pass" => report' # NoReport /\ report'.run = run
  BY <1>0, PassesSoFar DEF IInv, Evidence
<1>3. ReadReport' = ReadReport
  BY <1>0 DEF ReadReport
<1>4. \A k \in 1..N : plan[k].op = "verify" /\ results'[k] = "pass" =>
           report' # NoReport /\ report'.block /\ ReadReport.error = "none"
  <2> SUFFICES ASSUME NEW k \in 1..N, plan[k].op = "verify", results'[k] = "pass"
               PROVE  report' # NoReport /\ report'.block /\ ReadReport.error = "none"
    OBVIOUS
  <2>1. k = 7 /\ (plan[i].op = "pull" => i = 5)
    BY <1>0, Order
  <2>2. report' = report
    BY <1>0, <2>1, PassesSoFar
  <2> QED
    BY <1>0, <2>2, PassesSoFar DEF IInv, Evidence
<1> QED
  BY <1>0, <1>1, <1>2, <1>3, <1>4 DEF Evidence

\* A step that ends on the straight path: it passed, and the next one finds what it needs.
LEMMA PathStep ==
    ASSUME IInv, pc = "running", i \in 1..N, NEW r \in {"pass", "bad"}, Finish(r),
           faults' = 0 => faults = 0,
           Undisturbed /\ faults' = 0 =>
              /\ plan[i].op \notin {"stop", "note"} => r = "pass"
              /\ measured' = "valid"
              /\ i + 1 <= N =>
                    /\ plan[i + 1].op \notin {"report", "pull", "stop"} => guest' = NoGuest
                    /\ plan[i + 1].op = "launch" => profile' = ProfileOf(plan[i + 1].case)
                    /\ plan[i + 1].op \in {"report", "pull"} => guest'.state = "up" /\ guest'.digest = "real"
                    /\ plan[i + 1].op = "pull" => guest'.report # NoReport /\ guest'.report.block
                    /\ plan[i + 1] = S("stop", "valid") \/ plan[i + 1].op = "verify" =>
                           report' # NoReport /\ report'.block
    PROVE  StraightPath'
<1>0. /\ plan # <<>> /\ TypeOK /\ N \in {14, 16} /\ i \in Nat
      /\ UNCHANGED <<platform, host, metadata, smt, pc, plan>> /\ N' = N
      /\ results'[i] = r
  BY FinishFacts, RunFacts DEF IInv
<1>1. Undisturbed' => Undisturbed /\ faults' = 0
  BY <1>0 DEF Undisturbed, HasCase, PolicySmt, N
<1>2. SUFFICES ASSUME Undisturbed, faults' = 0 PROVE StraightPath'
  BY <1>1 DEF StraightPath
<1>3. i' = i + 1
  <2>1. r = "pass" \/ i > 3
    BY <1>0, <1>2, Order
  <2> QED
    BY <2>1, FinishFacts
<1>4. /\ \A k \in 1..N : k < i /\ StepType(plan[k]) # "info" => results[k] = "pass"
      /\ smt <=> HasCase("smt")
  BY <1>2 DEF IInv, StraightPath
<1>5. \A k \in 1..N : k < i' /\ StepType(plan[k]) # "info" => results'[k] = "pass"
  <2>1. StepType(plan[i]) # "info" => r = "pass"
    BY <1>0, <1>2, Order
  <2>2. \A k \in 1..N : k < i => results'[k] = results[k]
    BY FinishFacts
  <2> QED
    BY <1>0, <1>3, <1>4, <2>1, <2>2
<1>6. smt' <=> HasCase("smt")'
  BY <1>0, <1>4 DEF HasCase, N
<1>7. NoGuest' = NoGuest /\ \A c : ProfileOf(c)' = ProfileOf(c)
  BY <1>0 DEF NoGuest, ProfileOf, PolicySmt, Regenerated
<1> QED
  BY <1>0, <1>2, <1>3, <1>5, <1>6, <1>7 DEF StraightPath, StepType, S

\* The types of what a step changes, and what is known of the guest and of the launches.
LEMMA StateFacts ==
    ASSUME IInv
    PROVE  /\ measured \in {"missing", "malformed", "valid"}
           /\ profile \in [digest : {"none", "real", "flipped"}, smt : BOOLEAN, abi : {"ok", "max"}]
           /\ guest \in [state : {"none", "up", "held"}, digest : {"none", "real", "flipped"},
                         report : Reports \cup {NoReport}]
           /\ guest.state = "none" => guest = NoGuest
           /\ why \in [1..N -> Launches \cup {"none"}]
           /\ \A k \in 1..N : why[k] # "none" => plan[k].op = "launch"
           /\ guest.report # NoReport => guest.report.run = run /\ (guest.report.block => platform.binds)
BY DEF IInv, TypeOK, Evidence

\* What can fail is bounded, and shows in the count.
LEMMA FaultFacts ==
    ASSUME IInv, UNCHANGED faults \/ Fault
    PROVE  /\ faults' \in 0..MaxFaults
           /\ faults' = 0 => faults = 0 /\ ~Fault
<1>1. faults \in 0..MaxFaults
  BY DEF IInv, TypeOK
<1> QED
  BY <1>1, RunsAssumption DEF Fault

\* The processors of no generation: the CPUID that some firmware leaves zero.
LEMMA ZeroedUnknown == ResolveGeneration(Zeroed) = Unknown
<1>1. Known(Zeroed) = {}
  BY DEF Known, SUPPORTED_GENERATIONS, Generation, Zeroed
<1> QED
  BY <1>1 DEF ResolveGeneration

\* A processor in the table orders the bytes of its TCB as the table says.
LEMMA LayoutKnown ==
    ASSUME NEW machine \in Nat \X Nat, ResolveGeneration(machine) # Unknown
    PROVE  ResolveGeneration(machine).layout = LayoutOf(machine)
<1>1. Known(machine) # {}
  BY DEF ResolveGeneration
<1>2. \A g \in Known(machine) : g.family = machine[1] /\ g.layout = IF g.family >= 26 THEN "turin" ELSE "legacy"
  BY DEF Known, SUPPORTED_GENERATIONS, Generation
<1>3. PICK g \in Known(machine) : ResolveGeneration(machine) = [name |-> g.name, layout |-> g.layout]
  BY <1>1 DEF ResolveGeneration
<1> QED
  BY <1>2, <1>3 DEF LayoutOf

\* What is written in a layout reads back in it.
LEMMA BytesRead ==
    ASSUME NEW machine
    PROVE  FromBytes(Bytes(TcbOf(machine), LayoutOf(machine)), LayoutOf(machine)) = TcbOf(machine)
BY DEF FromBytes, Bytes, TcbOf, LayoutOf

\* On the machine a report comes from, the parser reads it and gets its TCB right.
LEMMA OwnReportRead ==
    ASSUME NEW machine \in Nat \X Nat, NEW version \in Nat, version >= 2,
           ResolveGeneration(machine) # Unknown, NEW cpuid \in {machine, Zeroed}
    PROVE  /\ ReadOn(machine, ReportFile(machine, version, cpuid)).error = "none"
           /\ ReadOn(machine, ReportFile(machine, version, cpuid)).tcb = TcbOf(machine)
<1> DEFINE file == ReportFile(machine, version, cpuid)
           own == ResolveGeneration(machine)
<1>1. /\ file.size = REPORT_SIZE /\ file.version = version /\ file.cpuid = cpuid
      /\ file.tcb = Bytes(TcbOf(machine), LayoutOf(machine))
  BY DEF ReportFile
<1>2. ReportGeneration(file) \in {own, Unknown}
  BY <1>1, ZeroedUnknown DEF ReportGeneration
<1>3. own # Unknown /\ own.layout = LayoutOf(machine)
  BY LayoutKnown
<1> HIDE DEF file, own
<1>4. Parse(file, own) = Decoded(file, own)
  BY <1>1, <1>2, <1>3 DEF Parse
<1>5. Decoded(file, own).error = "none" /\ Decoded(file, own).tcb = TcbOf(machine)
  BY <1>1, <1>3, BytesRead DEF Decoded
<1> QED
  BY <1>3, <1>4, <1>5 DEF ReadOn, file, own

\* The steps that read, check or note: nothing but the result changes.
LEMMA CheckingSteps ==
    ASSUME IInv, StepBreaks \/ VerifyFields \/ SmtCaseNotApplicable
    PROVE  IInv'
<1>0. /\ pc = "running" /\ i \in 1..N /\ UNCHANGED <<profile, measured, report, guest, why>>
      /\ faults' \in 0..MaxFaults /\ (faults' = 0 => faults = 0)
      /\ plan # <<>> /\ TypeOK /\ N \in {14, 16} /\ plan[i].op \notin {"launch", "stop"}
  <2>1. pc = "running" /\ i <= N /\ UNCHANGED <<profile, measured, report, guest, why>>
        /\ plan[i].op \notin {"launch", "stop"} /\ (faults' = faults \/ Fault)
    BY DEF StepBreaks, VerifyFields, SmtCaseNotApplicable, At
  <2>2. faults' \in 0..MaxFaults /\ (faults' = 0 => faults = 0)
    BY <2>1, FaultFacts
  <2> QED
    BY <2>1, <2>2, RunFacts DEF IInv
<1>1. PICK r \in {"pass", "bad"} :
         /\ Finish(r)
         /\ plan[i].op = "verify" /\ r = "pass" =>
              report # NoReport /\ report.block /\ ReadReport.error = "none"
         /\ r = "pass" => plan[i].op \in {"verify", "note"}
         /\ faults' = 0 => plan[i].op = "note" \/ (plan[i].op = "verify" /\
              (r = "pass" <=> report # NoReport /\ report.block /\ ReadReport.error = "none"))
  <2>1. CASE StepBreaks
    BY <2>1, FaultFacts DEF StepBreaks
  <2>2. CASE VerifyFields
    BY <2>2 DEF VerifyFields, At
  <2>3. CASE SmtCaseNotApplicable
    BY <2>3 DEF SmtCaseNotApplicable, At
  <2> QED
    BY <2>1, <2>2, <2>3
<1>2. TypeOK'
  BY <1>0, <1>1, StateFacts, TypeStep
<1>3. Launched'
  BY <1>0, <1>1, LaunchedStep
<1>4. Evidence'
  <2>1. guest.report # NoReport => guest.report.run = run /\ (guest.report.block => platform.binds)
    BY DEF IInv, Evidence
  <2> QED
    BY <1>0, <1>1, <2>1, EvidenceStep
<1>5. StraightPath'
  <2> SUFFICES ASSUME Undisturbed, faults' = 0
               PROVE  /\ plan[i].op \notin {"stop", "note"} => r = "pass"
                      /\ measured' = "valid"
                      /\ i + 1 <= N => guest' = NoGuest /\ plan[i + 1].op = "set"
    BY <1>0, <1>1, PathStep DEF S
  <2>1. i # 1 /\ plan[i].op \in {"verify", "note"}
    BY <1>0, <1>1, Order
  <2>2. measured = "valid" /\ guest = NoGuest /\ (plan[i].op = "verify" => report # NoReport /\ report.block)
    BY <1>0, <2>1 DEF IInv, StraightPath
  <2>3. ReadReport.error = "none"
    <3>1. host \in [cpu : Machines, version : Versions, zeroed : BOOLEAN]
      BY <1>0, HostAssumption DEF TypeOK
    <3>2. Machines \subseteq Nat \X Nat /\ Versions \subseteq Nat
      BY DEF Machines, Versions
    <3>3. host.version >= 2 /\ ResolveGeneration(host.cpu) # Unknown
      BY DEF Undisturbed
    <3> QED
      BY <3>1, <3>2, <3>3, OwnReportRead DEF ReadReport
  <2>4. i + 1 <= N => plan[i + 1].op = "set"
    <3>1. CASE plan[i].op = "verify"
      <4>1. i = 7
        BY <1>0, <3>1, Order
      <4> QED
        BY <1>0, <4>1, Shape DEF S
    <3>2. CASE plan[i].op = "note"
      BY <1>0, <3>2, Order
    <3> QED
      BY <2>1, <3>1, <3>2
  <2> QED
    BY <1>0, <1>1, <2>1, <2>2, <2>3, <2>4
<1> QED
  BY <1>1, <1>2, <1>3, <1>4, <1>5, <1>0, FinishFacts DEF IInv

\* Where a named step stands.
LEMMA AtStep ==
    ASSUME IInv, NEW op, At(op)
    PROVE  /\ pc = "running" /\ i \in 1..N /\ plan[i].op = op
           /\ plan # <<>> /\ TypeOK /\ N \in {14, 16}
BY RunFacts DEF At, IInv

\* A step that had its effect, in time or not.
LEMMA DoneFacts ==
    ASSUME IInv, Done
    PROVE  \E r \in {"pass", "bad"} :
              Finish(r) /\ faults' \in 0..MaxFaults /\ (faults' = 0 => faults = 0 /\ r = "pass")
BY FaultFacts DEF Done

\* The parts of the invariant after a step that ended.
LEMMA Together ==
    ASSUME IInv, pc = "running", i \in 1..N, NEW r \in {"pass", "bad"}, Finish(r),
           TypeOK', Launched', Evidence', StraightPath'
    PROVE  IInv'
BY FinishFacts DEF IInv

\* The first step: the launch measurement is calculated.
LEMMA MeasureStep == ASSUME IInv, CalculateMeasurement PROVE IInv'
<1>0. /\ pc = "running" /\ i \in 1..N /\ i = 1 /\ plan[i].op = "measure"
      /\ plan # <<>> /\ TypeOK /\ N \in {14, 16}
      /\ UNCHANGED <<profile, report, guest, why>>
  BY AtStep, Order DEF CalculateMeasurement
<1>1. PICK r \in {"pass", "bad"} :
         /\ Finish(r) /\ measured' \in {"malformed", "valid"} /\ faults' \in 0..MaxFaults
         /\ faults' = 0 => faults = 0 /\ r = "pass" /\ measured' = "valid"
  BY DoneFacts, FaultFacts DEF CalculateMeasurement
<1>2. TypeOK'
  BY <1>0, <1>1, StateFacts, TypeStep
<1>3. Launched'
  BY <1>0, <1>1, LaunchedStep
<1>4. Evidence'
  BY <1>0, <1>1, StateFacts, EvidenceStep
<1>5. StraightPath'
  <2>1. plan[i + 1] = S("generate", "valid")
    BY <1>0, Shape
  <2>2. Undisturbed => guest = NoGuest
    BY <1>0 DEF IInv, StraightPath
  <2> QED
    BY <1>0, <1>1, <2>1, <2>2, PathStep DEF S
<1> QED
  BY <1>0, <1>1, <1>2, <1>3, <1>4, <1>5, Together

\* The profile gets the ID block of the measured guest.
LEMMA GenerateStep == ASSUME IInv, GenerateIdBlock PROVE IInv'
<1>0. /\ pc = "running" /\ i \in 1..N /\ i = 2 /\ plan[i].op = "generate"
      /\ plan # <<>> /\ TypeOK /\ N \in {14, 16}
      /\ UNCHANGED <<measured, report, guest, why>>
  BY AtStep, Order DEF GenerateIdBlock
<1>1. PICK r \in {"pass", "bad"} :
         /\ Finish(r) /\ faults' \in 0..MaxFaults /\ (faults' = 0 => faults = 0)
         /\ profile' \in {profile, [digest |-> "real", smt |-> PolicySmt, abi |-> "ok"]}
         /\ faults' = 0 /\ metadata # "unusable" /\ measured = "valid" =>
               r = "pass" /\ profile' = [digest |-> "real", smt |-> PolicySmt, abi |-> "ok"]
  BY DoneFacts, FaultFacts DEF GenerateIdBlock, MeasurementUsable
<1>2. /\ profile' \in [digest : {"none", "real", "flipped"}, smt : BOOLEAN, abi : {"ok", "max"}]
      /\ profile'.abi = "max" => profile.abi = "max"
  <2>1. PolicySmt \in BOOLEAN
    BY DEF PolicySmt
  <2> QED
    BY <1>1, <2>1, StateFacts
<1>3. TypeOK'
  BY <1>0, <1>1, <1>2, StateFacts, TypeStep
<1>4. Launched'
  BY <1>0, <1>1, <1>2, LaunchedStep
<1>5. Evidence'
  BY <1>0, <1>1, StateFacts, EvidenceStep
<1>6. StraightPath'
  <2>1. plan[i + 1] = S("launch", "valid")
    BY <1>0, Shape
  <2>2. Undisturbed => guest = NoGuest /\ measured = "valid" /\ metadata # "unusable"
    BY <1>0 DEF IInv, StraightPath, Undisturbed
  <2> QED
    BY <1>0, <1>1, <2>1, <2>2, PathStep DEF S, ProfileOf
<1> QED
  BY <1>0, <1>1, <1>3, <1>4, <1>5, <1>6, Together

\* A handler rewrites the profile for its case.
LEMMA SetStep == ASSUME IInv, SetCase PROVE IInv'
<1> DEFINE c == plan[i].case
<1>0. /\ pc = "running" /\ i \in 1..N /\ plan[i].op = "set"
      /\ plan # <<>> /\ TypeOK /\ N \in {14, 16}
      /\ UNCHANGED <<measured, report, guest, why>>
  BY AtStep DEF SetCase
<1>1. plan[i] = S("set", c) /\ c \in Cases /\ i + 1 <= N /\ plan[i + 1] = S("launch", c) /\ i > 3
  <2>1. i # 1 /\ i # 2 /\ i # 3
    BY <1>0, Shape DEF S
  <2>2. plan[i] = S("set", c) /\ c \in Cases /\ i + 1 <= N /\ plan[i + 1] = S("launch", c)
    BY <1>0, Order
  <2> QED
    BY <1>0, <2>1, <2>2
<1>2. PICK r \in {"pass", "bad"} :
         /\ Finish(r) /\ faults' \in 0..MaxFaults /\ (faults' = 0 => faults = 0)
         /\ profile' \in {profile, Regenerated(c)}
         /\ faults' = 0 /\ metadata # "unusable" /\ measured = "valid" /\ (c = "smt" => smt) =>
               r = "pass" /\ profile' = Regenerated(c)
  BY DoneFacts, FaultFacts DEF SetCase, MeasurementUsable
<1>3. /\ profile' \in [digest : {"none", "real", "flipped"}, smt : BOOLEAN, abi : {"ok", "max"}]
      /\ profile'.abi = "max" => profile.abi = "max" \/ c = "abi"
  <2>1. PolicySmt \in BOOLEAN /\ (PolicySmt /\ c # "smt") \in BOOLEAN
    BY DEF PolicySmt
  <2>2. /\ Regenerated(c) \in [digest : {"none", "real", "flipped"}, smt : BOOLEAN, abi : {"ok", "max"}]
        /\ Regenerated(c).abi = "max" => c = "abi"
    BY <2>1 DEF Regenerated
  <2> QED
    BY <1>2, <2>2, StateFacts
<1>4. TypeOK'
  BY <1>0, <1>2, <1>3, StateFacts, TypeStep
<1>5. Launched'
  BY <1>0, <1>1, <1>2, <1>3, LaunchedStep
<1>6. Evidence'
  BY <1>0, <1>2, StateFacts, EvidenceStep
<1>7. StraightPath'
  <2> SUFFICES ASSUME Undisturbed, faults' = 0
               PROVE  r = "pass" /\ measured' = "valid" /\ guest' = NoGuest /\ profile' = ProfileOf(c)
    BY <1>0, <1>1, <1>2, PathStep DEF S, Cases
  <2>1. guest = NoGuest /\ measured = "valid" /\ (smt <=> HasCase("smt")) /\ metadata # "unusable"
    BY <1>0, <1>1 DEF IInv, StraightPath, Undisturbed
  <2>2. c = "smt" => smt
    BY <1>0, <1>1, <2>1 DEF HasCase
  <2> QED
    BY <1>0, <1>1, <1>2, <2>1, <2>2 DEF ProfileOf, Cases
<1> QED
  BY <1>0, <1>2, <1>4, <1>5, <1>6, <1>7, Together

\* How a launch ends: refused for a defect of the profile that the platform refuses.
LEMMA LaunchFacts ==
    ASSUME NEW p, NEW w \in {LaunchOf(p)} \cup Mishaps
    PROVE  /\ w \in Launches
           /\ w \in Cases => w \in platform.refuses
           /\ w = "abi" => p.abi = "max"
BY DEF LaunchOf, Mishaps, Launches, Cases

\* On a platform that enforces everything a launch ends as its case says it must.
LEMMA StraightLaunch ==
    ASSUME IInv, Undisturbed, pc = "running", i \in 1..N, plan[i].op = "launch"
    PROVE  /\ guest = NoGuest /\ measured = "valid"
           /\ Passes(plan[i].case, LaunchOf(profile))
           /\ i = 3 => LaunchOf(profile) = "booted" /\ profile.digest = "real"
<1> DEFINE c == plan[i].case
<1>0. plan # <<>> /\ TypeOK /\ N \in {14, 16} /\ plan[i] = S("launch", c) /\ c \in Cases \cup {"valid"}
  BY RunFacts, Order DEF IInv
<1>1. /\ guest = NoGuest /\ measured = "valid" /\ profile = ProfileOf(c)
      /\ smt <=> HasCase("smt")
  <2>1. i > 1
    BY <1>0, Order
  <2> QED
    BY <1>0, <2>1 DEF IInv, StraightPath, S
<1>2. /\ smt => PolicySmt
      /\ c = "smt" => smt
      /\ platform.refuses = Cases
  BY <1>0, <1>1 DEF Undisturbed, HasCase
<1>3. i = 3 => c = "valid"
  BY <1>0, Shape DEF S
<1>4. CASE c = "valid"
  <2>1. LaunchOf(profile) = "booted" /\ profile.digest = "real"
    BY <1>1, <1>2, <1>4 DEF ProfileOf, LaunchOf
  <2> QED
    BY <1>1, <1>4, <2>1 DEF Passes
<1>5. CASE c = "digest"
  <2>1. LaunchOf(profile) = "digest"
    BY <1>1, <1>2, <1>5 DEF ProfileOf, Regenerated, LaunchOf, Cases
  <2>2. Passes("digest", "digest")
    BY DEF Passes, Expected, Says
  <2> QED
    BY <1>1, <1>3, <1>5, <2>1, <2>2
<1>6. CASE c = "smt"
  <2>1. LaunchOf(profile) = "smt"
    BY <1>1, <1>2, <1>6 DEF ProfileOf, Regenerated, LaunchOf, Cases
  <2>2. Passes("smt", "smt")
    BY DEF Passes, Expected, Says
  <2> QED
    BY <1>1, <1>3, <1>6, <2>1, <2>2
<1>7. CASE c = "abi"
  <2>1. LaunchOf(profile) = "abi"
    BY <1>1, <1>2, <1>7 DEF ProfileOf, Regenerated, LaunchOf, Cases
  <2>2. Passes("abi", "abi")
    BY DEF Passes, Expected, Says
  <2> QED
    BY <1>1, <1>3, <1>7, <2>1, <2>2
<1> QED
  BY <1>0, <1>4, <1>5, <1>6, <1>7 DEF Cases

\* A launch: of a guest that is held already, or of one with the profile in force.
LEMMA LaunchStep == ASSUME IInv, LaunchGuest PROVE IInv'
<1>0. /\ pc = "running" /\ i \in 1..N /\ plan[i].op = "launch"
      /\ plan # <<>> /\ TypeOK /\ N \in {14, 16}
      /\ UNCHANGED <<profile, measured, report>>
  BY AtStep DEF LaunchGuest
<1>1. CASE guest.state # "none" /\ Finish("bad") /\ UNCHANGED <<guest, why, faults>>
  <2>1. TypeOK' /\ Launched' /\ Evidence'
    BY <1>0, <1>1, StateFacts, FaultFacts, TypeStep, LaunchedStep, EvidenceStep
  <2>2. ~Undisturbed
    BY <1>0, <1>1, StraightLaunch DEF NoGuest
  <2>3. StraightPath'
    BY <1>0, <1>1, <2>2, PathStep
  <2> QED
    BY <1>0, <1>1, <2>1, <2>3, Together
<1>2. ASSUME NEW w \in {LaunchOf(profile)} \cup Mishaps, NEW state \in {"none", "up", "held"},
             (state = "up") <=> (w = "booted"),
             why' = [why EXCEPT ![i] = w],
             guest' = IF state = "none" THEN NoGuest
                      ELSE [NoGuest EXCEPT !.state = state, !.digest = profile.digest],
             NEW r \in {"pass", "bad"}, r = IF Passes(plan[i].case, w) THEN "pass" ELSE "bad",
             Finish(r),
             IF w \in Mishaps THEN Fault ELSE UNCHANGED faults
      PROVE  IInv'
  <2>1. /\ why' \in [1..N -> Launches \cup {"none"}] /\ why'[i] = w
        /\ \A k \in 1..N : k # i => why'[k] = why[k]
    BY <1>0, <1>2, StateFacts, LaunchFacts
  <2>2. /\ guest' \in [state : {"none", "up", "held"}, digest : {"none", "real", "flipped"},
                       report : Reports \cup {NoReport}]
        /\ guest'.report = NoReport /\ guest'.state = state
        /\ guest'.state = "none" => guest' = NoGuest
        /\ guest'.state # "none" => guest'.digest = profile.digest
    BY <1>2, StateFacts DEF NoGuest
  <2>3. faults' \in 0..MaxFaults /\ (faults' = 0 => faults = 0 /\ w = LaunchOf(profile))
    BY <1>2, FaultFacts
  <2>4. TypeOK'
    BY <1>0, <1>2, <2>1, <2>2, <2>3, StateFacts, TypeStep
  <2>5. Launched'
    BY <1>0, <1>2, <2>1, LaunchFacts, LaunchedStep
  <2>6. Evidence'
    BY <1>0, <1>2, <2>2, EvidenceStep
  <2>7. StraightPath'
    <3> SUFFICES ASSUME Undisturbed, faults' = 0
                 PROVE  /\ r = "pass" /\ measured' = "valid"
                        /\ i + 1 <= N =>
                             IF i = 3 THEN /\ plan[i + 1] = S("report", "valid")
                                           /\ guest'.state = "up" /\ guest'.digest = "real"
                             ELSE plan[i + 1].op = "stop" /\ plan[i + 1].case \in Cases
      BY <1>0, <1>2, <2>3, PathStep DEF S, Cases
    <3>1. /\ Passes(plan[i].case, w) /\ measured = "valid"
          /\ i = 3 => w = "booted" /\ profile.digest = "real"
      BY <1>0, <2>3, StraightLaunch
    <3>2. i = 3 => guest'.state = "up" /\ guest'.digest = "real"
      BY <1>2, <2>2, <3>1
    <3>3. i = 3 => plan[i + 1] = S("report", "valid")
      BY <1>0, Shape
    <3>4. i # 3 => plan[i + 1].op = "stop" /\ plan[i + 1].case \in Cases
      <4>1. i # 3 => plan[i + 1] = S("stop", plan[i].case) /\ plan[i].case \in Cases
        BY <1>0, Order
      <4> QED
        BY <4>1 DEF S
    <3> QED
      BY <1>0, <1>2, <3>1, <3>2, <3>3, <3>4
  <2> QED
    BY <1>0, <1>2, <2>4, <2>5, <2>6, <2>7, Together
<1> QED
  BY <1>1, <1>2 DEF LaunchGuest

\* The report is made in the guest and pulled to the host.
LEMMA ReportStep == ASSUME IInv, GuestReport PROVE IInv'
<1> DEFINE new == [run |-> run, block |-> platform.binds /\ guest.digest # "none"]
<1>0. /\ pc = "running" /\ i \in 1..N /\ i = 4 /\ plan[i].op = "report" /\ guest.state = "up"
      /\ plan # <<>> /\ TypeOK /\ N \in {14, 16} /\ run \in 1..MaxRuns
      /\ guest' = [guest EXCEPT !.report = new]
      /\ UNCHANGED <<profile, measured, report, why>>
  BY AtStep, RunFacts, Order DEF GuestReport
<1>1. PICK r \in {"pass", "bad"} :
         Finish(r) /\ faults' \in 0..MaxFaults /\ (faults' = 0 => faults = 0 /\ r = "pass")
  BY DoneFacts DEF GuestReport
<1>2. new \in Reports /\ new.run = run /\ (new.block => platform.binds) /\ new # NoReport
  <2>1. (platform.binds /\ guest.digest # "none") \in BOOLEAN
    OBVIOUS
  <2>2. new \in Reports
    BY <1>0, <2>1 DEF Reports
  <2>3. new.run = run /\ (new.block <=> platform.binds /\ guest.digest # "none")
    OBVIOUS
  <2> QED
    BY <2>2, <2>3, FileAssumption DEF Reports
<1>3. Undisturbed => guest.digest = "real" /\ measured = "valid" /\ new.block
  <2>1. Undisturbed => guest.digest = "real" /\ measured = "valid"
    BY <1>0 DEF IInv, StraightPath
  <2>2. Undisturbed => platform.binds
    BY DEF Undisturbed
  <2> QED
    BY <2>1, <2>2
<1> HIDE DEF new
<1>4. /\ guest' \in [state : {"none", "up", "held"}, digest : {"none", "real", "flipped"},
                     report : Reports \cup {NoReport}]
      /\ guest'.state = "up" /\ guest'.report = new /\ guest'.digest = guest.digest
  BY <1>0, <1>2, StateFacts
<1>5. TypeOK'
  BY <1>0, <1>1, <1>4, StateFacts, TypeStep
<1>6. Launched'
  BY <1>0, <1>1, LaunchedStep
<1>7. Evidence'
  BY <1>0, <1>1, <1>2, <1>4, EvidenceStep
<1>8. StraightPath'
  <2>1. plan[i + 1] = S("pull", "valid")
    BY <1>0, Shape
  <2> QED
    BY <1>0, <1>1, <1>2, <1>3, <1>4, <2>1, PathStep DEF S
<1> QED
  BY <1>0, <1>1, <1>5, <1>6, <1>7, <1>8, Together

\* The report that is pulled is that of the guest that is up.
LEMMA PullStep == ASSUME IInv, PullReport PROVE IInv'
<1>0. /\ pc = "running" /\ i \in 1..N /\ i = 5 /\ plan[i].op = "pull"
      /\ guest.report # NoReport /\ report' = guest.report
      /\ plan # <<>> /\ TypeOK /\ N \in {14, 16}
      /\ UNCHANGED <<profile, measured, guest, why>>
  BY AtStep, Order DEF PullReport
<1>1. PICK r \in {"pass", "bad"} :
         Finish(r) /\ faults' \in 0..MaxFaults /\ (faults' = 0 => faults = 0 /\ r = "pass")
  BY DoneFacts DEF PullReport
<1>2. TypeOK'
  BY <1>0, <1>1, StateFacts, TypeStep
<1>3. Launched'
  BY <1>0, <1>1, LaunchedStep
<1>4. Evidence'
  BY <1>0, <1>1, StateFacts, EvidenceStep
<1>5. StraightPath'
  <2>1. plan[i + 1] = S("stop", "valid")
    BY <1>0, Shape
  <2>2. Undisturbed => guest.report.block /\ measured = "valid"
    BY <1>0 DEF IInv, StraightPath
  <2> QED
    BY <1>0, <1>1, <2>1, <2>2, PathStep DEF S
<1> QED
  BY <1>0, <1>1, <1>2, <1>3, <1>4, <1>5, Together

\* The guest is stopped, or there was none, or it stays.
LEMMA StopStep == ASSUME IInv, StopGuest PROVE IInv'
<1>0. /\ pc = "running" /\ i \in 1..N /\ plan[i].op = "stop" /\ i > 3
      /\ plan # <<>> /\ TypeOK /\ N \in {14, 16}
      /\ UNCHANGED <<profile, measured, report, why>>
  <2>1. /\ pc = "running" /\ i \in 1..N /\ plan[i].op = "stop"
        /\ plan # <<>> /\ TypeOK /\ N \in {14, 16}
        /\ UNCHANGED <<profile, measured, report, why>>
    BY AtStep DEF StopGuest
  <2>2. i # 1 /\ i # 2 /\ i # 3
    BY <2>1, Shape DEF S
  <2> QED
    BY <2>1, <2>2
<1>1. PICK r \in {"pass", "bad"} :
         /\ Finish(r) /\ faults' \in 0..MaxFaults /\ guest' \in {guest, NoGuest}
         /\ faults' = 0 => faults = 0 /\ guest' = NoGuest
  BY FaultFacts DEF StopGuest
<1>2. /\ guest' \in [state : {"none", "up", "held"}, digest : {"none", "real", "flipped"},
                     report : Reports \cup {NoReport}]
      /\ guest'.state = "none" => guest' = NoGuest
      /\ guest'.report # NoReport => guest'.report.run = run /\ (guest'.report.block => platform.binds)
  <2>1. /\ NoGuest \in [state : {"none", "up", "held"}, digest : {"none", "real", "flipped"},
                        report : Reports \cup {NoReport}]
        /\ NoGuest.report = NoReport
    BY DEF NoGuest
  <2> QED
    BY <1>1, <2>1, StateFacts
<1>3. TypeOK'
  BY <1>0, <1>1, <1>2, StateFacts, TypeStep
<1>4. Launched'
  BY <1>0, <1>1, LaunchedStep
<1>5. Evidence'
  BY <1>0, <1>1, <1>2, EvidenceStep
<1>6. StraightPath'
  <2>1. Undisturbed => measured = "valid" /\ (i = 6 => report # NoReport /\ report.block)
    BY <1>0, Shape DEF IInv, StraightPath
  <2>2. i = 6 => plan[i + 1] = S("verify", "valid")
    BY <1>0, Shape
  <2>3. i # 6 /\ i + 1 <= N => plan[i + 1].op \in {"set", "note"}
    BY <1>0, Order
  <2> QED
    BY <1>0, <1>1, <2>1, <2>2, <2>3, PathStep DEF S
<1> QED
  BY <1>0, <1>1, <1>3, <1>4, <1>5, <1>6, Together

\* The run returns, the guest dies, SMT is switched: the results stay.
LEMMA WorldSteps == ASSUME IInv, Return \/ SwitchSmt \/ GuestDies PROVE IInv'
<1>0. /\ UNCHANGED <<fixed, run, plan, i, results, profile, measured, report, why>>
      /\ N' = N /\ faults' \in 0..MaxFaults
  BY FaultFacts DEF Return, SwitchSmt, GuestDies, N, runVars
<1>1. /\ guest' \in [state : {"none", "up", "held"}, digest : {"none", "real", "flipped"},
                     report : Reports \cup {NoReport}]
      /\ guest'.state = "none" => guest' = NoGuest
      /\ guest'.report # NoReport => guest'.report.run = run /\ (guest'.report.block => platform.binds)
      /\ pc' # "running" => guest' = NoGuest
  <2>1. CASE guest' = NoGuest
    BY <2>1 DEF NoGuest
  <2>2. CASE SwitchSmt
    BY <2>2, StateFacts DEF SwitchSmt, runVars, IInv, Evidence
  <2>3. CASE GuestDies
    <3>1. guest.state = "up" /\ guest' = [guest EXCEPT !.state = "held"] /\ pc' = pc
      BY <2>3 DEF GuestDies, runVars
    <3>2. pc = "running"
      BY <3>1 DEF IInv, Evidence, NoGuest
    <3> QED
      BY <3>1, <3>2, StateFacts
  <2> QED
    BY <2>1, <2>2, <2>3 DEF Return
<1>2. /\ smt' \in BOOLEAN /\ pc' \in {"running", "returned", "idle"}
      /\ pc' = "returned" => i = N + 1
      /\ (pc' = "idle") <=> (pc = "idle")
      /\ pc' = "running" => pc = "running"
  <2>1. i \in 1..N + 1 /\ smt \in BOOLEAN /\ pc \in {"running", "returned", "idle"}
    BY DEF IInv, TypeOK
  <2>2. pc = "returned" => i = N + 1
    BY DEF IInv, Progress
  <2>3. CASE Return
    <3>1. N \in {14, 16} /\ i > N /\ smt' = smt /\ pc = "running" /\ pc' = "returned"
      BY <2>3, RunFacts DEF Return
    <3> QED
      BY <2>1, <3>1
  <2>4. CASE SwitchSmt
    BY <2>1, <2>2, <2>4 DEF SwitchSmt, runVars
  <2>5. CASE GuestDies
    BY <2>1, <2>2, <2>5 DEF GuestDies, runVars
  <2> QED
    BY <2>3, <2>4, <2>5
<1>3. TypeOK'
  <2>1. NoGuest' = NoGuest /\ UNCHANGED <<platform, host, metadata>>
    BY <1>0 DEF NoGuest, fixed
  <2>2. /\ guest' \in [state : {"none", "up", "held"}, digest : {"none", "real", "flipped"},
                       report : Reports' \cup {NoReport'}]
        /\ smt' \in BOOLEAN /\ pc' \in {"idle", "running", "returned"}
    BY <1>1, <1>2
  <2>3. /\ measured' \in {"missing", "malformed", "valid"} /\ run' \in 0..MaxRuns
        /\ plan' \in {<<>>, PlanFor(TRUE), PlanFor(FALSE)} /\ i' \in 1..N + 1
        /\ results' \in [1..N -> {"none", "pass", "bad", "skip"}]
        /\ profile' \in [digest : {"none", "real", "flipped"}, smt : BOOLEAN, abi : {"ok", "max"}]
        /\ report' \in Reports' \cup {NoReport'}
        /\ why' \in [1..N -> Launches \cup {"none"}]
        /\ \A k \in 1..N : why'[k] # "none" => plan'[k].op = "launch"
    BY <1>0 DEF IInv, TypeOK
  <2>4. /\ platform' \in [refuses : SUBSET Cases, binds : BOOLEAN]
        /\ host' \in Hosts /\ metadata' \in {"smt", "no smt", "unusable"}
    BY <2>1 DEF IInv, TypeOK
  <2> QED
    BY <1>0, <1>1, <2>1, <2>2, <2>3, <2>4 DEF TypeOK
<1>4. Progress'
  BY <1>0, <1>2 DEF IInv, Progress, StepType, S
<1>5. Launched'
  BY <1>0 DEF IInv, Launched, Passes, Says, Expected, fixed
<1>6. Evidence'
  <2>1. ReadReport' = ReadReport
    BY <1>0 DEF ReadReport, fixed
  <2> QED
    BY <1>0, <1>1, <2>1 DEF IInv, Evidence, fixed, NoGuest
<1>7. StraightPath'
  <2>1. Undisturbed' => Undisturbed /\ faults' = 0
    BY <1>0, FaultFacts DEF Return, SwitchSmt, GuestDies, Undisturbed, HasCase, PolicySmt, fixed
  <2> SUFFICES ASSUME Undisturbed, faults' = 0 PROVE StraightPath'
    BY <2>1 DEF StraightPath
  <2>2. pc' # "running"
    BY FaultFacts DEF Return, SwitchSmt, GuestDies, runVars
  <2>3. \A k \in 1..N : k < i /\ StepType(plan[k]) # "info" => results[k] = "pass"
    BY DEF IInv, StraightPath
  <2> QED
    BY <1>0, <2>2, <2>3 DEF StraightPath, StepType, S
<1> QED
  BY <1>3, <1>4, <1>5, <1>6, <1>7 DEF IInv

\* A run starts: its plan is made for SMT as it is now.
LEMMA StartStep == ASSUME IInv, StartRun PROVE IInv'
<1>0. /\ plan' = PlanFor(smt) /\ N' = Len(plan') /\ smt \in BOOLEAN
      /\ run' \in 1..MaxRuns /\ pc' = "running" /\ i' = 1 /\ faults' = 0
      /\ results' = [k \in 1..N' |-> "none"] /\ why' = [k \in 1..N' |-> "none"]
      /\ profile' = Declared /\ guest' = NoGuest
      /\ UNCHANGED <<platform, host, metadata, smt, measured, report>>
  <2>1. run' \in 1..MaxRuns /\ smt \in BOOLEAN
    <3>1. run \in 0..MaxRuns /\ run < MaxRuns /\ run' = run + 1 /\ smt \in BOOLEAN
      BY DEF StartRun, IInv, TypeOK
    <3> QED
      BY <3>1, RunsAssumption
  <2>2. N' = Len(plan')
    BY DEF N
  <2> QED
    BY <2>1, <2>2 DEF StartRun, fixed
<1>1. /\ N' \in {14, 16} /\ plan'[1] = S("measure", "valid") /\ plan' # <<>>
      /\ HasCase("smt")' <=> smt
  <2>1. /\ Len(plan') = IF smt THEN 16 ELSE 14
        /\ plan'[1] = S("measure", "valid") /\ plan'[2] = S("generate", "valid")
        /\ plan'[3] = S("launch", "valid") /\ plan'[4] = S("report", "valid")
        /\ plan'[5] = S("pull", "valid") /\ plan'[6] = S("stop", "valid")
        /\ plan'[7] = S("verify", "valid") /\ plan'[8] = S("set", "digest")
        /\ plan'[9] = S("launch", "digest") /\ plan'[10] = S("stop", "digest")
    BY <1>0, PlanSteps
  <2>2. smt => plan'[12] = S("launch", "smt")
    BY <1>0, <2>1, PlanSteps
  <2>3. ~smt => /\ plan'[11] = S("note", "smt") /\ plan'[12] = S("set", "abi")
                /\ plan'[13] = S("launch", "abi") /\ plan'[14] = S("stop", "abi")
    BY <1>0, <2>1, PlanSteps
  <2>4. ASSUME smt PROVE HasCase("smt")'
    <3>1. N' = 16 /\ plan'[12] = S("launch", "smt")
      BY <1>0, <2>1, <2>2, <2>4
    <3>2. 12 \in 1..N'
      BY <3>1
    <3> QED
      BY <3>1, <3>2 DEF HasCase
  <2>5. ~smt => \A k \in 1..14 : plan'[k] # S("launch", "smt")
    BY <2>1, <2>3 DEF S
  <2>6. ~smt => ~HasCase("smt")'
    BY <1>0, <2>1, <2>5 DEF HasCase
  <2> QED
    BY <1>0, <2>1, <2>4, <2>6
<1>2. TypeOK'
  <2>1. plan' \in {<<>>, PlanFor(TRUE), PlanFor(FALSE)}
    BY <1>0
  <2>2. \A k \in 1..N' : why'[k] = "none"
    BY <1>0
  <2>3. results' \in [1..N' -> {"none", "pass", "bad", "skip"}]
        /\ why' \in [1..N' -> Launches \cup {"none"}]
    BY <1>0
  <2>4. /\ guest' \in [state : {"none", "up", "held"}, digest : {"none", "real", "flipped"},
                       report : Reports \cup {NoReport}]
        /\ profile' \in [digest : {"none", "real", "flipped"}, smt : BOOLEAN, abi : {"ok", "max"}]
        /\ NoGuest' = NoGuest
    BY <1>0 DEF NoGuest, Declared
  <2>5. i' \in 1..N' + 1 /\ faults' \in 0..MaxFaults
    BY <1>0, <1>1, RunsAssumption
  <2>6. /\ platform' \in [refuses : SUBSET Cases, binds : BOOLEAN]
        /\ host' \in Hosts /\ metadata' \in {"smt", "no smt", "unusable"}
        /\ measured' \in {"missing", "malformed", "valid"}
        /\ report' \in Reports \cup {NoReport}
    BY <1>0 DEF IInv, TypeOK
  <2>7. smt' \in BOOLEAN /\ run' \in 0..MaxRuns /\ pc' \in {"idle", "running", "returned"}
        /\ guest' = NoGuest'
    BY <1>0, <2>4, RunsAssumption
  <2> QED
    BY <2>1, <2>2, <2>3, <2>4, <2>5, <2>6, <2>7 DEF TypeOK
<1>3. Progress'
  BY <1>0, <1>1 DEF Progress
<1>4. Launched'
  BY <1>0 DEF Launched, Declared, Cases
<1>5. Evidence'
  BY <1>0 DEF IInv, Evidence, NoGuest
<1>6. StraightPath'
  BY <1>0, <1>1 DEF StraightPath, S
<1> QED
  BY <1>2, <1>3, <1>4, <1>5, <1>6 DEF IInv

-----------------------------------------------------------------------------
\* Before the first run no test has made a file.
LEMMA InitInvariant == Init => IInv
<1> SUFFICES ASSUME Init PROVE IInv
  OBVIOUS
<1>1. N = 0 /\ pc = "idle" /\ plan = <<>> /\ guest = NoGuest /\ i = 1 /\ profile = Declared
  BY DEF Init, N
<1>7. (\A k \in 1..N : FALSE) /\ report = NoReport
  <2>1. report = NoReport
    BY DEF Init
  <2> QED
    BY <1>1, <2>1
<1>2. TypeOK
  <2>1. /\ guest \in [state : {"none", "up", "held"}, digest : {"none", "real", "flipped"},
                      report : Reports \cup {NoReport}]
        /\ profile \in [digest : {"none", "real", "flipped"}, smt : BOOLEAN, abi : {"ok", "max"}]
    BY DEF Init, NoGuest, Declared
  <2>2. /\ results \in [1..N -> {"none", "pass", "bad", "skip"}]
        /\ why \in [1..N -> Launches \cup {"none"}]
    <3>1. results = <<>> /\ why = <<>>
      BY DEF Init
    <3>2. <<>> \in [1..0 -> {"none"}]
      OBVIOUS
    <3> QED
      BY <1>1, <3>1, <3>2
  <2>3. i \in 1..N + 1 /\ faults \in 0..MaxFaults /\ run \in 0..MaxRuns
    <3>1. faults = 0 /\ run = 0
      BY DEF Init
    <3> QED
      BY <1>1, <3>1, RunsAssumption
  <2>4. \A k \in 1..N : why[k] # "none" => plan[k].op = "launch"
    BY <1>1
  <2> QED
    BY <1>1, <2>1, <2>2, <2>3, <2>4 DEF Init, TypeOK
<1>3. Progress
  BY <1>1, <1>7 DEF Progress
<1>4. Launched
  BY <1>1, <1>7 DEF Launched, Declared
<1>5. Evidence
  BY <1>1, <1>7 DEF Evidence, NoGuest
<1>6. StraightPath
  BY <1>1, <1>7 DEF StraightPath
<1> QED
  BY <1>2, <1>3, <1>4, <1>5, <1>6 DEF IInv

\* Every step keeps the invariant.
LEMMA NextInvariant == IInv /\ [Next]_vars => IInv'
<1> SUFFICES ASSUME IInv, [Next]_vars PROVE IInv'
  OBVIOUS
<1>1. CASE Next
  BY <1>1, CheckingSteps, MeasureStep, GenerateStep, SetStep, LaunchStep, ReportStep, PullStep,
     StopStep, WorldSteps, StartStep DEF Next, Steps
<1>2. CASE UNCHANGED vars
  <2>1. /\ UNCHANGED <<platform, host, metadata, smt, run, pc, plan, i, results, profile,
                       measured, report, guest, why, faults>>
        /\ N' = N
    BY <1>2 DEF vars, N
  <2>2. TypeOK'
    <3>1. NoGuest' = NoGuest
      BY DEF NoGuest
    <3>2. /\ guest' \in [state : {"none", "up", "held"}, digest : {"none", "real", "flipped"},
                         report : Reports \cup {NoReport}]
          /\ guest'.state = "none" => guest' = NoGuest
      BY <2>1, StateFacts
    <3>3. /\ why' \in [1..N' -> Launches \cup {"none"}]
          /\ \A k \in 1..N' : why'[k] # "none" => plan'[k].op = "launch"
      BY <2>1, StateFacts
    <3>4. /\ results' \in [1..N' -> {"none", "pass", "bad", "skip"}]
          /\ i' \in 1..N' + 1 /\ plan' \in {<<>>, PlanFor(TRUE), PlanFor(FALSE)}
          /\ measured' \in {"missing", "malformed", "valid"}
          /\ profile' \in [digest : {"none", "real", "flipped"}, smt : BOOLEAN, abi : {"ok", "max"}]
          /\ report' \in Reports \cup {NoReport}
      BY <2>1 DEF IInv, TypeOK
    <3>5. /\ platform' \in [refuses : SUBSET Cases, binds : BOOLEAN]
          /\ host' \in Hosts /\ metadata' \in {"smt", "no smt", "unusable"}
          /\ smt' \in BOOLEAN /\ faults' \in 0..MaxFaults
          /\ run' \in 0..MaxRuns /\ pc' \in {"idle", "running", "returned"}
      BY <2>1 DEF IInv, TypeOK
    <3> QED
      BY <3>1, <3>2, <3>3, <3>4, <3>5 DEF TypeOK
  <2>6. Progress'
    BY <2>1 DEF IInv, Progress, StepType, S
  <2>3. Launched'
    BY <2>1 DEF IInv, Launched, Passes, Says, Expected
  <2>4. Evidence'
    <3>1. ReadReport' = ReadReport /\ NoGuest' = NoGuest
      BY <2>1 DEF ReadReport, NoGuest
    <3> QED
      BY <2>1, <3>1 DEF IInv, Evidence
  <2>5. StraightPath'
    BY <2>1 DEF IInv, StraightPath, Undisturbed, HasCase, PolicySmt, StepType, S, NoGuest, ProfileOf,
       Regenerated
  <2> QED
    BY <2>2, <2>3, <2>4, <2>5, <2>6 DEF IInv
<1> QED
  BY <1>1, <1>2

\* The inductive invariant holds in every state of every behaviour.
THEOREM Invariant == Spec => []IInv
<1>1. Init => IInv
  BY InitInvariant
<1>2. IInv /\ [Next]_vars => IInv'
  BY NextInvariant
<1> QED
  BY <1>1, <1>2, PTL DEF Spec

\* Types; a guest that was given up leaves nothing behind, and only launches are judged as one.
THEOREM TypeCorrect == Spec => []TypeOK
<1>1. IInv => TypeOK
  BY DEF IInv
<1> QED
  BY <1>1, Invariant, PTL

\* Where the launch of a case stands.
LEMMA LaunchAtFacts ==
    ASSUME NEW c, HasCase(c)
    PROVE  LaunchAt(c) \in 1..N /\ plan[LaunchAt(c)] = S("launch", c)
BY DEF HasCase, LaunchAt

\* The launch with the valid block is the third step of every plan.
LEMMA ValidLaunch ==
    ASSUME TypeOK, plan # <<>>
    PROVE  LaunchAt("valid") = 3
<1>1. N \in {14, 16} /\ plan[3] = S("launch", "valid")
  BY Shape
<1>2. HasCase("valid")
  <2>1. 3 \in 1..N
    BY <1>1
  <2> QED
    BY <1>1, <2>1 DEF HasCase
<1> QED
  BY <1>2, LaunchAtFacts, Order

\* The texts that a launch is judged by belong to one way of ending, but for the one of
\* LAUNCH_START.
LEMMA PassesMeans ==
    ASSUME NEW c \in Cases, NEW w, Passes(c, w)
    PROVE  w = c \/ (c = "smt" /\ w \in {"abi", "launch-start"})
<1>1. c \in {"digest", "smt", "abi"} /\ Expected[c] \in Says(w)
  BY DEF Passes, Cases
<1>2. CASE c = "digest"
  BY <1>1, <1>2 DEF Expected, Says
<1>3. CASE c = "smt"
  BY <1>1, <1>3 DEF Expected, Says
<1>4. CASE c = "abi"
  BY <1>1, <1>4 DEF Expected, Says
<1> QED
  BY <1>1, <1>2, <1>3, <1>4

\* A passed launch of a case was refused for what the platform refuses.
LEMMA CasesRefused == IInv => RefusedForItsCase
<1> SUFFICES ASSUME IInv, NEW c \in Cases, HasCase(c), results[LaunchAt(c)] = "pass"
             PROVE  /\ why[LaunchAt(c)] \in {c} \cup (IF c = "smt" THEN {"launch-start"} ELSE {})
                    /\ why[LaunchAt("valid")] = "booted"
  BY DEF RefusedForItsCase
<1> DEFINE k == LaunchAt(c)
<1>1. k \in 1..N /\ plan[k] = S("launch", c)
  BY LaunchAtFacts
<1> HIDE DEF k
<1>2. plan # <<>> /\ TypeOK /\ N \in {14, 16}
  <2>1. plan # <<>>
    BY <1>1 DEF N
  <2> QED
    BY <2>1, Shape DEF IInv
<1>3. plan[k].op = "launch" /\ plan[k].case = c
  BY <1>1 DEF S
<1>4. Passes(c, why[k]) /\ (why[k] = "abi" => c = "abi")
  BY <1>1, <1>3 DEF IInv, Launched, k
<1>5. k > 3
  <2>1. /\ plan[k].op = "measure" <=> k = 1
        /\ plan[k].op = "generate" <=> k = 2
        /\ plan[k] = S("launch", "valid") <=> k = 3
    BY <1>1, <1>2, Order
  <2>2. plan[k] # S("launch", "valid")
    BY <1>3 DEF S, Cases
  <2>3. k \notin {1, 2, 3} /\ k \in Nat /\ k > 0
    BY <1>1, <1>2, <1>3, <2>1, <2>2
  <2> QED
    BY <2>3
<1>6. results[3] = "pass"
  <2>1. 3 \in 1..N /\ StepType(plan[3]) = "setup"
    BY <1>2, Order
  <2> QED
    BY <1>1, <1>5, <2>1 DEF IInv, Progress, k
<1>7. why[3] = "booted"
  <2>1. 3 \in 1..N /\ plan[3].op = "launch" /\ plan[3].case = "valid"
    BY <1>2, Shape DEF S
  <2>2. Passes("valid", why[3])
    BY <1>6, <2>1 DEF IInv, Launched
  <2> QED
    BY <2>2 DEF Passes
<1>8. why[k] = c \/ (c = "smt" /\ why[k] \in {"abi", "launch-start"})
  BY <1>4, PassesMeans
<1> QED
  BY <1>2, <1>4, <1>7, <1>8, ValidLaunch DEF k

\* A refused launch passes only when the platform refused it for the defect of its own case,
\* having accepted the same guest without it.
THEOREM RefusedForTheirCases == Spec => []RefusedForItsCase
BY CasesRefused, Invariant, PTL

\* What it takes to read a report on the machine it comes from.
LEMMA ReadMeans ==
    ASSUME NEW machine, NEW version \in Nat, NEW cpuid,
           ReadOn(machine, ReportFile(machine, version, cpuid)).error = "none"
    PROVE  ResolveGeneration(machine) # Unknown /\ version >= 2
<1> DEFINE file == ReportFile(machine, version, cpuid)
<1>1. ResolveGeneration(machine) # Unknown
  BY DEF ReadOn, Refused
<1>2. Parse(file, ResolveGeneration(machine)).error = "none"
  BY <1>1 DEF ReadOn
<1>3. file.size = REPORT_SIZE /\ file.version = version
  BY DEF ReportFile
<1> HIDE DEF file
<1>4. ~(version < 2)
  BY <1>2, <1>3 DEF Parse, Refused
<1> QED
  BY <1>1, <1>4

\* What a run that passes has behind it.
LEMMA PassedFacts ==
    ASSUME IInv, Passed
    PROVE  /\ plan # <<>> /\ TypeOK /\ N \in {14, 16}
           /\ \A k \in 1..N : plan[k].op \notin {"stop", "note"} => results[k] = "pass"
           /\ report # NoReport /\ report.run = run /\ report.block /\ ReadReport.error = "none"
           /\ why[LaunchAt("valid")] = "booted"
<1>1. plan # <<>> /\ TypeOK /\ N \in {14, 16}
  <2>1. plan # <<>>
    BY DEF IInv, Progress, Passed
  <2> QED
    BY <2>1, Shape DEF IInv
<1>2. \A k \in 1..N : plan[k].op \notin {"stop", "note"} => results[k] = "pass"
  BY <1>1, Order DEF Passed
<1>3. /\ 3 \in 1..N /\ plan[3].op = "launch" /\ plan[3].case = "valid"
      /\ 5 \in 1..N /\ plan[5].op = "pull" /\ 7 \in 1..N /\ plan[7].op = "verify"
  BY <1>1, Shape DEF S
<1>4. report # NoReport /\ report.run = run /\ report.block /\ ReadReport.error = "none"
  BY <1>2, <1>3 DEF IInv, Evidence
<1>5. Passes("valid", why[3])
  BY <1>2, <1>3 DEF IInv, Launched
<1>6. why[3] = "booted"
  BY <1>5 DEF Passes
<1> QED
  BY <1>1, <1>2, <1>4, <1>6, ValidLaunch

\* What a pass certifies: the platform binds the ID block into reports the parser could read
\* there, and refuses every defect that was tried.
THEOREM PassesMeanEnforced == Spec => []PassMeansEnforced
<1>1. IInv => PassMeansEnforced
  <2> SUFFICES ASSUME IInv, Passed PROVE PassMeansEnforced
    BY DEF PassMeansEnforced
  <2>1. platform.binds
    BY PassedFacts DEF IInv, Evidence
  <2>2. ResolveGeneration(host.cpu) # Unknown /\ host.version >= 2
    <3>1. host \in [cpu : Machines, version : Versions, zeroed : BOOLEAN]
      BY HostAssumption DEF IInv, TypeOK
    <3>2. host.version \in Nat
      BY <3>1 DEF Versions
    <3> QED
      BY <3>2, PassedFacts, ReadMeans DEF ReadReport
  <2>3. HasCase("digest") /\ HasCase("abi")
    <3>1. plan # <<>> /\ TypeOK /\ N \in {14, 16}
      BY PassedFacts
    <3>2. 9 \in 1..N /\ plan[9] = S("launch", "digest")
      BY <3>1, Shape
    <3>3. (13 \in 1..N /\ plan[13] = S("launch", "abi")) \/ (15 \in 1..N /\ plan[15] = S("launch", "abi"))
      BY <3>1, Shape
    <3> QED
      BY <3>2, <3>3 DEF HasCase
  <2>4. ASSUME NEW c \in Cases, HasCase(c)
        PROVE  /\ why[LaunchAt(c)] \in {c} \cup (IF c = "smt" THEN {"launch-start"} ELSE {})
               /\ why[LaunchAt(c)] = c => c \in platform.refuses
    <3>1. LaunchAt(c) \in 1..N /\ plan[LaunchAt(c)] = S("launch", c)
      BY <2>4, LaunchAtFacts
    <3>2. results[LaunchAt(c)] = "pass"
      BY <3>1, PassedFacts DEF S
    <3> QED
      BY <2>4, <3>1, <3>2, CasesRefused DEF RefusedForItsCase, IInv, Launched
  <2>5. {"digest", "abi"} \subseteq platform.refuses
    BY <2>3, <2>4 DEF Cases
  <2>6. HasCase("smt") => "smt" \in platform.refuses \/ why[LaunchAt("smt")] = "launch-start"
    BY <2>4 DEF Cases
  <2> QED
    BY <2>1, <2>2, <2>5, <2>6 DEF PassMeansEnforced
<1> QED
  BY <1>1, Invariant, PTL

\* A run that passes was judged on the report of its own guest.
THEOREM PassesRestOnThisGuest == Spec => []PassRestsOnThisGuest
<1>1. IInv => PassRestsOnThisGuest
  BY PassedFacts DEF PassRestsOnThisGuest
<1> QED
  BY <1>1, Invariant, PTL

\* On a platform that enforces everything, a run in which nothing else failed passes.
THEOREM NoFalseAlarms == Spec => []NoFalseAlarm
<1>1. IInv => NoFalseAlarm
  <2> SUFFICES ASSUME IInv, Undisturbed, pc = "returned" PROVE Passed
    BY DEF NoFalseAlarm, Undisturbed
  <2>1. plan # <<>> /\ N \in {14, 16} /\ i = N + 1
    <3>1. plan # <<>> /\ i = N + 1
      BY DEF IInv, Progress
    <3> QED
      BY <3>1, Shape DEF IInv
  <2> QED
    BY <2>1 DEF IInv, StraightPath, Passed
<1> QED
  BY <1>1, Invariant, PTL

-----------------------------------------------------------------------------
\* The parser, for every machine, host and version, those outside its table included: a TCB
\* that is decoded from a report of version 3 or later with a CPUID of use is the machine's.
THEOREM NeverGuessed ==
    ASSUME NEW machine \in Nat \X Nat, NEW other \in Nat \X Nat, NEW version \in Nat,
           NEW cpuid \in {machine, Zeroed}
    PROVE  LET r == Parse(ReportFile(machine, version, cpuid), ResolveGeneration(other))
           IN  r.error = "none" =>
                  r.tcb \in {Undecoded, TcbOf(machine)} \/ version < 3 \/ r.cpuidNote
<1> DEFINE file == ReportFile(machine, version, cpuid)
           gen  == ResolveGeneration(other)
           own  == ReportGeneration(file)
           used == IF gen # Unknown THEN gen ELSE own
<1>1. /\ file.size = REPORT_SIZE /\ file.version = version /\ file.cpuid = cpuid
      /\ file.tcb = Bytes(TcbOf(machine), LayoutOf(machine))
  BY DEF ReportFile
<1>2. own # Unknown => own = ResolveGeneration(machine) /\ own.layout = LayoutOf(machine)
  BY <1>1, ZeroedUnknown, LayoutKnown DEF ReportGeneration
<1>3. (version < 2 \/ (gen # Unknown /\ own # Unknown /\ own # gen)) =>
         Parse(file, gen).error \in {"version", "cpu"}
  BY <1>1 DEF Parse, Refused
<1>4. ~(version < 2) /\ ~(gen # Unknown /\ own # Unknown /\ own # gen) =>
         Parse(file, gen) = Decoded(file, used)
  BY <1>1 DEF Parse
<1>5. own = Unknown /\ version >= 3 => Decoded(file, used).cpuidNote
  BY <1>1 DEF Decoded
<1>6. own # Unknown /\ used = own => Decoded(file, used).tcb = TcbOf(machine)
  BY <1>1, <1>2, BytesRead DEF Decoded
<1> HIDE DEF file, gen, own, used
<1>7. Parse(file, gen).error = "none" =>
         Parse(file, gen).tcb \in {Undecoded, TcbOf(machine)} \/ version < 3 \/ Parse(file, gen).cpuidNote
  <2> SUFFICES ASSUME Parse(file, gen).error = "none", version >= 3
               PROVE  Parse(file, gen).tcb = TcbOf(machine) \/ Parse(file, gen).cpuidNote
    OBVIOUS
  <2>1. Parse(file, gen) = Decoded(file, used) /\ (gen # Unknown /\ own # Unknown => own = gen)
    BY <1>3, <1>4
  <2>2. CASE own = Unknown
    BY <1>5, <2>1, <2>2
  <2>3. CASE own # Unknown
    <3>1. used = own
      BY <2>1, <2>3 DEF used
    <3> QED
      BY <1>6, <2>1, <2>3, <3>1
  <2> QED
    BY <2>2, <2>3
<1> QED
  BY <1>7 DEF file, gen

\* The parser's promise as the runs check it, on the machines at the edges of its table.
THEOREM ReportsRight == Spec => []ReportsDecodedRight
<1>1. Machines \subseteq Nat \X Nat /\ Versions \subseteq Nat /\ Zeroed \in Nat \X Nat
  BY DEF Machines, Versions, Zeroed
<1>2. LayoutNeverGuessed
  <2> SUFFICES ASSUME NEW machine \in Machines, NEW version \in Versions, NEW zeroed \in BOOLEAN
               PROVE  LET file == ReportFile(machine, version, IF zeroed THEN Zeroed ELSE machine)
                      IN  /\ \A h \in Machines \cup {Zeroed} :
                               LET r == Parse(file, ResolveGeneration(h))
                               IN  r.error = "none" =>
                                      r.tcb \in {Undecoded, TcbOf(machine)} \/ version < 3 \/ r.cpuidNote
                          /\ LET r == ReadOn(machine, file)
                             IN  version >= 2 /\ ResolveGeneration(machine) # Unknown =>
                                    r.error = "none" /\ r.tcb = TcbOf(machine)
    BY DEF LayoutNeverGuessed
  <2>1. (IF zeroed THEN Zeroed ELSE machine) \in {machine, Zeroed}
    OBVIOUS
  <2> QED
    BY <1>1, <2>1, NeverGuessed, OwnReportRead
<1>3. ReportsDecodedRight
  BY <1>2 DEF ReportsDecodedRight
<1> QED
  BY <1>3, PTL
=============================================================================
