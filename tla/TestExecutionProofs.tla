------------------------ MODULE TestExecutionProofs ------------------------
(* Proofs about TestExecution for every set of tests, profiles and QEMU    *)
(* processes.                                                              *)
EXTENDS TestExecution, TLAPS

\* The steps of a plan are a sequence of step records.
LEMMA PlanType ==
    ASSUME plan \in Plans
    PROVE  /\ N \in Nat
           /\ \A k \in 1..N : plan.steps[k] \in Steps
BY PlanAssumption DEF N

\* Appending a result keeps the ledger: what Record writes is typed, results
\* stay a prefix, a failed setup step closes the test and the running verdict
\* stays the fold of the results.
LEMMA RecordLedger ==
    ASSUME TypeOK, Ledger, i \in 1..N, verdict = "none",
           NEW r \in {"pass", "fail", "error"}, Record(r),
           plan' = plan, verdict' = verdict,
           \A k \in 1..N : k # i => served'[k] = served[k]
    PROVE  /\ pc' = "loop"
           /\ i' \in 1..N' + 1
           /\ results' \in [1..N' -> Results \cup {"none"}]
           /\ overall' \in {"pass", "fail"}
           /\ Ledger'
<1> DEFINE stop == r \in Bad /\ Step.type = "setup"
<1>1. /\ N' = N /\ N \in Nat
      /\ plan.steps[i].type \in Types
      /\ i \in Nat
  BY PlanType DEF N, TypeOK, Steps
<1>2. /\ pc' = "loop"
      /\ i' = IF stop THEN N + 1 ELSE i + 1
      /\ overall' = IF r \in Bad /\ Step.type \in {"setup", "required"}
                    THEN "fail" ELSE overall
      /\ \A k \in 1..N : results'[k] = IF k = i THEN r
                                       ELSE IF k > i /\ stop THEN "skip"
                                       ELSE results[k]
      /\ results' = [k \in 1..N |-> IF k = i THEN r
                                    ELSE IF k > i /\ stop THEN "skip"
                                    ELSE results[k]]
  BY DEF Record
<1> HIDE DEF stop
<1>3. stop \in BOOLEAN /\ (stop <=> r \in Bad /\ plan.steps[i].type = "setup")
  BY DEF stop, Step
<1>4. i' \in 1..N' + 1 /\ overall' \in {"pass", "fail"}
  BY <1>1, <1>2, <1>3 DEF TypeOK
<1>5. results' \in [1..N' -> Results \cup {"none"}]
  BY <1>1, <1>2 DEF TypeOK, Results
<1>6. \A k \in 1..N : ~SetupFailed(k)
  BY <1>1 DEF Ledger
<1>7. \A k \in 1..N : SetupFailed(k)' <=> k = i /\ stop
  BY <1>1, <1>2, <1>3, <1>6 DEF SetupFailed, Bad
<1>8. \A k \in 1..N : results'[k] = "none" <=> k >= i'
  BY <1>1, <1>2, <1>3 DEF Ledger
<1>9. \A k \in 1..N : results'[k] \in {"none", "skip"} => served'[k] = NoVM
  BY <1>1, <1>2 DEF Ledger
<1>10. \A k \in 1..N : SetupFailed(k)' =>
          i' = N + 1 /\ \A l \in k+1..N : results'[l] = "skip"
  BY <1>1, <1>2, <1>7
<1>11. \A k \in 1..N : results'[k] = "skip" => \E j \in 1..k-1 : SetupFailed(j)'
  <2> SUFFICES ASSUME NEW k \in 1..N, results'[k] = "skip"
               PROVE  \E j \in 1..k-1 : SetupFailed(j)'
    OBVIOUS
  <2>1. k > i /\ stop
    <3>1. results[k] # "skip"
      BY <1>1, <1>6 DEF Ledger
    <3> QED BY <1>1, <1>2, <3>1
  <2>2. PICK h \in 1..N : h = i
    OBVIOUS
  <2>3. h \in 1..k-1 /\ SetupFailed(h)'
    BY <1>1, <1>7, <2>1, <2>2
  <2> QED BY <2>3
<1>12. (overall' = "pass") <=>
          \A k \in 1..N : k < i' /\ plan.steps[k].type # "info" => results'[k] = "pass"
  <2>1. (overall = "pass") <=>
          \A k \in 1..N : k < i /\ plan.steps[k].type # "info" => results[k] = "pass"
    BY DEF Ledger
  <2>2. i < i'
    BY <1>1, <1>2
  <2>3. CASE r \in Bad /\ plan.steps[i].type # "info"
    <3>1. overall' = "fail"
      BY <1>1, <1>2, <2>3 DEF Step, Types
    <3>2. results'[i] # "pass"
      BY <1>1, <1>2, <2>3 DEF Bad
    <3> QED BY <1>1, <2>2, <2>3, <3>1, <3>2
  <2>4. CASE ~(r \in Bad /\ plan.steps[i].type # "info")
    <3>1. overall' = overall /\ ~stop /\ i' = i + 1
      BY <1>1, <1>2, <1>3, <2>4 DEF Step
    <3>2. plan.steps[i].type # "info" => results'[i] = "pass"
      BY <1>1, <1>2, <2>4 DEF Bad
    <3>3. \A k \in 1..N : k < i => results'[k] = results[k]
      BY <1>1, <1>2
    <3> QED BY <1>1, <2>1, <3>1, <3>2, <3>3
  <2> QED BY <2>3, <2>4
<1> QED
  BY <1>1, <1>2, <1>4, <1>5, <1>8, <1>9, <1>10, <1>11, <1>12 DEF Ledger, N

\* An action that ends a step with Record keeps types, control and ledger,
\* provided that it leaves the loop with no process in flight and no handler.
LEMMA RecordStep ==
    ASSUME TypeOK, Control, Ledger, i \in 1..N, outcome = "none",
           NEW r \in {"pass", "fail", "error"}, Record(r),
           plan' = plan, exitVars' = exitVars,
           served' \in [1..N -> VM \cup {NoVM}],
           \A k \in 1..N : k # i => served'[k] = served[k],
           ctxProfile' \in Profiles \cup {NoProfile},
           profile' \in Profiles \cup {NoProfile},
           launch' \in VM \cup {NoVM}, launchOk' \in BOOLEAN, flight' = NoVM,
           vmVars' = vmVars, handler' = "idle", osKnown' \in BOOLEAN
    PROVE  TypeOK' /\ Control' /\ Ledger'
<1>1. verdict = "none" /\ verdict' = verdict /\ outcome' = "none" /\ N' = N
  BY DEF TypeOK, exitVars, N
<1>2. /\ pc' = "loop"
      /\ i' \in 1..N' + 1
      /\ results' \in [1..N' -> Results \cup {"none"}]
      /\ overall' \in {"pass", "fail"}
      /\ Ledger'
  BY <1>1, RecordLedger
<1>3. TypeOK'
  BY <1>1, <1>2 DEF TypeOK, vmVars
<1>4. Control'
  BY <1>1, <1>2 DEF Control, InStep, Stopping
<1> QED BY <1>2, <1>3, <1>4

\* A step that appends no result leaves the ledger as it is; only the verdict
\* may change, to the running one when the loop is over.
LEMMA LedgerKept ==
    ASSUME TypeOK, Ledger, plan' = plan, stepVars' = stepVars, served' = served,
           \/ verdict' = verdict
           \/ verdict' \notin {"pass", "fail"}
           \/ i = N + 1 /\ verdict' = overall
    PROVE  Ledger'
BY DEF Ledger, SetupFailed, N, stepVars

\* The harness's actions that end a step.
LEMMA RecordingActions ==
    ASSUME IInv,
           \/ RefuseStep \/ RejectProfile \/ QemuDiedAtOnce \/ GuestNotBooted
           \/ GuestAnswers \/ GuestStepError \/ HostStepEnds \/ HandlerResult
           \/ PoolShutDown
    PROVE  TypeOK' /\ Control' /\ Ledger'
<1> USE DEF IInv
<1>1. \A code \in {0, 1}, says \in BOOLEAN : Judge(code, says) \in {"pass", "fail", "error"}
  BY DEF Judge
<1>2. CASE RefuseStep
  <2>1. i \in 1..N /\ outcome = "none" /\ flight = NoVM /\ handler = "idle"
    BY <1>2, PlanType DEF RefuseStep, AtStep, TypeOK, Control, Stopping
  <2>2. Record("error")
    BY <1>2 DEF RefuseStep
  <2> QED BY <1>2, <2>1, <2>2, RecordStep
          DEF RefuseStep, TypeOK, ctxVars, vmVars, ownVars, exitVars
<1>3. CASE RejectProfile
  <2>1. i \in 1..N /\ outcome = "none" /\ flight = NoVM /\ handler = "idle"
    BY <1>3 DEF RejectProfile, TypeOK, Control, InStep, Stopping
  <2>2. \E r \in {"pass", "fail", "error"} : Record(r)
    BY <1>3 DEF RejectProfile, LaunchRejected
  <2> QED BY <1>3, <2>1, <2>2, RecordStep
          DEF RejectProfile, TypeOK, ctxVars, vmVars, ownVars, exitVars
<1>4. CASE QemuDiedAtOnce
  <2>1. i \in 1..N /\ outcome = "none" /\ handler = "idle"
    BY <1>4 DEF QemuDiedAtOnce, TypeOK, Control, InStep, Stopping
  <2>2. \E r \in {"pass", "fail", "error"} : Record(r)
    BY <1>4 DEF QemuDiedAtOnce, LaunchRejected
  <2> QED BY <1>4, <2>1, <2>2, RecordStep
          DEF QemuDiedAtOnce, TypeOK, ctxVars, vmVars, exitVars
<1>5. CASE GuestNotBooted
  <2>1. i \in 1..N /\ outcome = "none" /\ handler = "idle"
    BY <1>5 DEF GuestNotBooted, TypeOK, Control, InStep, Stopping
  <2>2. \E r \in {"pass", "fail", "error"} : Record(r)
    BY <1>1, <1>5 DEF GuestNotBooted
  <2> QED BY <1>5, <2>1, <2>2, RecordStep
          DEF GuestNotBooted, LaunchReturns, TypeOK, ctxVars, vmVars, exitVars
<1>6. CASE GuestAnswers
  <2>1. i \in 1..N /\ outcome = "none" /\ flight = NoVM /\ handler = "idle"
    BY <1>6 DEF GuestAnswers, TypeOK, Control, InStep, Stopping
  <2>2. \E r \in {"pass", "fail", "error"} : Record(r)
    BY <1>1, <1>6 DEF GuestAnswers
  <2>3. /\ served' \in [1..N -> VM \cup {NoVM}]
        /\ \A k \in 1..N : k # i => served'[k] = served[k]
    BY <1>6, <2>1 DEF GuestAnswers, TypeOK
  <2> QED BY <1>6, <2>1, <2>2, <2>3, RecordStep
          DEF GuestAnswers, TypeOK, ctxVars, vmVars, ownVars, exitVars
<1>7. CASE GuestStepError
  <2>1. i \in 1..N /\ outcome = "none" /\ flight = NoVM /\ handler = "idle"
    BY <1>7 DEF GuestStepError, TypeOK, Control, InStep, Stopping
  <2>2. Record("error")
    BY <1>7 DEF GuestStepError
  <2> QED BY <1>7, <2>1, <2>2, RecordStep
          DEF GuestStepError, TypeOK, ctxVars, vmVars, ownVars, exitVars
<1>8. CASE HostStepEnds
  <2>1. i \in 1..N /\ outcome = "none" /\ flight = NoVM /\ handler = "idle"
    BY <1>8 DEF HostStepEnds, TypeOK, Control, InStep, Stopping
  <2>2. \E r \in {"pass", "fail", "error"} : Record(r)
    BY <1>1, <1>8 DEF HostStepEnds
  <2> QED BY <1>8, <2>1, <2>2, RecordStep
          DEF HostStepEnds, TypeOK, ctxVars, vmVars, ownVars, exitVars
<1>9. CASE HandlerResult
  <2>1. i \in 1..N /\ outcome = "none" /\ flight = NoVM /\ handler' = "idle"
    BY <1>9 DEF HandlerResult, TypeOK, Control, InStep, Stopping
  <2>2. \E r \in {"pass", "fail", "error"} : Record(r)
    BY <1>1, <1>9 DEF HandlerResult
  <2> QED BY <1>9, <2>1, <2>2, RecordStep
          DEF HandlerResult, TypeOK, vmVars, ownVars, exitVars
<1>10. CASE PoolShutDown
  <2>1. i \in 1..N /\ outcome = "none" /\ flight = NoVM /\ handler' = "idle"
    BY <1>10 DEF PoolShutDown, TypeOK, Control, InStep, Stopping
  <2>2. Record("error")
    BY <1>10 DEF PoolShutDown
  <2> QED BY <1>10, <2>1, <2>2, RecordStep
          DEF PoolShutDown, TypeOK, vmVars, ownVars, exitVars
<1> QED BY <1>2, <1>3, <1>4, <1>5, <1>6, <1>7, <1>8, <1>9, <1>10

\* The actions that move the main thread, a handler or QEMU inside a step.
LEMMA MovingActions ==
    ASSUME IInv,
           \/ LoadPlan \/ SpawnQemu \/ QemuSurvived \/ GuestBooted \/ HandlerTimeout
           \/ JournalFetched \/ Terminate \/ WaitTimeout
           \/ HandlerSetsProfile \/ HandlerEnds \/ QemuBoots \/ QemuExits
    PROVE  TypeOK' /\ Control' /\ Ledger'
<1> USE DEF IInv
<1>1. CASE LoadPlan
  <2>1. Ledger'
    BY <1>1, LedgerKept DEF LoadPlan, exitVars
  <2>2. TypeOK'
    BY <1>1, ProfileAssumption DEF LoadPlan, TypeOK, N, ctxVars, stepVars, vmVars, ownVars, exitVars
  <2>3. Control'
    BY <1>1 DEF LoadPlan, Control, InStep, Stopping, N, ctxVars, stepVars, vmVars, ownVars, exitVars
  <2> QED BY <2>1, <2>2, <2>3
<1>2. CASE SpawnQemu
  <2>1. Ledger'
    BY <1>2, LedgerKept DEF SpawnQemu, exitVars
  <2>2. TypeOK'
    BY <1>2 DEF SpawnQemu, TypeOK, N, ctxVars, stepVars, vmVars, ownVars, exitVars
  <2>3. Control'
    BY <1>2, VMAssumption DEF SpawnQemu, Control, TypeOK, InStep, Stopping, N, ctxVars, stepVars, vmVars, ownVars, exitVars
  <2> QED BY <2>1, <2>2, <2>3
<1>3. CASE QemuSurvived
  <2>1. Ledger'
    BY <1>3, LedgerKept DEF QemuSurvived, exitVars
  <2>2. TypeOK'
    BY <1>3 DEF QemuSurvived, TypeOK, N, ctxVars, stepVars, vmVars, ownVars, exitVars
  <2>3. Control'
    BY <1>3 DEF QemuSurvived, Control, InStep, Stopping, N, ctxVars, stepVars, vmVars, ownVars, exitVars
  <2> QED BY <2>1, <2>2, <2>3
<1>4. CASE GuestBooted
  <2>1. Ledger'
    BY <1>4, LedgerKept DEF GuestBooted, exitVars
  <2>2. TypeOK'
    BY <1>4 DEF GuestBooted, TypeOK, N, ctxVars, stepVars, vmVars, ownVars, exitVars, LaunchReturns
  <2>3. Control'
    BY <1>4 DEF GuestBooted, Control, InStep, Stopping, N, ctxVars, stepVars, vmVars, ownVars, exitVars, LaunchReturns
  <2> QED BY <2>1, <2>2, <2>3
<1>5. CASE HandlerTimeout
  <2>1. Ledger'
    BY <1>5, LedgerKept DEF HandlerTimeout, exitVars
  <2>2. TypeOK'
    BY <1>5 DEF HandlerTimeout, TypeOK, N, ctxVars, stepVars, vmVars, ownVars, exitVars
  <2>3. Control'
    BY <1>5 DEF HandlerTimeout, Control, InStep, Stopping, N, ctxVars, stepVars, vmVars, ownVars, exitVars
  <2> QED BY <2>1, <2>2, <2>3
<1>6. CASE JournalFetched
  <2>1. Ledger'
    BY <1>6, LedgerKept DEF JournalFetched, exitVars
  <2>2. TypeOK'
    BY <1>6 DEF JournalFetched, TypeOK, N, ctxVars, stepVars, vmVars, ownVars, exitVars
  <2>3. Control'
    BY <1>6 DEF JournalFetched, Control, TypeOK, InStep, Stopping, N, ctxVars, stepVars, vmVars, ownVars, exitVars
  <2> QED BY <2>1, <2>2, <2>3
<1>7. CASE Terminate
  <2>1. Ledger'
    BY <1>7, LedgerKept DEF Terminate, exitVars
  <2>2. TypeOK'
    BY <1>7 DEF Terminate, TypeOK, N, ctxVars, stepVars, vmVars, ownVars, exitVars
  <2>3. Control'
    BY <1>7 DEF Terminate, Control, InStep, Stopping, N, ctxVars, stepVars, vmVars, ownVars, exitVars
  <2> QED BY <2>1, <2>2, <2>3
<1>8. CASE WaitTimeout
  <2>1. Ledger'
    BY <1>8, LedgerKept DEF WaitTimeout, exitVars
  <2>2. TypeOK'
    BY <1>8 DEF WaitTimeout, TypeOK, N, ctxVars, stepVars, vmVars, ownVars, exitVars
  <2>3. Control'
    BY <1>8 DEF WaitTimeout, Control, InStep, Stopping, N, ctxVars, stepVars, vmVars, ownVars, exitVars
  <2> QED BY <2>1, <2>2, <2>3
<1>9. CASE HandlerSetsProfile
  <2>1. Ledger'
    BY <1>9, LedgerKept DEF HandlerSetsProfile, exitVars
  <2>2. TypeOK'
    BY <1>9 DEF HandlerSetsProfile, TypeOK, N, ctxVars, stepVars, vmVars, ownVars, exitVars
  <2>3. Control'
    BY <1>9 DEF HandlerSetsProfile, Control, InStep, Stopping, N, ctxVars, stepVars, vmVars, ownVars, exitVars
  <2> QED BY <2>1, <2>2, <2>3
<1>10. CASE HandlerEnds
  <2>1. Ledger'
    BY <1>10, LedgerKept DEF HandlerEnds, exitVars
  <2>2. TypeOK'
    BY <1>10 DEF HandlerEnds, TypeOK, N, ctxVars, stepVars, vmVars, ownVars, exitVars
  <2>3. Control'
    BY <1>10 DEF HandlerEnds, Control, InStep, Stopping, N, ctxVars, stepVars, vmVars, ownVars, exitVars
  <2> QED BY <2>1, <2>2, <2>3
<1>11. CASE QemuBoots
  <2>1. Ledger'
    BY <1>11, LedgerKept DEF QemuBoots, exitVars
  <2>2. TypeOK'
    BY <1>11 DEF QemuBoots, TypeOK, N, ctxVars, stepVars, vmVars, ownVars, exitVars
  <2>3. Control'
    BY <1>11 DEF QemuBoots, Control, InStep, Stopping, N, ctxVars, stepVars, vmVars, ownVars, exitVars
  <2> QED BY <2>1, <2>2, <2>3
<1>12. CASE QemuExits
  <2>1. Ledger'
    BY <1>12, LedgerKept DEF QemuExits, exitVars
  <2>2. TypeOK'
    BY <1>12 DEF QemuExits, TypeOK, N, ctxVars, stepVars, vmVars, ownVars, exitVars
  <2>3. Control'
    BY <1>12 DEF QemuExits, Control, InStep, Stopping, N, ctxVars, stepVars, vmVars, ownVars, exitVars
  <2> QED BY <2>1, <2>2, <2>3
<1> QED BY <1>1, <1>2, <1>3, <1>4, <1>5, <1>6, <1>7, <1>8, <1>9, <1>10, <1>11, <1>12

\* The actions that enter a step or leave the try block.
LEMMA BranchingActions ==
    ASSUME IInv,
           LoadFails \/ BeginStep \/ Finish \/ KillTimeout \/ Escape
    PROVE  TypeOK' /\ Control' /\ Ledger'
<1> USE DEF IInv
<1>1. CASE LoadFails
  <2>1. Ledger'
    BY <1>1, PlanType, LedgerKept DEF LoadFails, exitVars, TypeOK
  <2>2. TypeOK'
    BY <1>1 DEF LoadFails, Unwind, TypeOK, Control, Stopping, N, ctxVars, stepVars, vmVars, ownVars, exitVars
  <2>3. Control'
    BY <1>1, PlanType DEF LoadFails, AtStep, Unwind, TypeOK, Control, InStep, Stopping,
       N, ctxVars, stepVars, vmVars, ownVars, exitVars
  <2> QED BY <2>1, <2>2, <2>3
<1>2. CASE BeginStep
  <2>1. Ledger'
    BY <1>2, PlanType, LedgerKept DEF BeginStep, exitVars, TypeOK
  <2>2. TypeOK'
    BY <1>2 DEF BeginStep, Unwind, TypeOK, Control, Stopping, N, ctxVars, stepVars, vmVars, ownVars, exitVars
  <2>3. Control'
    BY <1>2, PlanType DEF BeginStep, AtStep, Unwind, TypeOK, Control, InStep, Stopping,
       N, ctxVars, stepVars, vmVars, ownVars, exitVars
  <2> QED BY <2>1, <2>2, <2>3
<1>3. CASE Finish
  <2>1. Ledger'
    BY <1>3, PlanType, LedgerKept DEF Finish, exitVars, TypeOK
  <2>2. TypeOK'
    BY <1>3 DEF Finish, Unwind, TypeOK, Control, Stopping, N, ctxVars, stepVars, vmVars, ownVars, exitVars
  <2>3. Control'
    BY <1>3, PlanType DEF Finish, AtStep, Unwind, TypeOK, Control, InStep, Stopping,
       N, ctxVars, stepVars, vmVars, ownVars, exitVars
  <2> QED BY <2>1, <2>2, <2>3
<1>4. CASE KillTimeout
  <2>1. Ledger'
    BY <1>4, PlanType, LedgerKept DEF KillTimeout, exitVars, TypeOK
  <2>2. TypeOK'
    BY <1>4 DEF KillTimeout, Unwind, TypeOK, Control, Stopping, N, ctxVars, stepVars, vmVars, ownVars, exitVars
  <2>3. Control'
    BY <1>4, PlanType DEF KillTimeout, AtStep, Unwind, TypeOK, Control, InStep, Stopping,
       N, ctxVars, stepVars, vmVars, ownVars, exitVars
  <2> QED BY <2>1, <2>2, <2>3
<1>5. CASE Escape
  <2>1. Ledger'
    BY <1>5, PlanType, LedgerKept DEF Escape, exitVars, TypeOK
  <2>2. TypeOK'
    BY <1>5 DEF Escape, Unwind, TypeOK, Control, Stopping, N, ctxVars, stepVars, vmVars, ownVars, exitVars
  <2>3. Control'
    BY <1>5, PlanType DEF Escape, AtStep, Unwind, TypeOK, Control, InStep, Stopping,
       N, ctxVars, stepVars, vmVars, ownVars, exitVars
  <2> QED BY <2>1, <2>2, <2>3
<1> QED BY <1>1, <1>2, <1>3, <1>4, <1>5

\* The actions with one branch that ends a step and one that does not.
LEMMA MixedActions ==
    ASSUME IInv,
           CallHandler \/ GuestOsRead \/ TerminateFails \/ QemuStopped
    PROVE  TypeOK' /\ Control' /\ Ledger'
<1> USE DEF IInv
<1>1. \A says \in BOOLEAN : Judge(0, says) \in {"pass", "fail", "error"}
  BY DEF Judge
<1>2. CASE CallHandler
  <2>1. i \in 1..N /\ outcome = "none" /\ flight = NoVM /\ handler = "idle"
    BY <1>2, PlanType DEF CallHandler, AtStep, TypeOK, Control, Stopping
  <2>2. CASE Record("error") /\ UNCHANGED handler
    BY <1>2, <2>1, <2>2, RecordStep
       DEF CallHandler, TypeOK, vmVars, ownVars, exitVars
  <2>3. CASE handler' = "running" /\ pc' = "callable" /\ UNCHANGED stepVars
    <3>1. Ledger'
      BY <1>2, <2>3, LedgerKept DEF CallHandler, exitVars
    <3>2. TypeOK'
      BY <1>2, <2>3 DEF CallHandler, TypeOK, N, stepVars, vmVars, ownVars, exitVars
    <3>3. Control'
      BY <1>2, <2>1, <2>3 DEF CallHandler, Control, InStep, Stopping, N, stepVars,
         ownVars, exitVars
    <3> QED BY <3>1, <3>2, <3>3
  <2> QED BY <1>2, <2>2, <2>3 DEF CallHandler
<1>3. CASE GuestOsRead
  <2>1. i \in 1..N /\ outcome = "none" /\ flight = NoVM /\ handler = "idle"
    BY <1>3 DEF GuestOsRead, TypeOK, Control, InStep, Stopping
  <2>2. CASE \E says \in BOOLEAN : Record(Judge(0, says))
    <3>1. PICK r \in {"pass", "fail", "error"} : Record(r)
      BY <1>1, <2>2
    <3> QED BY <1>3, <2>1, <3>1, RecordStep
            DEF GuestOsRead, TypeOK, ctxVars, vmVars, ownVars, exitVars
  <2>3. CASE pc' = "guest" /\ UNCHANGED stepVars
    <3>1. Ledger'
      BY <1>3, <2>3, LedgerKept DEF GuestOsRead, exitVars
    <3>2. TypeOK'
      BY <1>3, <2>3 DEF GuestOsRead, TypeOK, N, ctxVars, stepVars, vmVars, ownVars,
         exitVars
    <3>3. Control'
      BY <1>3, <2>1, <2>3 DEF GuestOsRead, Control, InStep, Stopping, N, ctxVars,
         stepVars, ownVars, exitVars
    <3> QED BY <3>1, <3>2, <3>3
  <2> QED BY <1>3, <2>2, <2>3 DEF GuestOsRead
<1>4. CASE TerminateFails
  <2>1. flight = NoVM /\ handler = "idle"
    BY <1>4 DEF TerminateFails, TypeOK, Control, Stopping
  <2>2. CASE outcome = "none" /\ Record("error") /\ UNCHANGED exitVars
    <3>1. i \in 1..N
      BY <1>4, <2>2 DEF TerminateFails, Control, Stopping
    <3> QED BY <1>4, <2>1, <2>2, <3>1, RecordStep
            DEF TerminateFails, TypeOK, ctxVars, ownVars
  <2>3. CASE /\ outcome # "none" /\ outcome' = "raise" /\ pc' = "done"
             /\ verdict' = "none" /\ UNCHANGED stepVars
    <3>1. Ledger'
      BY <1>4, <2>3, LedgerKept DEF TerminateFails
    <3>2. TypeOK'
      BY <1>4, <2>3 DEF TerminateFails, TypeOK, N, ctxVars, stepVars, vmVars, ownVars
    <3>3. Control'
      BY <1>4, <2>1, <2>3 DEF TerminateFails, Control, InStep, Stopping, N, ctxVars,
         stepVars, ownVars
    <3> QED BY <3>1, <3>2, <3>3
  <2> QED BY <1>4, <2>2, <2>3 DEF TerminateFails
<1>5. CASE QemuStopped
  <2>1. flight = NoVM /\ handler = "idle"
    BY <1>5 DEF QemuStopped, TypeOK, Control, Stopping
  <2>2. CASE /\ outcome = "none"
             /\ \E says \in BOOLEAN : Record(Judge(0, says))
             /\ launch' = NoVM /\ launchOk' = FALSE
    <3>1. i \in 1..N
      BY <1>5, <2>2 DEF QemuStopped, Control, Stopping
    <3>2. PICK r \in {"pass", "fail", "error"} : Record(r)
      BY <1>1, <2>2
    <3> QED BY <1>5, <2>1, <2>2, <3>1, <3>2, RecordStep
            DEF QemuStopped, TypeOK, ctxVars
  <2>3. CASE outcome # "none" /\ pc' = "done" /\ UNCHANGED <<stepVars, launch, launchOk>>
    <3>1. Ledger'
      BY <1>5, <2>3, LedgerKept DEF QemuStopped, exitVars
    <3>2. TypeOK'
      BY <1>5, <2>3 DEF QemuStopped, TypeOK, N, ctxVars, stepVars, vmVars, exitVars
    <3>3. Control'
      BY <1>5, <2>1, <2>3 DEF QemuStopped, Control, InStep, Stopping, N, ctxVars,
         stepVars, exitVars
    <3> QED BY <3>1, <3>2, <3>3
  <2> QED BY <1>5, <2>2, <2>3 DEF QemuStopped
<1> QED BY <1>2, <1>3, <1>4, <1>5

\* No step makes a second guest: a process is spawned only while "launch" is
\* empty and every other process is over, and the reference to a process that
\* may run is dropped only by an exception or when the process has exited.
LEMMA OneGuestStep ==
    ASSUME IInv, Next
    PROVE  OneGuest'
<1> USE DEF IInv
<1>1. CASE \/ LoadPlan \/ LoadFails \/ RefuseStep \/ BeginStep
           \/ Finish \/ RejectProfile \/ QemuSurvived \/ GuestOsRead
           \/ GuestAnswers \/ GuestStepError \/ HostStepEnds \/ CallHandler
           \/ HandlerResult \/ HandlerTimeout \/ PoolShutDown \/ JournalFetched
           \/ Terminate \/ TerminateFails \/ WaitTimeout \/ KillTimeout
           \/ HandlerSetsProfile \/ HandlerEnds
  <2>1. UNCHANGED <<qemu, launch, flight>> /\ (outcome = "raise" => outcome' = "raise")
    BY <1>1 DEF Control, Stopping, Unwind,
       LoadPlan, LoadFails, RefuseStep, BeginStep, Finish, RejectProfile,
       QemuSurvived, GuestOsRead, GuestAnswers, GuestStepError, HostStepEnds,
       CallHandler, HandlerResult, HandlerTimeout, PoolShutDown,
       JournalFetched, Terminate, TerminateFails, WaitTimeout, KillTimeout,
       HandlerSetsProfile, HandlerEnds,
       ctxVars, vmVars, ownVars, exitVars
  <2> QED BY <2>1 DEF OneGuest, Alive
<1>2. CASE SpawnQemu
  <2>1. PICK v \in VM : qemu' = [qemu EXCEPT ![v] = "booting"] /\ flight' = v
    BY <1>2 DEF SpawnQemu
  <2>2. \A w \in VM : ~Alive(w)
    BY <1>2, VMAssumption DEF SpawnQemu, Control, OneGuest, Stopping
  <2> QED BY <2>1, <2>2, VMAssumption DEF OneGuest, Alive, TypeOK
<1>3. CASE QemuDiedAtOnce
  <2>1. \A w \in VM : ~Alive(w)
    BY <1>3, VMAssumption DEF QemuDiedAtOnce, Control, OneGuest, Stopping
  <2>2. qemu' = qemu
    BY <1>3 DEF QemuDiedAtOnce, vmVars
  <2> QED BY <2>1, <2>2 DEF OneGuest, Alive
<1>4. CASE GuestBooted \/ GuestNotBooted
  BY <1>4 DEF GuestBooted, GuestNotBooted, LaunchReturns, OneGuest, Control, Alive,
     vmVars, exitVars
<1>5. CASE QemuStopped
  <2>1. flight = NoVM /\ flight' = flight /\ qemu' = qemu /\ outcome' = outcome
    BY <1>5 DEF QemuStopped, Control, Stopping, vmVars, exitVars
  <2>2. outcome # "raise" => \A w \in VM : ~Alive(w)
    BY <1>5, <2>1 DEF QemuStopped, OneGuest
  <2> QED BY <2>1, <2>2 DEF OneGuest, Alive
<1>6. CASE Escape
  BY <1>6 DEF Escape, Unwind, OneGuest
<1>7. CASE QemuBoots \/ QemuExits
  <2>1. UNCHANGED <<launch, flight, outcome>>
    BY <1>7 DEF QemuBoots, QemuExits, ownVars, exitVars
  <2>2. \A w \in VM : Alive(w)' => Alive(w)
    BY <1>7 DEF QemuBoots, QemuExits, Alive, TypeOK
  <2> QED BY <2>1, <2>2 DEF OneGuest
<1> QED BY <1>1, <1>2, <1>3, <1>4, <1>5, <1>6, <1>7 DEF Next, Harness

\* The call returns only when the guest it owns, the only one, is over.
LEMMA TornDownStep ==
    ASSUME IInv, Next
    PROVE  TornDown'
<1> USE DEF IInv
<1> SUFFICES ASSUME pc' = "done", outcome' = "return", NEW v \in VM
             PROVE  ~Alive(v)'
  BY DEF TornDown
<1>1. CASE LoadFails \/ Finish
  <2>1. launch = NoVM /\ flight = NoVM /\ outcome = "none" /\ qemu' = qemu
    BY <1>1, VMAssumption
       DEF LoadFails, Finish, Unwind, Control, Stopping, vmVars
  <2> QED BY <2>1, VMAssumption DEF OneGuest, Alive
<1>2. CASE QemuStopped
  <2>1. flight = NoVM /\ outcome = "return" /\ qemu' = qemu /\ ~Alive(launch)
    BY <1>2 DEF QemuStopped, Control, Stopping, vmVars, exitVars
  <2> QED BY <2>1 DEF OneGuest, Alive
<1>3. CASE QemuBoots \/ QemuExits
  <2>1. pc = "done" /\ outcome = "return"
    BY <1>3 DEF QemuBoots, QemuExits, exitVars
  <2>2. Alive(v)' => Alive(v)
    BY <1>3 DEF QemuBoots, QemuExits, Alive, TypeOK
  <2> QED BY <2>1, <2>2 DEF TornDown
<1>4. CASE HandlerSetsProfile \/ HandlerEnds
  BY <1>4 DEF HandlerSetsProfile, HandlerEnds, Control
<1>5. CASE \/ LoadPlan \/ RefuseStep \/ BeginStep \/ RejectProfile
           \/ QemuSurvived \/ GuestOsRead \/ GuestAnswers \/ GuestStepError
           \/ HostStepEnds \/ CallHandler \/ HandlerResult \/ HandlerTimeout
           \/ PoolShutDown \/ JournalFetched \/ Terminate \/ TerminateFails
           \/ WaitTimeout \/ KillTimeout \/ SpawnQemu \/ QemuDiedAtOnce
           \/ GuestBooted \/ GuestNotBooted \/ Escape
  <2>1. pc' # "done" \/ outcome' = "raise"
    BY <1>5 DEF Record, Unwind, LaunchRejected, Control, Stopping,
       LoadPlan, RefuseStep, BeginStep, RejectProfile, QemuSurvived,
       GuestOsRead, GuestAnswers, GuestStepError, HostStepEnds, CallHandler,
       HandlerResult, HandlerTimeout, PoolShutDown, JournalFetched, Terminate,
       TerminateFails, WaitTimeout, KillTimeout, SpawnQemu, QemuDiedAtOnce,
       GuestBooted, GuestNotBooted, Escape
  <2> QED BY <2>1
<1> QED BY <1>1, <1>2, <1>3, <1>4, <1>5 DEF Next, Harness

\* A step that appends no result, spawns nothing and takes nothing from "launch" changes
\* nothing about which guest served which step.
LEMMA ContinuityKept ==
    ASSUME IInv, plan' = plan, stepVars' = stepVars, served' = served, launch' = launch,
           flight' = flight \/ flight' = NoVM,
           \A v \in VM : qemu[v] # "none" => qemu'[v] # "none",
           outcome' = "none" /\ pc' \in InStep \cup Stopping =>
               ((Step.kind = "vm_stop") <=> pc' \in {"journal"} \cup Stopping)
    PROVE  Continuity'
<1>1. /\ N' = N /\ Step' = Step /\ UNCHANGED <<i, results, served, launch>>
      /\ served \in [1..N -> VM \cup {NoVM}] /\ launch \in VM \cup {NoVM}
      /\ flight \in VM \cup {NoVM}
  BY DEF IInv, TypeOK, N, Step, stepVars
<1>2. \A m : GaveUp(m)' <=> GaveUp(m)
  BY <1>1 DEF GaveUp
<1>3. \A v \in {launch', flight'} \ {NoVM} : qemu'[v] # "none"
  BY <1>1 DEF IInv, Continuity
<1>4. ASSUME NEW k \in 1..N, served[k] # NoVM
      PROVE  /\ qemu'[served[k]] # "none" /\ served[k] # flight'
             /\ (served[k] = launch) <=> ~\E m \in k+1..i-1 : GaveUp(m)
  BY <1>1, <1>4 DEF IInv, Continuity
<1>5. GuestContinuity'
  BY <1>1 DEF IInv, Continuity, GuestContinuity
<1> QED
  BY <1>1, <1>2, <1>3, <1>4, <1>5 DEF Continuity

\* A step that appends a result either leaves "launch" as it is, or makes it the guest that
\* was in flight, and is not a vm_stop that worked; or it is one and gives the guest up.
LEMMA RecordContinuity ==
    ASSUME IInv, i \in 1..N, NEW r \in {"pass", "fail", "error"}, Record(r),
           plan' = plan, flight' = NoVM, qemu' = qemu,
           served' \in [1..N -> VM \cup {NoVM}],
           \A k \in 1..N : k # i => served'[k] = served[k],
           \/ /\ launch' = launch /\ (Step.kind # "vm_stop" \/ r = "error")
              /\ served'[i] # NoVM => served'[i] = launch /\ Step.kind # "vm_stop"
           \/ /\ launch = NoVM /\ launch' = flight /\ flight # NoVM
              /\ Step.kind # "vm_stop" /\ served'[i] = NoVM
           \/ /\ launch' = NoVM /\ served'[i] = NoVM
              /\ Step.kind = "vm_stop" /\ r # "error"
    PROVE  Continuity'
<1> DEFINE Stopped == Step.kind = "vm_stop" /\ r # "error"
<1>1. /\ N' = N /\ N \in Nat /\ i \in Nat /\ pc' = "loop"
      /\ served \in [1..N -> VM \cup {NoVM}] /\ launch \in VM \cup {NoVM}
      /\ flight \in VM \cup {NoVM} /\ Stopped \in BOOLEAN
  BY PlanType DEF IInv, TypeOK, N, Record
<1>2. /\ i' = i + 1 \/ i' = N + 1
      /\ results'[i] = r
      /\ \A k \in 1..i-1 : results'[k] = results[k]
      /\ \A k \in i+1..N : results'[k] \in {"none", "skip"}
  BY <1>1 DEF Record, IInv, Ledger
<1>0. PICK h \in 1..N : h = i
  OBVIOUS
<1>3. /\ \A m \in 1..i-1 : GaveUp(m)' <=> GaveUp(m)
      /\ GaveUp(h)' <=> Stopped
      /\ \A m \in i+1..N : ~GaveUp(m)'
  <2>1. \A m \in 1..i-1 : GaveUp(m)' <=> GaveUp(m)
    BY <1>2 DEF GaveUp
  <2>2. GaveUp(h)' <=> Stopped
    BY <1>0, <1>2 DEF GaveUp, Step
  <2>3. \A m \in i+1..N : ~GaveUp(m)'
    BY <1>2 DEF GaveUp
  <2> QED
    BY <2>1, <2>2, <2>3
<1>4. \A k \in 1..N : served[k] # NoVM => k < i
  BY <1>1 DEF IInv, Ledger
<1>5. \A k \in 1..N : k > i => served'[k] = NoVM
  BY <1>1, <1>4
<1> HIDE DEF Stopped
<1>6. ASSUME NEW k \in 1..N, k <= i
      PROVE  (\E m \in k+1..i'-1 : GaveUp(m)') <=>
                 (\E m \in k+1..i-1 : GaveUp(m)) \/ (k < i /\ Stopped)
  <2>1. ASSUME NEW m \in k+1..i-1, GaveUp(m)
        PROVE  m \in k+1..i'-1 /\ GaveUp(m)'
    BY <1>1, <1>2, <1>3, <2>1
  <2>2. ASSUME k < i, Stopped
        PROVE  h \in k+1..i'-1 /\ GaveUp(h)'
    BY <1>0, <1>1, <1>2, <1>3, <2>2
  <2>3. ASSUME NEW m \in k+1..i'-1, GaveUp(m)'
        PROVE  (m \in k+1..i-1 /\ GaveUp(m)) \/ (k < i /\ Stopped)
    <3>1. m \in 1..N /\ m > k
      BY <1>1, <1>2
    <3>2. m <= i
      BY <1>1, <1>3, <2>3, <3>1
    <3>3. CASE m = i
      BY <1>0, <1>3, <2>3, <3>1, <3>3
    <3>4. CASE m < i
      BY <1>1, <1>3, <2>3, <3>1, <3>4
    <3> QED
      BY <1>1, <3>1, <3>2, <3>3, <3>4
  <2> QED
    BY <2>1, <2>2, <2>3
<1>7. ASSUME NEW k \in 1..N, k < i, served[k] # NoVM
      PROVE  /\ qemu[served[k]] # "none" /\ served[k] # flight
             /\ (served[k] = launch) <=> ~\E m \in k+1..i-1 : GaveUp(m)
  BY <1>7 DEF IInv, Continuity
<1>8. ASSUME NEW k \in 1..N, served'[k] # NoVM
      PROVE  /\ qemu'[served'[k]] # "none" /\ served'[k] # flight'
             /\ (served'[k] = launch') <=> ~\E m \in k+1..i'-1 : GaveUp(m)'
  <2>1. CASE k = i
    <3>1. launch' = launch /\ served'[k] = launch /\ launch # NoVM /\ ~Stopped
      BY <1>8, <2>1 DEF Stopped
    <3>2. qemu[launch] # "none"
      BY <3>1 DEF IInv, Continuity
    <3>3. ~\E m \in k+1..i-1 : GaveUp(m)
      BY <1>1, <2>1
    <3> QED
      BY <1>6, <1>8, <2>1, <3>1, <3>2, <3>3
  <2>2. CASE k # i
    <3>1. k < i /\ served'[k] = served[k] /\ served[k] \in VM
      BY <1>1, <1>4, <1>8, <2>2
    <3>2. /\ qemu[served[k]] # "none" /\ served[k] # flight
          /\ (served[k] = launch) <=> ~\E m \in k+1..i-1 : GaveUp(m)
      BY <1>7, <1>8, <3>1
    <3>3. (\E m \in k+1..i'-1 : GaveUp(m)') <=> (\E m \in k+1..i-1 : GaveUp(m)) \/ Stopped
      BY <1>1, <1>6, <3>1
    <3>4. CASE launch' = launch /\ ~Stopped
      BY <1>8, <3>1, <3>2, <3>3, <3>4
    <3>5. CASE launch = NoVM /\ launch' = flight /\ ~Stopped
      BY <1>8, <3>1, <3>2, <3>3, <3>5
    <3>6. CASE launch' = NoVM /\ Stopped
      BY <1>8, <3>1, <3>2, <3>3, <3>6
    <3> QED
      BY <3>4, <3>5, <3>6 DEF Stopped
  <2> QED
    BY <2>1, <2>2
<1>9. \A v \in {launch', flight'} \ {NoVM} : qemu'[v] # "none"
  BY DEF IInv, Continuity
<1>10. GuestContinuity'
  <2> SUFFICES ASSUME NEW k \in 1..N, NEW l \in 1..N, k < l,
                      served'[k] # NoVM, served'[l] # NoVM
               PROVE  (served'[k] = served'[l]) <=>
                        ~\E m \in k+1..l-1 : /\ plan.steps[m].kind = "vm_stop"
                                             /\ results'[m] # "error"
    BY <1>1 DEF GuestContinuity
  <2>1. l <= i /\ k < i /\ served'[k] = served[k] /\ served[k] # NoVM
    BY <1>1, <1>4
  <2>2. \A m \in k+1..l-1 : results'[m] = results[m]
    BY <1>1, <1>2, <2>1
  <2>3. CASE l # i
    <3>1. served'[l] = served[l]
      BY <2>3
    <3>2. (served[k] = served[l]) <=>
              ~\E m \in k+1..l-1 : plan.steps[m].kind = "vm_stop" /\ results[m] # "error"
      BY <2>1, <3>1 DEF IInv, Continuity, GuestContinuity
    <3> QED
      BY <2>1, <2>2, <3>1, <3>2
  <2>4. CASE l = i
    <3>1. served'[l] = launch
      BY <2>4
    <3>2. (served[k] = launch) <=> ~\E m \in k+1..i-1 : GaveUp(m)
      BY <1>7, <2>1
    <3>3. \A m \in k+1..i-1 : m \in 1..N /\ results[m] \notin {"none", "skip"}
      <4>1. \A m \in 1..N : SetupFailed(m) => i = N + 1
        BY DEF IInv, Ledger
      <4>2. \A m \in 1..N : results[m] # "skip"
        BY <1>1, <4>1 DEF IInv, Ledger
      <4> QED
        BY <1>1, <4>2 DEF IInv, Ledger
    <3>4. \A m \in k+1..i-1 : results[m] # "error" <=> results[m] \in {"pass", "fail"}
      BY <3>3 DEF IInv, TypeOK, Results
    <3> QED
      BY <2>1, <2>2, <2>4, <3>1, <3>2, <3>4 DEF GaveUp
  <2> QED
    BY <2>3, <2>4
<1>11. pc' \notin InStep \cup Stopping
  BY <1>1 DEF InStep, Stopping
<1> QED
  BY <1>1, <1>8, <1>9, <1>10, <1>11 DEF Continuity

\* The actions that append a result.
LEMMA RecordingContinuity ==
    ASSUME IInv,
           \/ RefuseStep \/ RejectProfile \/ QemuDiedAtOnce \/ GuestNotBooted
           \/ GuestAnswers \/ GuestStepError \/ HostStepEnds \/ HandlerResult
           \/ PoolShutDown
    PROVE  Continuity'
<1>1. \A code \in {0, 1}, says \in BOOLEAN : Judge(code, says) \in {"pass", "fail", "error"}
  BY DEF Judge
<1>2. /\ served \in [1..N -> VM \cup {NoVM}]
      /\ i \in 1..N => served[i] = NoVM
      /\ launch \in VM \cup {NoVM} /\ i \in Nat
  BY PlanType DEF IInv, TypeOK, Ledger
<1>3. CASE RefuseStep
  <2>1. i \in 1..N /\ flight = NoVM /\ Record("error")
    BY <1>3, PlanType DEF RefuseStep, AtStep, IInv, TypeOK, Control
  <2> QED
    BY <1>2, <1>3, <2>1, RecordContinuity DEF RefuseStep, vmVars, ownVars
<1>4. CASE RejectProfile
  <2>1. i \in 1..N /\ flight = NoVM /\ Step.kind # "vm_stop"
    BY <1>4 DEF RejectProfile, IInv, Control, Continuity, InStep, Stopping
  <2>2. PICK r \in {"pass", "fail", "error"} : Record(r)
    BY <1>4 DEF RejectProfile, LaunchRejected
  <2> QED
    BY <1>2, <1>4, <2>1, <2>2, RecordContinuity DEF RejectProfile, vmVars, ownVars
<1>5. CASE QemuDiedAtOnce
  <2>1. i \in 1..N /\ Step.kind # "vm_stop"
    BY <1>5 DEF QemuDiedAtOnce, IInv, Control, Continuity, InStep, Stopping
  <2>2. PICK r \in {"pass", "fail", "error"} : Record(r)
    BY <1>5 DEF QemuDiedAtOnce, LaunchRejected
  <2> QED
    BY <1>2, <1>5, <2>1, <2>2, RecordContinuity DEF QemuDiedAtOnce, vmVars
<1>6. CASE GuestNotBooted
  <2>1. i \in 1..N /\ Step.kind # "vm_stop" /\ launch = NoVM /\ flight # NoVM
    BY <1>6 DEF GuestNotBooted, IInv, Control, Continuity, InStep, Stopping
  <2>2. PICK r \in {"pass", "fail", "error"} : Record(r)
    BY <1>1, <1>6 DEF GuestNotBooted
  <2> QED
    BY <1>2, <1>6, <2>1, <2>2, RecordContinuity DEF GuestNotBooted, LaunchReturns, vmVars
<1>7. CASE GuestAnswers
  <2>1. i \in 1..N /\ flight = NoVM /\ Step.kind # "vm_stop"
    BY <1>7 DEF GuestAnswers, IInv, Control, Continuity, InStep, Stopping
  <2>2. PICK r \in {"pass", "fail", "error"} : Record(r)
    BY <1>1, <1>7 DEF GuestAnswers
  <2>3. /\ served' \in [1..N -> VM \cup {NoVM}] /\ served'[i] = launch
        /\ \A k \in 1..N : k # i => served'[k] = served[k]
    BY <1>2, <1>7, <2>1 DEF GuestAnswers
  <2> QED
    BY <1>2, <1>7, <2>1, <2>2, <2>3, RecordContinuity DEF GuestAnswers, vmVars, ownVars
<1>8. CASE GuestStepError
  <2>1. i \in 1..N /\ flight = NoVM /\ Record("error")
    BY <1>8 DEF GuestStepError, IInv, Control, InStep, Stopping
  <2> QED
    BY <1>2, <1>8, <2>1, RecordContinuity DEF GuestStepError, vmVars, ownVars
<1>9. CASE HostStepEnds
  <2>1. i \in 1..N /\ flight = NoVM /\ Step.kind # "vm_stop"
    BY <1>9 DEF HostStepEnds, IInv, Control, Continuity, InStep, Stopping
  <2>2. PICK r \in {"pass", "fail", "error"} : Record(r)
    BY <1>1, <1>9 DEF HostStepEnds
  <2> QED
    BY <1>2, <1>9, <2>1, <2>2, RecordContinuity DEF HostStepEnds, vmVars, ownVars
<1>10. CASE HandlerResult
  <2>1. i \in 1..N /\ flight = NoVM /\ Step.kind # "vm_stop"
    BY <1>10 DEF HandlerResult, IInv, Control, Continuity, InStep, Stopping
  <2>2. PICK r \in {"pass", "fail", "error"} : Record(r)
    BY <1>1, <1>10 DEF HandlerResult
  <2> QED
    BY <1>2, <1>10, <2>1, <2>2, RecordContinuity DEF HandlerResult, vmVars, ownVars
<1>11. CASE PoolShutDown
  <2>1. i \in 1..N /\ flight = NoVM /\ Record("error")
    BY <1>11 DEF PoolShutDown, IInv, Control, InStep, Stopping
  <2> QED
    BY <1>2, <1>11, <2>1, RecordContinuity DEF PoolShutDown, vmVars, ownVars
<1> QED
  BY <1>3, <1>4, <1>5, <1>6, <1>7, <1>8, <1>9, <1>10, <1>11

\* The guest of a launch becomes the one the test owns; none of the steps before it was
\* served by that process.
LEMMA LaunchingContinuity ==
    ASSUME IInv, SpawnQemu \/ GuestBooted
    PROVE  Continuity'
<1>1. /\ N' = N /\ Step' = Step /\ UNCHANGED <<plan, i, results, served, outcome>>
      /\ served \in [1..N -> VM \cup {NoVM}] /\ launch = NoVM
      /\ outcome = "none" /\ Step.kind # "vm_stop" /\ flight \in VM \cup {NoVM}
      /\ pc' \in {"spawned", "osinfo"}
  BY DEF SpawnQemu, GuestBooted, LaunchReturns, IInv, TypeOK, Control, Continuity, InStep, Stopping,
         N, Step, stepVars, exitVars
<1>2. \A m : GaveUp(m)' <=> GaveUp(m)
  BY <1>1 DEF GaveUp
<1>3. GuestContinuity'
  BY <1>1 DEF IInv, Continuity, GuestContinuity
<1>4. ASSUME NEW k \in 1..N, served[k] # NoVM
      PROVE  /\ served[k] \in VM /\ qemu[served[k]] # "none" /\ served[k] # flight
             /\ \E m \in k+1..i-1 : GaveUp(m)
  BY <1>1, <1>4 DEF IInv, Continuity
<1>5. CASE SpawnQemu
  <2>1. PICK v \in VM : /\ qemu[v] = "none" /\ flight' = v
                        /\ qemu' = [qemu EXCEPT ![v] = "booting"]
    BY <1>5 DEF SpawnQemu
  <2>2. launch' = NoVM
    BY <1>1, <1>5 DEF SpawnQemu
  <2>3. \A w \in VM : qemu'[w] = IF w = v THEN "booting" ELSE qemu[w]
    BY <2>1 DEF IInv, TypeOK
  <2>4. \A k \in 1..N : served[k] # NoVM =>
          /\ qemu'[served[k]] # "none" /\ served[k] # flight' /\ served[k] # launch'
          /\ \E m \in k+1..i-1 : GaveUp(m)
    BY <1>4, <2>1, <2>2, <2>3
  <2>5. \A w \in {launch', flight'} \ {NoVM} : qemu'[w] # "none"
    BY <2>1, <2>2, <2>3
  <2> QED
    BY <1>1, <1>2, <1>3, <2>4, <2>5 DEF Continuity, InStep, Stopping
<1>6. CASE GuestBooted
  <2>1. launch' = flight /\ flight' = NoVM /\ qemu' = qemu
    BY <1>6 DEF GuestBooted, LaunchReturns, vmVars
  <2>2. \A k \in 1..N : served[k] # NoVM =>
          /\ qemu'[served[k]] # "none" /\ served[k] # flight' /\ served[k] # launch'
          /\ \E m \in k+1..i-1 : GaveUp(m)
    BY <1>4, <2>1, VMAssumption
  <2>3. \A w \in {launch', flight'} \ {NoVM} : qemu'[w] # "none"
    BY <2>1 DEF IInv, Continuity
  <2> QED
    BY <1>1, <1>2, <1>3, <2>2, <2>3 DEF Continuity, InStep, Stopping
<1> QED
  BY <1>5, <1>6

\* Which guest served which step stays right through every step.
LEMMA ContinuityStep ==
    ASSUME IInv, Next
    PROVE  Continuity'
<1>0. \A says \in BOOLEAN : Judge(0, says) \in {"pass", "fail"}
  BY DEF Judge
<1>1. /\ i \in Nat /\ (i \in 1..N => served[i] = NoVM) /\ launch \in VM \cup {NoVM}
      /\ served \in [1..N -> VM \cup {NoVM}]
      /\ qemu \in [VM -> {"none", "booting", "ready", "dead"}]
  BY PlanType DEF IInv, TypeOK, Ledger
<1>2. CASE \/ LoadPlan \/ LoadFails \/ BeginStep \/ Finish \/ QemuSurvived \/ HandlerTimeout
           \/ JournalFetched \/ Terminate \/ WaitTimeout \/ KillTimeout \/ Escape
           \/ HandlerSetsProfile \/ HandlerEnds
  <2>1. /\ plan' = plan /\ stepVars' = stepVars /\ served' = served /\ launch' = launch
        /\ flight' = flight \/ flight' = NoVM
        /\ qemu' = qemu
    BY <1>2 DEF LoadPlan, LoadFails, BeginStep, Finish, QemuSurvived, HandlerTimeout,
       JournalFetched, Terminate, WaitTimeout, KillTimeout, Escape,
       HandlerSetsProfile, HandlerEnds, vmVars, ownVars
  <2>2. outcome' = "none" /\ pc' \in InStep \cup Stopping =>
               ((Step.kind = "vm_stop") <=> pc' \in {"journal"} \cup Stopping)
    <3>1. CASE BeginStep
      BY <3>1 DEF BeginStep, AtStep, InStep, Stopping
    <3>2. CASE LoadPlan
      BY <3>2 DEF LoadPlan, InStep, Stopping
    <3>3. CASE LoadFails \/ Finish \/ Escape \/ KillTimeout
      BY <3>3 DEF LoadFails, Finish, Escape, KillTimeout, Unwind
    <3>4. CASE QemuSurvived \/ HandlerTimeout
      BY <3>4 DEF QemuSurvived, HandlerTimeout, exitVars, IInv, Continuity, InStep, Stopping
    <3>5. CASE JournalFetched \/ Terminate \/ WaitTimeout
      BY <3>5 DEF JournalFetched, Terminate, WaitTimeout, exitVars, IInv, Continuity,
         InStep, Stopping
    <3>6. CASE HandlerSetsProfile \/ HandlerEnds
      BY <3>6 DEF HandlerSetsProfile, HandlerEnds, exitVars, IInv, Continuity
    <3> QED
      BY <1>2, <3>1, <3>2, <3>3, <3>4, <3>5, <3>6
  <2> QED
    BY <2>1, <2>2, ContinuityKept
<1>3. CASE QemuBoots \/ QemuExits
  <2>1. /\ plan' = plan /\ stepVars' = stepVars /\ served' = served /\ launch' = launch
        /\ flight' = flight /\ outcome' = outcome /\ pc' = pc
    BY <1>3 DEF QemuBoots, QemuExits, ownVars, exitVars
  <2>2. \A v \in VM : qemu[v] # "none" => qemu'[v] # "none"
    BY <1>1, <1>3 DEF QemuBoots, QemuExits
  <2> QED
    BY <2>1, <2>2, ContinuityKept DEF IInv, Continuity
<1>4. CASE \/ RefuseStep \/ RejectProfile \/ QemuDiedAtOnce \/ GuestNotBooted
           \/ GuestAnswers \/ GuestStepError \/ HostStepEnds \/ HandlerResult
           \/ PoolShutDown
  BY <1>4, RecordingContinuity
<1>5. CASE SpawnQemu \/ GuestBooted
  BY <1>5, LaunchingContinuity
<1>6. CASE CallHandler
  <2>1. i \in 1..N /\ flight = NoVM /\ Step.kind = "callable"
    BY <1>6, PlanType DEF CallHandler, AtStep, IInv, TypeOK, Control
  <2>2. CASE Record("error")
    BY <1>1, <1>6, <2>1, <2>2, RecordContinuity DEF CallHandler, vmVars, ownVars
  <2>3. CASE pc' = "callable" /\ UNCHANGED stepVars
    BY <1>6, <2>1, <2>3, ContinuityKept DEF CallHandler, vmVars, ownVars, InStep, Stopping
  <2> QED
    BY <1>6, <2>2, <2>3 DEF CallHandler
<1>7. CASE GuestOsRead
  <2>1. i \in 1..N /\ flight = NoVM /\ Step.kind # "vm_stop"
    BY <1>7 DEF GuestOsRead, IInv, Control, Continuity, InStep, Stopping
  <2>2. CASE \E says \in BOOLEAN : Record(Judge(0, says))
    <3>1. PICK r \in {"pass", "fail"} : Record(r)
      BY <1>0, <2>2
    <3> QED
      BY <1>1, <1>7, <2>1, <3>1, RecordContinuity DEF GuestOsRead, vmVars, ownVars
  <2>3. CASE pc' = "guest" /\ UNCHANGED stepVars
    BY <1>7, <2>1, <2>3, ContinuityKept DEF GuestOsRead, vmVars, ownVars, InStep, Stopping
  <2> QED
    BY <1>7, <2>2, <2>3 DEF GuestOsRead
<1>8. CASE TerminateFails
  <2>1. flight = NoVM
    BY <1>8 DEF TerminateFails, IInv, Control
  <2>2. CASE outcome = "none" /\ Record("error")
    <3>1. i \in 1..N
      BY <1>8, <2>2 DEF TerminateFails, IInv, Control, Stopping
    <3> QED
      BY <1>1, <1>8, <2>1, <2>2, <3>1, RecordContinuity DEF TerminateFails, vmVars, ownVars
  <2>3. CASE outcome' = "raise" /\ UNCHANGED stepVars
    BY <1>8, <2>1, <2>3, ContinuityKept DEF TerminateFails, vmVars, ownVars
  <2> QED
    BY <1>8, <2>2, <2>3 DEF TerminateFails
<1>9. CASE QemuStopped
  <2>1. flight = NoVM
    BY <1>9 DEF QemuStopped, IInv, Control
  <2>2. CASE /\ outcome = "none" /\ launch' = NoVM
             /\ \E says \in BOOLEAN : Record(Judge(0, says))
    <3>1. i \in 1..N /\ Step.kind = "vm_stop"
      BY <1>9, <2>2 DEF QemuStopped, IInv, Control, Continuity, Stopping
    <3>2. PICK r \in {"pass", "fail"} : Record(r)
      BY <1>0, <2>2
    <3> QED
      BY <1>1, <1>9, <2>1, <2>2, <3>1, <3>2, RecordContinuity DEF QemuStopped, vmVars
  <2>3. CASE outcome # "none" /\ pc' = "done" /\ UNCHANGED <<stepVars, launch, launchOk>>
    BY <1>9, <2>1, <2>3, ContinuityKept DEF QemuStopped, vmVars, InStep, Stopping
  <2> QED
    BY <1>9, <2>2, <2>3 DEF QemuStopped
<1> QED
  BY <1>2, <1>3, <1>4, <1>5, <1>6, <1>7, <1>8, <1>9 DEF Next, Harness

-----------------------------------------------------------------------------
\* The initial states satisfy the invariant.
LEMMA InitInvariant == Init => IInv
<1> SUFFICES ASSUME Init
             PROVE  IInv
  OBVIOUS
<1>1. N \in Nat
  BY PlanType DEF Init
<1>2. TypeOK
  <2>1. /\ i \in 1..N + 1
        /\ results \in [1..N -> Results \cup {"none"}]
        /\ served \in [1..N -> VM \cup {NoVM}]
        /\ qemu \in [VM -> {"none", "booting", "ready", "dead"}]
        /\ vmProfile \in [VM -> Profiles \cup {NoProfile}]
    BY <1>1 DEF Init
  <2> QED BY <2>1 DEF Init, TypeOK
<1>3. Control
  BY <1>1 DEF Init, Control, InStep, Stopping
<1>4. Ledger
  BY <1>1 DEF Init, Ledger, SetupFailed, Bad
<1>5. OneGuest /\ TornDown
  BY DEF Init, OneGuest, TornDown, Alive
<1>6. Continuity
  <2>1. \A k \in 1..N : served[k] = NoVM
    BY DEF Init
  <2> QED BY <2>1 DEF Init, Continuity, GuestContinuity, InStep, Stopping
<1> QED BY <1>2, <1>3, <1>4, <1>5, <1>6 DEF IInv

\* Every step keeps it.
LEMMA NextInvariant == IInv /\ [Next]_vars => IInv'
<1> SUFFICES ASSUME IInv, [Next]_vars
             PROVE  IInv'
  OBVIOUS
<1>1. CASE Next
  <2>1. TypeOK' /\ Control' /\ Ledger'
    BY <1>1, RecordingActions, MovingActions, BranchingActions, MixedActions
       DEF Next, Harness
  <2>2. OneGuest' /\ TornDown'
    BY <1>1, OneGuestStep, TornDownStep
  <2>3. Continuity'
    BY <1>1, ContinuityStep
  <2> QED BY <2>1, <2>2, <2>3 DEF IInv
<1>2. CASE UNCHANGED vars
  <2>1. TypeOK' /\ Control' /\ Ledger' /\ OneGuest' /\ TornDown'
    BY <1>2 DEF vars, IInv, TypeOK, Control, Ledger, OneGuest, TornDown, SetupFailed,
       Alive, N
  <2>2. Continuity'
    BY <1>2, ContinuityKept DEF vars, stepVars, IInv, Continuity
  <2> QED BY <2>1, <2>2 DEF IInv
<1> QED BY <1>1, <1>2

\* The invariant holds throughout, for every set of tests and of processes.
THEOREM Invariant == Spec => []IInv
BY InitInvariant, NextInvariant, PTL DEF Spec

\* Every variable keeps its type, and a verdict exists exactly after a return.
THEOREM TypeCorrect == Spec => []TypeOK
BY Invariant, PTL DEF IInv

\* Unless an exception escapes, the only QEMU process that may run is the one
\* being launched or the one "launch" refers to.
THEOREM OneGuestAlways == Spec => []OneGuest
BY Invariant, PTL DEF IInv

\* When execute_test returns, no guest it started is left running.
THEOREM TornDownOnReturn == Spec => []TornDown
BY Invariant, PTL DEF IInv

\* "pass" is returned exactly when every setup and required step passed, and a
\* step is skipped only behind a setup step that failed.
THEOREM VerdictIsSound == Spec => []VerdictSound
<1>1. IInv => VerdictSound
  <2> SUFFICES ASSUME IInv, pc = "done", verdict \in {"pass", "fail"}
               PROVE  /\ (verdict = "pass") <=>
                            \A k \in 1..N : plan.steps[k].type # "info" => results[k] = "pass"
                      /\ \A k \in 1..N : results[k] # "none"
                      /\ \A k \in 1..N : results[k] = "skip" => \E j \in 1..k-1 : SetupFailed(j)
    BY DEF VerdictSound
  <2>1. i = N + 1 /\ verdict = overall /\ N \in Nat
    BY PlanType DEF IInv, Ledger, TypeOK
  <2> QED BY <2>1 DEF IInv, Ledger
<1> QED BY <1>1, Invariant, PTL

\* Behind a setup step that failed nothing runs any more.
THEOREM SetupGateHolds == Spec => []SetupGate
<1>1. IInv => SetupGate
  <2> SUFFICES ASSUME IInv, NEW k \in 1..N, SetupFailed(k)
               PROVE  /\ \A l \in k+1..N : results[l] = "skip" /\ served[l] = NoVM
                      /\ pc \in {"loop", "stop", "terminating", "killing", "done"} /\ i > N
                      /\ handler = "idle" /\ flight = NoVM
    BY DEF SetupGate
  <2>1. N \in Nat /\ i = N + 1 /\ \A l \in k+1..N : results[l] = "skip"
    BY PlanType DEF IInv, Ledger, TypeOK
  <2>2. \A l \in k+1..N : served[l] = NoVM
    BY <2>1 DEF IInv, Ledger
  <2>3. pc \notin InStep /\ pc # "load"
    BY <2>1 DEF IInv, Control
  <2>4. pc \in {"loop", "stop", "terminating", "killing", "done"}
    BY <2>3 DEF IInv, TypeOK, InStep
  <2>5. handler = "idle" /\ flight = NoVM
    BY <2>3 DEF IInv, TypeOK, Control, InStep
  <2> QED BY <2>1, <2>2, <2>4, <2>5
<1> QED BY <1>1, Invariant, PTL

\* While a handler's thread exists the loop stands at its step: no result for
\* it yet and no guest being launched.
THEOREM HandlerIsConfined == Spec => []HandlerConfined
<1>1. IInv => HandlerConfined
  <2> SUFFICES ASSUME IInv, handler # "idle"
               PROVE  /\ pc \in {"callable", "shutdown"}
                      /\ results[i] = "none" /\ flight = NoVM
    BY DEF HandlerConfined
  <2>1. pc \in {"callable", "shutdown"} /\ flight = NoVM
    BY DEF IInv, Control
  <2>2. i \in 1..N /\ N \in Nat
    BY <2>1, PlanType DEF IInv, TypeOK, Control, InStep
  <2>3. results[i] = "none"
    BY <2>2 DEF IInv, Ledger
  <2> QED BY <2>1, <2>3
<1> QED BY <1>1, Invariant, PTL

\* Two guest steps reach the same boot of the guest exactly when no vm_stop between them
\* gave it up.
THEOREM GuestContinues == Spec => []GuestContinuity
<1>1. IInv => GuestContinuity
  BY DEF IInv, Continuity
<1> QED BY <1>1, Invariant, PTL

\* Every guest is started with the profile ctx.profile holds at that moment.
THEOREM LaunchesCurrentProfileAlways == Spec => LaunchesCurrentProfile
<1> DEFINE Fresh == \A v \in VM : qemu[v] = "none" /\ qemu'[v] # "none" =>
                                    vmProfile'[v] = ctxProfile
<1>1. IInv /\ [Next]_vars => [Fresh]_vars
  <2> SUFFICES ASSUME IInv, Next
               PROVE  Fresh
    OBVIOUS
  <2>1. CASE SpawnQemu
    <3>1. PICK v \in VM : /\ qemu' = [qemu EXCEPT ![v] = "booting"]
                          /\ vmProfile' = [vmProfile EXCEPT ![v] = profile]
      BY <2>1 DEF SpawnQemu
    <3>2. profile = ctxProfile
      BY <2>1 DEF SpawnQemu, IInv, Control
    <3> QED BY <3>1, <3>2 DEF IInv, TypeOK
  <2>2. CASE QemuBoots \/ QemuExits
    BY <2>2 DEF QemuBoots, QemuExits, Alive, IInv, TypeOK
  <2>3. CASE ~(SpawnQemu \/ QemuBoots \/ QemuExits)
    <3>1. qemu' = qemu
      BY <2>3 DEF Next, Harness, vmVars,
         LoadPlan, LoadFails, RefuseStep, BeginStep, Finish, RejectProfile,
         QemuDiedAtOnce, QemuSurvived, GuestBooted, GuestNotBooted,
         GuestOsRead, GuestAnswers, GuestStepError, HostStepEnds, CallHandler,
         HandlerSetsProfile, HandlerEnds, HandlerResult, HandlerTimeout,
         PoolShutDown, JournalFetched, Terminate, TerminateFails, QemuStopped,
         WaitTimeout, KillTimeout, Escape
    <3> QED BY <3>1
  <2> QED BY <2>1, <2>2, <2>3
<1> QED BY <1>1, Invariant, PTL DEF Spec, LaunchesCurrentProfile

-----------------------------------------------------------------------------
(* execute_test implements its contract: TestExecution refines             *)
(* TestContract, for every set of tests, profiles and QEMU processes.      *)

\* Steps of the loop that the contract does not see.
LEMMA Stutters ==
    ASSUME plan' = plan, results' = results,
           \A v \in VM : Alive(v)' <=> Alive(v),
           \/ pc # "done" /\ pc' # "done"
           \/ UNCHANGED <<pc, outcome, verdict>>
    PROVE  UNCHANGED Contract!cVars
<1>1. {v \in VM : Alive(v)}' = {v \in VM : Alive(v)}
  OBVIOUS
<1> QED
  BY <1>1 DEF Contract!cVars

\* A result that is appended is a report of the contract.
LEMMA RecordIsReport ==
    ASSUME TypeOK, Ledger, i \in 1..N, pc # "done",
           NEW r \in {"pass", "fail", "error"}, Record(r),
           plan' = plan, qemu' = qemu
    PROVE  Contract!Next
<1>1. N = Len(plan.steps) /\ N \in Nat
  BY PlanType DEF TypeOK, N
<1>2. {v \in VM : Alive(v)}' = {v \in VM : Alive(v)} /\ pc' = "loop"
  BY DEF Alive, Record
<1>3. \A j \in 1..N : results[j] = "none" <=> j >= i
  BY DEF Ledger
<1>4. results' = [j \in 1..N |-> IF j = i THEN r
                                 ELSE IF j > i /\ (plan.steps[i].type = "setup"
                                                   /\ r \in {"fail", "error"}) THEN "skip"
                                 ELSE results[j]]
  BY DEF Record, Step, Bad
<1>5. Contract!Report(i, r)
  BY <1>1, <1>2, <1>3, <1>4 DEF Contract!Report, Contract!Indices, Contract!Failing
<1> QED
  BY <1>1, <1>5 DEF Contract!Next, Contract!Indices

\* A spawned process is the first one to run: the contract's start.
LEMMA SpawnIsStart ==
    ASSUME IInv, SpawnQemu
    PROVE  Contract!Next
<1>1. PICK v \in VM : qemu' = [qemu EXCEPT ![v] = "booting"]
  BY DEF SpawnQemu
<1>2. launch = NoVM /\ flight = NoVM /\ outcome = "none" /\ i \in 1..N
  BY DEF SpawnQemu, IInv, Control, InStep, Stopping
<1>3. {w \in VM : Alive(w)} = {}
  BY <1>2, VMAssumption DEF IInv, OneGuest
<1>4. \A w \in VM : Alive(w)' <=> w = v
  BY <1>1, <1>3 DEF Alive, IInv, TypeOK
<1>5. {w \in VM : Alive(w)}' = {v}
  BY <1>4
<1>6. N \in Nat /\ \A k \in 1..N : ~SetupFailed(k)
  BY <1>2, PlanType DEF IInv, TypeOK, Ledger
<1>7. ~Contract!Blocked
  BY <1>6 DEF Contract!Blocked, Contract!Gating, Contract!Indices, Contract!Failing,
     SetupFailed, Bad, N
<1>8. UNCHANGED <<plan, results, verdict>> /\ pc # "done" /\ pc' # "done"
  BY DEF SpawnQemu, stepVars, exitVars
<1>9. Contract!Start(v)
  BY <1>3, <1>5, <1>7, <1>8 DEF Contract!Start
<1> QED
  BY <1>9 DEF Contract!Next

\* A process that exits is the contract's end of a guest; booting is not seen.
LEMMA QemuIsSeen ==
    ASSUME IInv, QemuBoots \/ QemuExits
    PROVE  [Contract!Next]_(Contract!cVars)
<1>1. UNCHANGED <<plan, results, pc, outcome, verdict>>
  BY DEF QemuBoots, QemuExits, stepVars, exitVars
<1>2. CASE QemuBoots
  <2>1. \A v \in VM : Alive(v)' <=> Alive(v)
    BY <1>2 DEF QemuBoots, Alive, IInv, TypeOK
  <2> QED
    BY <1>1, <2>1, Stutters
<1>3. CASE QemuExits
  <2>1. PICK v \in VM : Alive(v) /\ qemu' = [qemu EXCEPT ![v] = "dead"]
    BY <1>3 DEF QemuExits
  <2>2. \A w \in VM : Alive(w)' <=> Alive(w) /\ w # v
    BY <2>1 DEF Alive, IInv, TypeOK
  <2>3. {w \in VM : Alive(w)}' = {w \in VM : Alive(w)} \ {v}
    BY <2>2
  <2>4. Contract!End(v)
    BY <1>1, <2>1, <2>3 DEF Contract!End
  <2> QED
    BY <2>4 DEF Contract!Next
<1> QED
  BY <1>2, <1>3

\* execute_test returns: the contract's return, with the fold of the report or, when the
\* test did not load, with "error".
LEMMA LeavingIsReturn ==
    ASSUME IInv, IInv', pc # "done", pc' = "done", outcome' = "return",
           plan' = plan, results' = results, qemu' = qemu,
           \/ verdict' \in {"pass", "fail"}
           \/ verdict' = "error" /\ pc = "load"
    PROVE  Contract!Next
<1>1. /\ N = Len(plan.steps) /\ N \in Nat /\ N' = N
      /\ \A k \in 1..N : SetupFailed(k)' <=> SetupFailed(k)
  BY PlanType DEF IInv, TypeOK, N, SetupFailed
<1>2. \A v \in VM : ~Alive(v)
  BY DEF IInv, TornDown, Alive
<1>3. {v \in VM : Alive(v)} = {} /\ {v \in VM : Alive(v)}' = {}
  BY <1>2 DEF Alive
<1>4. CASE verdict' \in {"pass", "fail"}
  <2>1. i' = N + 1 /\ verdict' = overall' /\ i' \in Nat
    BY <1>1, <1>4 DEF IInv, Ledger
  <2>2. \A k \in 1..N : results[k] # "none"
    BY <1>1, <2>1 DEF IInv, Ledger
  <2>3. (verdict' = "pass") <=>
            \A k \in 1..N : plan.steps[k].type # "info" => results[k] = "pass"
    BY <1>1, <2>1 DEF IInv, Ledger
  <2>4. verdict' = Contract!Fold
    BY <1>1, <1>4, <2>3 DEF Contract!Fold, Contract!Indices
  <2>5. Contract!Return
    BY <1>1, <1>3, <2>2, <2>4 DEF Contract!Return, Contract!Indices
  <2> QED
    BY <2>5 DEF Contract!Next
<1>5. CASE verdict' = "error" /\ pc = "load"
  <2>1. \A k \in 1..N : results[k] = "none"
    BY <1>1, <1>5 DEF IInv, Control, Ledger
  <2>2. Contract!Return
    BY <1>1, <1>3, <1>5, <2>1 DEF Contract!Return, Contract!Indices
  <2> QED
    BY <2>2 DEF Contract!Next
<1> QED
  BY <1>4, <1>5

\* An exception out of execute_test is the contract's raise.
LEMMA LeavingIsRaise ==
    ASSUME IInv', pc # "done", pc' = "done", outcome' = "raise",
           plan' = plan, results' = results, qemu' = qemu
    PROVE  Contract!Next
<1>1. {v \in VM : Alive(v)}' = {v \in VM : Alive(v)}
  BY DEF Alive
<1>2. verdict' = "none"
  BY DEF IInv, TypeOK
<1>3. Contract!Raise
  BY <1>1, <1>2 DEF Contract!Raise
<1> QED
  BY <1>3 DEF Contract!Next

\* Every step of the loop, its guest and its handler is a step of the contract.
LEMMA StepRefines ==
    ASSUME IInv, IInv', Next
    PROVE  [Contract!Next]_(Contract!cVars)
<1>0. \A code \in {0, 1}, says \in BOOLEAN : Judge(code, says) \in {"pass", "fail", "error"}
  BY DEF Judge
<1>1. TypeOK /\ Ledger /\ pc \in InStep => i \in 1..N
  BY DEF IInv, Control
<1>2. CASE SpawnQemu
  BY <1>2, SpawnIsStart
<1>3. CASE QemuBoots \/ QemuExits
  BY <1>3, QemuIsSeen
<1>4. CASE RefuseStep \/ CallHandler
  <2>1. i \in 1..N /\ pc # "done" /\ plan' = plan /\ qemu' = qemu
    BY <1>4, PlanType DEF RefuseStep, CallHandler, AtStep, IInv, TypeOK, vmVars
  <2>2. CASE Record("error")
    BY <2>1, <2>2, RecordIsReport DEF IInv
  <2>3. CASE pc' = "callable" /\ UNCHANGED stepVars
    BY <2>1, <2>3, Stutters DEF stepVars, Alive
  <2> QED
    BY <1>4, <2>2, <2>3 DEF RefuseStep, CallHandler
<1>5. CASE \/ RejectProfile \/ QemuDiedAtOnce \/ GuestNotBooted \/ GuestAnswers \/ GuestStepError
           \/ HostStepEnds \/ HandlerResult \/ PoolShutDown
  <2>1. pc \in InStep /\ pc # "done" /\ plan' = plan /\ qemu' = qemu
    BY <1>5 DEF RejectProfile, QemuDiedAtOnce, GuestNotBooted, GuestAnswers, GuestStepError,
       HostStepEnds, HandlerResult, PoolShutDown, InStep, vmVars
  <2>2. PICK r \in {"pass", "fail", "error"} : Record(r)
    BY <1>0, <1>5 DEF RejectProfile, QemuDiedAtOnce, GuestNotBooted, GuestAnswers,
       GuestStepError, HostStepEnds, HandlerResult, PoolShutDown, LaunchRejected
  <2> QED
    BY <1>1, <2>1, <2>2, RecordIsReport DEF IInv
<1>6. CASE GuestOsRead
  <2>1. pc \in InStep /\ pc # "done" /\ plan' = plan /\ qemu' = qemu
    BY <1>6 DEF GuestOsRead, InStep, vmVars
  <2>2. CASE \E says \in BOOLEAN : Record(Judge(0, says))
    <3>1. PICK r \in {"pass", "fail", "error"} : Record(r)
      BY <1>0, <2>2
    <3> QED
      BY <1>1, <2>1, <3>1, RecordIsReport DEF IInv
  <2>3. CASE pc' = "guest" /\ UNCHANGED stepVars
    BY <2>1, <2>3, Stutters DEF stepVars, Alive
  <2> QED
    BY <1>6, <2>2, <2>3 DEF GuestOsRead
<1>7. CASE \/ LoadPlan \/ BeginStep \/ QemuSurvived \/ GuestBooted \/ HandlerTimeout
           \/ JournalFetched \/ Terminate \/ WaitTimeout
  <2>1. pc # "done" /\ pc' # "done" /\ UNCHANGED <<plan, results, qemu>>
    BY <1>7 DEF LoadPlan, BeginStep, AtStep, QemuSurvived, GuestBooted, HandlerTimeout,
       JournalFetched, Terminate, WaitTimeout, stepVars, vmVars
  <2> QED
    BY <2>1, Stutters DEF Alive
<1>8. CASE HandlerSetsProfile \/ HandlerEnds
  <2>1. UNCHANGED <<plan, results, qemu, pc, outcome, verdict>>
    BY <1>8 DEF HandlerSetsProfile, HandlerEnds, stepVars, vmVars, exitVars
  <2> QED
    BY <2>1, Stutters DEF Alive
<1>9. CASE LoadFails \/ Finish
  <2>1. /\ pc # "done" /\ outcome' = "return" /\ UNCHANGED <<plan, results, qemu>>
        /\ \/ verdict' \in {"pass", "fail"}
           \/ verdict' = "error" /\ pc = "load"
    BY <1>9 DEF LoadFails, Finish, Unwind, stepVars, vmVars, IInv, TypeOK
  <2>2. CASE pc' = "done"
    BY <2>1, <2>2, LeavingIsReturn
  <2>3. CASE pc' # "done"
    BY <2>1, <2>3, Stutters DEF Alive
  <2> QED
    BY <2>2, <2>3
<1>10. CASE TerminateFails
  <2>1. pc # "done" /\ plan' = plan /\ qemu' = qemu
    BY <1>10 DEF TerminateFails, vmVars
  <2>2. CASE outcome = "none" /\ Record("error")
    <3>1. i \in 1..N
      BY <1>10, <2>2 DEF TerminateFails, IInv, Control, Stopping
    <3> QED
      BY <1>1, <2>1, <2>2, <3>1, RecordIsReport DEF IInv
  <2>3. CASE outcome' = "raise" /\ pc' = "done" /\ UNCHANGED stepVars
    BY <2>1, <2>3, LeavingIsRaise DEF stepVars
  <2> QED
    BY <1>10, <2>2, <2>3 DEF TerminateFails
<1>11. CASE QemuStopped
  <2>1. pc # "done" /\ pc \in Stopping /\ plan' = plan /\ qemu' = qemu /\ exitVars' = exitVars
    BY <1>11 DEF QemuStopped, vmVars, Stopping
  <2>2. CASE outcome = "none" /\ \E says \in BOOLEAN : Record(Judge(0, says))
    <3>1. i \in 1..N
      BY <2>1, <2>2 DEF IInv, Control
    <3>2. PICK r \in {"pass", "fail", "error"} : Record(r)
      BY <1>0, <2>2
    <3> QED
      BY <1>1, <2>1, <3>1, <3>2, RecordIsReport DEF IInv
  <2>3. CASE outcome # "none" /\ pc' = "done" /\ UNCHANGED <<stepVars, launch, launchOk>>
    <3>1. results' = results /\ outcome' = outcome /\ verdict' = verdict
      BY <2>1, <2>3 DEF stepVars, exitVars
    <3>2. CASE outcome = "return"
      <4>1. verdict \in {"pass", "fail"}
        BY <2>1, <3>2 DEF IInv, TypeOK, Control
      <4> QED
        BY <2>1, <2>3, <3>1, <3>2, <4>1, LeavingIsReturn
    <3>3. CASE outcome = "raise"
      BY <2>1, <2>3, <3>1, <3>3, LeavingIsRaise
    <3> QED
      BY <2>3, <3>2, <3>3 DEF IInv, TypeOK
  <2> QED
    BY <1>11, <2>2, <2>3 DEF QemuStopped
<1>12. CASE KillTimeout \/ Escape
  <2>1. outcome' = "raise" /\ UNCHANGED <<plan, results, qemu>> /\ pc # "done"
    BY <1>12 DEF KillTimeout, Escape, Unwind, stepVars, vmVars
  <2>2. CASE pc' = "done"
    BY <2>1, <2>2, LeavingIsRaise
  <2>3. CASE pc' # "done"
    BY <2>1, <2>3, Stutters DEF Alive
  <2> QED
    BY <2>2, <2>3
<1> QED
  BY <1>2, <1>3, <1>4, <1>5, <1>6, <1>7, <1>8, <1>9, <1>10, <1>11, <1>12 DEF Next, Harness

\* The initial states are the contract's.
LEMMA InitRefines == Init => Contract!Init
<1> SUFFICES ASSUME Init PROVE Contract!Init
  OBVIOUS
<1>1. {v \in VM : Alive(v)} = {}
  BY DEF Init, Alive
<1> QED
  BY <1>1 DEF Init, Contract!Init, Contract!Indices, N

\* Every behaviour of execute_test is one the contract allows: results in order, closed by a
\* setup step that failed, at most one guest and none after the return, the verdict a
\* function of the report, and an exception the only way out of it.
THEOREM Refinement == Spec => ImplementsContract
<1>1. IInv /\ IInv' /\ [Next]_vars => [Contract!Next]_(Contract!cVars)
  <2>1. ASSUME UNCHANGED vars PROVE UNCHANGED Contract!cVars
    BY <2>1, Stutters DEF vars, Alive
  <2> QED
    BY <2>1, StepRefines
<1> QED
  BY <1>1, InitRefines, Invariant, PTL DEF Spec, ImplementsContract, Contract!Spec
=============================================================================
