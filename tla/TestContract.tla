---------------------------- MODULE TestContract ----------------------------
(***************************************************************************)
(* What one call of execute_test promises its caller, without saying how:  *)
(* steps are reported in order, the first setup step that does not pass    *)
(* closes the test to everything but skips, at most one guest runs and     *)
(* none after the return, and the verdict is a function of the report.     *)
(* An exception is the one way out of these promises: then there is no     *)
(* verdict, and a guest may be left behind.                                *)
(***************************************************************************)
EXTENDS Naturals, Sequences

CONSTANT VM, Plans

VARIABLES
    plan,     \* the test
    running,  \* the QEMU processes that run
    log,      \* the reported result of each step, "none" before it
    phase,    \* "open", "returned" or "raised"
    verdict   \* the result of a returned test

cVars == <<plan, running, log, phase, verdict>>

Indices == 1..Len(plan.steps)
Failing == {"fail", "error"}
Gating(k) == plan.steps[k].type = "setup" /\ log[k] \in Failing
Blocked   == \E k \in Indices : Gating(k)

Init ==
    /\ plan \in Plans
    /\ running = {}
    /\ log = [k \in Indices |-> "none"]
    /\ phase = "open"
    /\ verdict = "none"

\* A guest is started only when none runs and the test is not blocked.
Start(v) ==
    /\ phase = "open" /\ running = {} /\ ~Blocked
    /\ running' = {v}
    /\ UNCHANGED <<plan, log, phase, verdict>>

\* A guest ends, stopped or on its own.
End(v) ==
    /\ v \in running
    /\ running' = running \ {v}
    /\ UNCHANGED <<plan, log, phase, verdict>>

\* The first step without a result gets one; when that blocks the test, all
\* the steps behind it are skipped in the same breath.
Report(k, r) ==
    /\ phase = "open"
    /\ \A j \in Indices : log[j] = "none" <=> j >= k
    /\ LET blocks == plan.steps[k].type = "setup" /\ r \in Failing
       IN  log' = [j \in Indices |-> IF j = k THEN r
                                     ELSE IF j > k /\ blocks THEN "skip"
                                     ELSE log[j]]
    /\ UNCHANGED <<plan, running, phase, verdict>>

Fold == IF \A k \in Indices : plan.steps[k].type # "info" => log[k] = "pass"
        THEN "pass" ELSE "fail"

Return ==
    /\ phase = "open" /\ running = {}
    /\ phase' = "returned"
    /\ \/ /\ \A k \in Indices : log[k] # "none"
          /\ verdict' = Fold
       \/ /\ \A k \in Indices : log[k] = "none"   \* the test did not load
          /\ verdict' = "error"
    /\ UNCHANGED <<plan, running, log>>

Raise ==
    /\ phase = "open"
    /\ phase' = "raised"
    /\ UNCHANGED <<plan, running, log, verdict>>

Next ==
    \/ \E v \in VM : Start(v) \/ End(v)
    \/ \E k \in Indices, r \in {"pass", "fail", "error"} : Report(k, r)
    \/ Return
    \/ Raise

Spec == Init /\ [][Next]_cVars
=============================================================================
