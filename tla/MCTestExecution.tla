-------------------------- MODULE MCTestExecution --------------------------
(* Small tests for TestExecution: every short sequence over a pool of      *)
(* steps, and the shapes of the tests the repository ships.                *)
EXTENDS TestExecution

S(k, t, e) == [kind |-> k, type |-> t, expect |-> e]

Launch     == S("vm_launch", "setup", "exit_code:0")
LaunchBad  == S("vm_launch", "required", "stdout_contains")
Stop       == S("vm_stop", "info", "exit_code:0")
StopReq    == S("vm_stop", "required", "stdout_contains")
Cmd        == S("guest", "required", "exit_code:0")
Pull       == S("guest_pull", "setup", "exit_code:0")
HostFails  == S("host", "required", "exit_code:1")
Call       == S("callable", "required", "exit_code:0")
CallSetup  == S("callable", "setup", "exit_code:0")

SeqsUpTo(pool, n) == UNION {[1..k -> pool] : k \in 0..n}

\* Every sequence of at most three steps over the pool, with and without a VM.
ShortPlans ==
    [vm : {TRUE}, steps : SeqsUpTo({Launch, LaunchBad, Stop, StopReq, Cmd, Pull,
                                    HostFails, Call, CallSetup}, 3)]
    \cup [vm : {FALSE}, steps : SeqsUpTo({Launch, Stop, Cmd, HostFails, CallSetup}, 2)]

\* attestation_test: measure, launch, report, pull, verify, stop.
AttestationPlan == <<CallSetup, Launch, Cmd, Pull, Call, Stop>>
\* id_block_test: a callable changes the profile between two launches, and the
\* second launch is expected to be refused.
IdBlockPlan == <<Launch, Cmd, Stop, Call, LaunchBad, Stop>>
\* Guest steps around stops, each but the first relying on an implicit launch.
RelaunchPlan == <<Cmd, Pull, StopReq, Cmd, Call, Cmd>>
\* A vm_stop that fails must not let the next launch start a second guest.
DuplicatePlan == <<Launch, Cmd, Stop, Launch, Cmd, HostFails>>

ShippedPlans ==
    [vm : {TRUE}, steps : {AttestationPlan, IdBlockPlan, RelaunchPlan, DuplicatePlan}]

\* The two together: what the run checks.
AllPlans == ShortPlans \cup ShippedPlans

CallPlans == [vm : {FALSE}, steps : {<<CallSetup, HostFails>>}]
LaunchPlans == [vm : {TRUE}, steps : {<<Launch, Cmd, Stop>>}]
=============================================================================
