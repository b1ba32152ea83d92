---------------------------- MODULE Publication ----------------------------
(***************************************************************************)
(* What the host image does around one run of the harness, with systemd    *)
(* as the scheduler: sev-verify.service runs it without filters and ends   *)
(* it after ten minutes, beacon-report.service publishes an issue for each *)
(* certification it finds in /root/results, login-or-reboot.service offers *)
(* a shell and reboots.  /root/results is empty at boot, the image lives   *)
(* in memory.  A harness started by hand has the files and no pipeline.    *)
(***************************************************************************)
EXTENDS Certification, FiniteSets

VARIABLES
    service,   \* "manual"; "verify", "report", "prompt" (the service that is
               \* active), "shell", "rebooted"
    at,        \* the file beacon-report.sh is at, in the order of the glob
    reported,  \* beacon-report.sh has "failed" when a command of it did
    issues     \* the issues published

pipeVars == <<service, at, reported, issues>>
allVars  == <<vars, pipeVars>>

\* The files of a certification: "none", "torn" by the end of the process, "whole".
JsonFile(k) == IF \E n \in DOMAIN reports : reports[n].manifest = k THEN "whole"
               ELSE IF torn = "json" /\ m = k THEN "torn" ELSE "none"
MdFile(k)   == IF \E n \in DOMAIN markdown : markdown[n].manifest = k THEN "whole"
               ELSE IF torn = "markdown" /\ m = k THEN "torn" ELSE "none"

Report(k)   == CHOOSE rep \in ToSet(reports) : rep.manifest = k
NoJson      == \A k \in DOMAIN Manifests : JsonFile(k) = "none"
Ended       == {"exited", "crashed", "killed"}

ServiceInit ==
    /\ Init
    /\ service = IF run.asked = <<>> THEN "verify" ELSE "manual"
    /\ at = 1 /\ reported = "ok" /\ issues = <<>>

\* A step of the harness.
Verify ==
    /\ service \in {"verify", "manual"} /\ Next
    /\ UNCHANGED pipeVars

-----------------------------------------------------------------------------
(* sev-verify.service.                                                     *)

\* Mutant of ServiceTimeout: no TimeoutStartSec, a oneshot service has none.
ServiceTimeoutNever == FALSE /\ UNCHANGED allVars

\* TimeoutStartSec: SIGTERM ends the process where it is, with no finally
\* clause; the guest goes with the control group.
ServiceTimeout ==
    /\ service = "verify" /\ pc \notin Ended
    /\ pc' = "killed" /\ CutOff
    /\ service' = "report"
    /\ UNCHANGED <<run, prereqs, m, results, overall, reports, markdown, exit,
                   at, reported, issues>>

\* Mutant of ServiceEnds: test.target requires test-done instead of wanting it,
\* and beacon-report.service requires test.target.
ServiceEndsRequired ==
    /\ service = "verify" /\ pc \in Ended
    /\ service' = IF exit = "0" THEN "report" ELSE "prompt"
    /\ UNCHANGED <<vars, at, reported, issues>>

\* Whatever the exit status was, test.target is reached: it only wants
\* test-done.service, which is what requires this service.
ServiceEnds ==
    /\ service = "verify" /\ pc \in Ended
    /\ service' = "report"
    /\ UNCHANGED <<vars, at, reported, issues>>

-----------------------------------------------------------------------------
(* beacon-report.sh, under set -e.                                         *)

\* A certification with no JSON is not in the glob; one that has no Markdown is
\* passed over, and so is an empty JSON file, in which jq finds no version.
PassOver ==
    /\ service = "report" /\ ~NoJson /\ at <= Len(Manifests)
    /\ JsonFile(at) # "whole" \/ MdFile(at) = "none"
    /\ at' = at + 1
    /\ UNCHANGED <<vars, service, reported, issues>>

\* Mutant of Publish: the test for the Markdown file is missing.
PublishUnchecked ==
    /\ service = "report" /\ at <= Len(Manifests)
    /\ JsonFile(at) = "whole"
    /\ issues' = Append(issues, [manifest  |-> at,
                                 milestone |-> Report(at).certified,
                                 body      |-> MdFile(at)])
    /\ at' = at + 1
    /\ UNCHANGED <<vars, service, reported>>

\* beacon report: the milestone is the certified level, if there is one.
Publish ==
    /\ service = "report" /\ at <= Len(Manifests)
    /\ JsonFile(at) = "whole" /\ MdFile(at) # "none"
    /\ issues' = Append(issues, [manifest  |-> at,
                                 milestone |-> Report(at).certified,
                                 body      |-> MdFile(at)])
    /\ at' = at + 1
    /\ UNCHANGED <<vars, service, reported>>

\* No results, the processor is not recognised, jq does not parse a file that
\* was cut off, beacon fails: the script ends there.
ReportFails ==
    /\ service = "report" /\ (at = 1 \/ at <= Len(Manifests))
    /\ service' = "prompt" /\ reported' = "failed"
    /\ UNCHANGED <<vars, at, issues>>

ReportEnds ==
    /\ service = "report" /\ ~NoJson /\ at > Len(Manifests)
    /\ service' = "prompt"
    /\ UNCHANGED <<vars, at, reported, issues>>

-----------------------------------------------------------------------------
(* login-or-reboot.sh: after beacon-report.service, however it ended.      *)

KeyPressed ==
    /\ service = "prompt" /\ service' = "shell"
    /\ UNCHANGED <<vars, at, reported, issues>>

Reboot ==
    /\ service = "prompt" /\ service' = "rebooted"
    /\ UNCHANGED <<vars, at, reported, issues>>

Systemd == \/ ServiceTimeout \/ ServiceEnds \/ PassOver \/ Publish \/ ReportFails
           \/ ReportEnds \/ KeyPressed \/ Reboot

ServiceNext == Verify \/ Systemd
ServiceSpec == ServiceInit /\ [][ServiceNext]_allVars

\* systemd's jobs and timers run, and a call of beacon, which has no timeout,
\* returns; of the harness nothing is assumed.
FairService == ServiceSpec /\ WF_allVars(Systemd)

-----------------------------------------------------------------------------
(* Properties.                                                             *)

\* An issue is never raised from half a certification, wherever the harness was
\* killed or died: behind an issue all prerequisites passed, every test of the
\* manifest has a verdict, its milestone is earned within the cap, and its body
\* is there, and whole unless the process ended while it wrote that very file.
OnlyEarnedPublished ==
    \A j \in DOMAIN issues :
        LET k == issues[j].manifest
            rep == Report(k)
        IN  /\ Len(prereqs) = run.prereqs /\ \A n \in DOMAIN prereqs : prereqs[n] = "pass"
            /\ JsonFile(k) = "whole"
            /\ \A n \in DOMAIN Manifests[k].tests : rep.tests[n] # "none"
            /\ issues[j].milestone # NoLevel => Earned(rep, issues[j].milestone)
            /\ issues[j].body # "none"
            /\ issues[j].body = "torn" => pc \in {"crashed", "killed"} /\ m = k

\* A certification whose documents were both written is published once, however the
\* harness or another certification ended, unless a command of beacon-report.sh
\* failed before its turn.
AllWrittenPublished ==
    service \in {"prompt", "shell", "rebooted"} =>
        \A k \in DOMAIN Manifests :
            JsonFile(k) = "whole" /\ MdFile(k) = "whole" /\ (reported = "ok" \/ k < at) =>
                Cardinality({j \in DOMAIN issues : issues[j].manifest = k}) = 1

\* A handler, a command or a test that never returns does not keep the machine:
\* a boot always gets as far as the shell or the reboot.
HostFreed == service = "verify" ~> service \in {"shell", "rebooted"}

-----------------------------------------------------------------------------
(* The inductive invariant: that of the harness, and the following.        *)

\* The services take their turns: the report starts when the harness has ended,
\* and only a harness that systemd started, without filters, has a report.
Turns ==
    /\ service \in {"manual", "verify", "report", "prompt", "shell", "rebooted"}
    /\ at \in 1..Len(Manifests) + 1 /\ reported \in {"ok", "failed"} /\ IsSeq(issues)
    /\ service # "manual" => run.asked = <<>>
    /\ service \notin {"manual", "verify"} => pc \in Ended
    /\ service \in {"manual", "verify"} => issues = <<>> /\ at = 1
    /\ service \notin {"manual", "verify", "report"} /\ reported = "ok" => at > Len(Manifests)
    /\ torn # "none" => pc \in {"crashed", "killed"}

\* What beacon-report.sh has published of the files that it has passed.
Raised ==
    /\ \A j \in DOMAIN issues :
          LET k == issues[j].manifest
          IN  /\ k \in 1..at-1 /\ JsonFile(k) = "whole" /\ MdFile(k) # "none"
              /\ issues[j].milestone = Report(k).certified
              /\ issues[j].body = MdFile(k)
    /\ \A i, j \in DOMAIN issues : i < j => issues[i].manifest < issues[j].manifest
    /\ \A k \in 1..at-1 : JsonFile(k) = "whole" /\ MdFile(k) # "none" =>
           \E j \in DOMAIN issues : issues[j].manifest = k

ServiceInv == IInv /\ Turns /\ Raised
=============================================================================
