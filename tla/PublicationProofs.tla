-------------------------- MODULE PublicationProofs --------------------------
(***************************************************************************)
(* Proofs about the services around a certification run: wherever the      *)
(* harness is cut off, what is published was earned, and everything that   *)
(* was written is published once.                                          *)
(***************************************************************************)
EXTENDS Publication, CertificationProofs, FiniteSetTheorems

\* The files do not change once the harness has ended.
LEMMA FilesFrame ==
    ASSUME UNCHANGED vars
    PROVE  /\ Manifests' = Manifests
           /\ \A k : /\ JsonFile(k)' = JsonFile(k) /\ MdFile(k)' = MdFile(k)
                     /\ Report(k)' = Report(k)
<1>1. /\ run' = run /\ reports' = reports /\ markdown' = markdown /\ torn' = torn /\ m' = m
  BY DEF vars, docVars
<1>2. Manifests' = Manifests  BY <1>1, Frame
<1>3. \A k : JsonFile(k)' = JsonFile(k)  BY <1>1 DEF JsonFile
<1>4. \A k : MdFile(k)' = MdFile(k)  BY <1>1 DEF MdFile
<1>5. \A k : Report(k)' = Report(k)  BY <1>1 DEF Report
<1> QED  BY <1>2, <1>3, <1>4, <1>5

\* A boot starts with nothing published.
LEMMA ServiceInitInvariant == ServiceInit => ServiceInv
<1> SUFFICES ASSUME ServiceInit PROVE ServiceInv  OBVIOUS
<1>1. IInv  BY InitInvariant DEF ServiceInit
<1>2. Len(Manifests) \in Nat  BY <1>1, ManifestFacts DEF IInv, TypeOK
<1>3. Turns
  <2>1. IsSeq(<<>>)  BY DEF IsSeq
  <2> QED  BY <1>2, <2>1 DEF Turns, ServiceInit, Init
<1>4. Raised  BY DEF Raised, ServiceInit
<1> QED  BY <1>1, <1>3, <1>4 DEF ServiceInv

\* A step of the harness leaves the run, and cuts a file off only in a crash.
LEMMA NextFrame ==
    ASSUME Next
    PROVE  /\ run' = run /\ pc \notin {"exited", "crashed", "killed"}
           /\ torn' = torn \/ pc' = "crashed"
BY DEF Next, NoManifest, RunPrereq, PrereqsDone, LoadManifest, RunTest, WriteJson, WriteMarkdown,
       Summarize, Crash, docVars

\* A step of the harness under its service; nothing is published yet.
LEMMA VerifyStep == ServiceInv /\ Verify => ServiceInv'
<1> SUFFICES ASSUME ServiceInv, Verify PROVE ServiceInv'  OBVIOUS
<1>0. /\ service \in {"verify", "manual"} /\ Next
      /\ service' = service /\ at' = at /\ reported' = reported /\ issues' = issues
  BY DEF Verify, pipeVars
<1>1. IInv'  BY <1>0, NextInvariant DEF ServiceInv
<1>2. run' = run /\ pc \notin {"exited", "crashed", "killed"} /\ (torn' = torn \/ pc' = "crashed")
  BY <1>0, NextFrame
<1>3. Manifests' = Manifests  BY <1>2, Frame
<1>4. Turns'  BY <1>0, <1>2, <1>3 DEF ServiceInv, Turns
<1>5. issues = <<>> /\ at = 1  BY <1>0 DEF ServiceInv, Turns
<1>6. Raised'  BY <1>0, <1>5 DEF Raised
<1> QED  BY <1>1, <1>4, <1>6 DEF ServiceInv

\* The harness is killed in any state; the documents stay as they are.
LEMMA ServiceTimeoutStep == ServiceInv /\ ServiceTimeout => ServiceInv'
<1> SUFFICES ASSUME ServiceInv, ServiceTimeout PROVE ServiceInv'  OBVIOUS
<1> USE DEF ServiceTimeout, CutOff, Ended
<1>1. Manifests' = Manifests  BY Frame
<1>2. UnderWay' /\ Written' /\ Covered'  BY EndKeeps DEF ServiceInv
<1>3. TypeOK'
  <2>1. torn' \in {"none", "json", "markdown"}  OBVIOUS
  <2>2. exit = "none"  BY DEF ServiceInv, IInv, TypeOK
  <2> QED  BY <1>1, <2>1, <2>2 DEF ServiceInv, IInv, TypeOK
<1>4. Gated'  BY <1>1 DEF ServiceInv, IInv, TypeOK, Gated, PrereqsGate
<1>5. IInv'  BY <1>2, <1>3, <1>4 DEF IInv
<1>6. Turns'  BY <1>1 DEF ServiceInv, Turns
<1>7. issues = <<>> /\ at = 1  BY DEF ServiceInv, Turns
<1>8. Raised'  BY <1>7 DEF Raised
<1> QED  BY <1>5, <1>6, <1>8 DEF ServiceInv

\* What the script has passed when it stays where it is, or takes a step.
LEMMA Ranges ==
    ASSUME NEW a \in Nat, NEW b \in Nat, b = a \/ b = a + 1
    PROVE  /\ \A k \in 1..a-1 : k \in 1..b-1
           /\ \A k \in 1..b-1 : k \in 1..a-1 \/ (k = a /\ b = a + 1)
OBVIOUS

\* The steps after the harness that publish nothing.
LEMMA QuietStep ==
    ASSUME ServiceInv, UNCHANGED <<vars, issues>>,
           \/ at' = at
           \/ /\ at' = at + 1 /\ at <= Len(Manifests)
              /\ JsonFile(at) # "whole" \/ MdFile(at) = "none"
    PROVE  /\ Manifests' = Manifests /\ at' \in 1..Len(Manifests) + 1
           /\ IInv' /\ Raised'
<1>1. /\ Manifests' = Manifests /\ issues' = issues
      /\ \A k : /\ JsonFile(k)' = JsonFile(k) /\ MdFile(k)' = MdFile(k)
                /\ Report(k)' = Report(k)
  BY FilesFrame
<1>2. IInv'  BY StutterStep DEF ServiceInv
<1>3. Len(Manifests) \in Nat /\ at \in 1..Len(Manifests) + 1
  BY ManifestFacts DEF ServiceInv, IInv, TypeOK, Turns
<1>4. at' \in 1..Len(Manifests) + 1  BY <1>3
<1>5. Raised'
  <2>0. PICK a \in Nat, b \in Nat : a = at /\ b = at' /\ (b = a \/ b = a + 1)
    <3>1. at \in Nat /\ at' \in Nat /\ (at' = at \/ at' = at + 1)  BY <1>3, <1>4
    <3> QED  BY <3>1
  <2>a. /\ \A k \in 1..a-1 : k \in 1..b-1
        /\ \A k \in 1..b-1 : k \in 1..a-1 \/ (k = a /\ b = a + 1)
    BY <2>0, Ranges
  <2>1. \A k \in 1..at-1 : k \in 1..at'-1  BY <2>0, <2>a
  <2>2. \A k \in 1..at'-1 : k \in 1..at-1 \/ (k = at /\ at' = at + 1)  BY <2>0, <2>a
  <2>3. \A j \in DOMAIN issues :
          LET k == issues[j].manifest
          IN  /\ k \in 1..at'-1 /\ JsonFile(k)' = "whole" /\ MdFile(k)' # "none"
              /\ issues[j].milestone = Report(k)'.certified
              /\ issues[j].body = MdFile(k)'
    BY <1>1, <2>1 DEF ServiceInv, Raised
  <2>4. \A k \in 1..at'-1 : JsonFile(k)' = "whole" /\ MdFile(k)' # "none" =>
            \E j \in DOMAIN issues : issues[j].manifest = k
    BY <1>1, <2>2 DEF ServiceInv, Raised
  <2>5. \A i, j \in DOMAIN issues : i < j => issues[i].manifest < issues[j].manifest
    BY DEF ServiceInv, Raised
  <2> QED  BY <1>1, <2>3, <2>4, <2>5 DEF Raised
<1> QED  BY <1>1, <1>2, <1>4, <1>5

\* The steps of the pipeline beside the publishing.
LEMMA QuietSteps ==
    ServiceInv /\ (\/ ServiceEnds \/ PassOver \/ ReportFails \/ ReportEnds \/ KeyPressed \/ Reboot
                   \/ UNCHANGED allVars)
        => ServiceInv'
<1> SUFFICES ASSUME ServiceInv,
                    \/ ServiceEnds \/ PassOver \/ ReportFails \/ ReportEnds \/ KeyPressed \/ Reboot
                    \/ UNCHANGED allVars
             PROVE  ServiceInv'
  OBVIOUS
<1> USE DEF ServiceEnds, PassOver, ReportFails, ReportEnds, KeyPressed, Reboot, allVars, pipeVars
<1>1. UNCHANGED vars /\ issues' = issues  OBVIOUS
<1>2. /\ Manifests' = Manifests /\ at' \in 1..Len(Manifests) + 1
      /\ IInv' /\ Raised'
  BY <1>1, QuietStep
<1>3. run' = run /\ pc' = pc /\ torn' = torn  BY <1>1 DEF vars, docVars
<1>4. Turns'
  BY <1>1, <1>2, <1>3 DEF ServiceInv, Turns, Ended
<1> QED  BY <1>2, <1>4 DEF ServiceInv

\* The issue is that of the pair of files the script is at.
LEMMA PublishStep == ServiceInv /\ Publish => ServiceInv'
<1> SUFFICES ASSUME ServiceInv, Publish PROVE ServiceInv'  OBVIOUS
<1> DEFINE issue == [manifest |-> at, milestone |-> Report(at).certified, body |-> MdFile(at)]
           N == Len(issues)
<1>0. /\ service = "report" /\ at <= Len(Manifests)
      /\ JsonFile(at) = "whole" /\ MdFile(at) # "none"
      /\ issues' = Append(issues, issue) /\ at' = at + 1
      /\ UNCHANGED vars /\ service' = service /\ reported' = reported
  BY DEF Publish
<1>1. /\ issue.manifest = at /\ issue.milestone = Report(at).certified /\ issue.body = MdFile(at)
  OBVIOUS
<1> HIDE DEF issue
<1>2. /\ Manifests' = Manifests
      /\ \A k : /\ JsonFile(k)' = JsonFile(k) /\ MdFile(k)' = MdFile(k)
                /\ Report(k)' = Report(k)
  BY <1>0, FilesFrame
<1>3. IInv'  BY <1>0, StutterStep DEF ServiceInv
<1>4. Len(Manifests) \in Nat /\ at \in 1..Len(Manifests)
  BY <1>0, ManifestFacts DEF ServiceInv, IInv, TypeOK, Turns
<1>5. /\ N \in Nat /\ IsSeq(issues') /\ DOMAIN issues = 1..N
      /\ DOMAIN issues' = 1..(N + 1) /\ issues'[N + 1] = issue
      /\ \A n \in 1..N : issues'[n] = issues[n]
  <2>1. IsSeq(issues)  BY DEF ServiceInv, Turns
  <2> QED  BY <1>0, <2>1, AppendFacts
<1> HIDE DEF N
<1>6. \A n \in 1..(N + 1) : n \in 1..N \/ n = N + 1  BY <1>5
<1>7. Turns'
  <2>1. run' = run /\ pc' = pc /\ torn' = torn  BY <1>0 DEF vars, docVars
  <2> QED  BY <1>0, <1>2, <1>4, <1>5, <2>1 DEF ServiceInv, Turns, Ended
<1>8. ASSUME NEW j \in 1..(N + 1)
      PROVE  LET k == issues'[j].manifest
             IN  /\ k \in 1..(at + 1)-1 /\ JsonFile(k) = "whole" /\ MdFile(k) # "none"
                 /\ issues'[j].milestone = Report(k).certified
                 /\ issues'[j].body = MdFile(k)
  <2>1. CASE j \in 1..N
    <3>1. LET k == issues[j].manifest
          IN  /\ k \in 1..at-1 /\ JsonFile(k) = "whole" /\ MdFile(k) # "none"
              /\ issues[j].milestone = Report(k).certified
              /\ issues[j].body = MdFile(k)
      BY <1>5, <2>1 DEF ServiceInv, Raised
    <3> QED  BY <1>4, <1>5, <2>1, <3>1
  <2>2. CASE j = N + 1  BY <1>0, <1>1, <1>4, <1>5, <2>2
  <2> QED  BY <1>6, <2>1, <2>2
<1>9. ASSUME NEW i \in 1..(N + 1), NEW j \in 1..(N + 1), i < j
      PROVE  issues'[i].manifest < issues'[j].manifest
  <2>1. i \in 1..N  BY <1>5, <1>9
  <2>2. CASE j \in 1..N  BY <1>5, <1>9, <2>1, <2>2 DEF ServiceInv, Raised
  <2>3. CASE j = N + 1
    <3>1. issues[i].manifest \in 1..at-1  BY <1>5, <2>1 DEF ServiceInv, Raised
    <3> QED  BY <1>1, <1>4, <1>5, <2>1, <2>3, <3>1
  <2> QED  BY <1>6, <2>2, <2>3
<1>10. ASSUME NEW k \in 1..(at + 1)-1, JsonFile(k) = "whole", MdFile(k) # "none"
       PROVE  \E j \in 1..(N + 1) : issues'[j].manifest = k
  <2>1. CASE k \in 1..at-1
    <3>1. PICK j \in 1..N : issues[j].manifest = k  BY <1>5, <1>10, <2>1 DEF ServiceInv, Raised
    <3> QED  BY <1>5, <3>1
  <2>2. CASE k = at
    <3>1. N + 1 \in 1..(N + 1)  BY <1>5
    <3> QED  BY <1>1, <1>5, <2>2, <3>1
  <2> QED  BY <1>4, <2>1, <2>2
<1>11. Raised'
  <2>0. ASSUME NEW j \in DOMAIN issues', NEW k, k = issues'[j].manifest
        PROVE  /\ k \in 1..at'-1 /\ JsonFile(k)' = "whole" /\ MdFile(k)' # "none"
               /\ issues'[j].milestone = Report(k)'.certified
               /\ issues'[j].body = MdFile(k)'
    <3>1. /\ k \in 1..(at + 1)-1 /\ JsonFile(k) = "whole" /\ MdFile(k) # "none"
          /\ issues'[j].milestone = Report(k).certified
          /\ issues'[j].body = MdFile(k)
      BY <1>5, <1>8, <2>0
    <3> QED  BY <1>0, <1>2, <3>1
  <2>1. (\A j \in DOMAIN issues :
           LET k == issues[j].manifest
           IN  /\ k \in 1..at-1 /\ JsonFile(k) = "whole" /\ MdFile(k) # "none"
               /\ issues[j].milestone = Report(k).certified
               /\ issues[j].body = MdFile(k))'
    BY <2>0 DEF JsonFile, MdFile, Report
  <2>2. \A i, j \in DOMAIN issues' : i < j => issues'[i].manifest < issues'[j].manifest
    BY <1>5, <1>9
  <2>3. \A k \in 1..at'-1 : JsonFile(k)' = "whole" /\ MdFile(k)' # "none" =>
            \E j \in DOMAIN issues' : issues'[j].manifest = k
    BY <1>0, <1>2, <1>5, <1>10
  <2> QED  BY <2>1, <2>2, <2>3 DEF Raised
<1> QED  BY <1>3, <1>7, <1>11 DEF ServiceInv

\* Every step of the harness and of the services keeps the invariant.
LEMMA ServiceNextInvariant == ServiceInv /\ [ServiceNext]_allVars => ServiceInv'
<1> SUFFICES ASSUME ServiceInv, [ServiceNext]_allVars PROVE ServiceInv'  OBVIOUS
<1>1. CASE Verify  BY <1>1, VerifyStep
<1>2. CASE ServiceTimeout  BY <1>2, ServiceTimeoutStep
<1>3. CASE Publish  BY <1>3, PublishStep
<1>4. CASE \/ ServiceEnds \/ PassOver \/ ReportFails \/ ReportEnds \/ KeyPressed \/ Reboot
           \/ UNCHANGED allVars
  BY <1>4, QuietSteps
<1> QED  BY <1>1, <1>2, <1>3, <1>4 DEF ServiceNext, Systemd

\* Every reachable state of a boot satisfies the inductive invariant.
THEOREM ServiceInvariant == ServiceSpec => []ServiceInv
BY ServiceInitInvariant, ServiceNextInvariant, PTL DEF ServiceSpec
-----------------------------------------------------------------------------
(* The properties, from the invariant.                                     *)

\* A certification has at most one report, and that is the one its JSON file holds.
LEMMA ReportOfFile ==
    ASSUME IInv, NEW k, JsonFile(k) = "whole"
    PROVE  \E n \in DOMAIN reports : reports[n].manifest = k /\ Report(k) = reports[n]
<1>1. PICK n \in DOMAIN reports : reports[n].manifest = k  BY DEF JsonFile
<1>2. DOMAIN reports = 1..Len(reports) /\ Len(reports) \in Nat  BY DEF IInv, TypeOK, IsSeq
<1>3. /\ \A i \in DOMAIN reports : reports[i].manifest \in Nat
      /\ \A i, j \in DOMAIN reports : i < j => reports[i].manifest < reports[j].manifest
  <2>1. run \in Runs /\ \A i \in DOMAIN reports : reports[i].manifest \in 1..Len(Manifests)
    BY DEF IInv, TypeOK
  <2>2. Len(Manifests) \in Nat  BY <2>1, ManifestFacts
  <2> QED  BY <2>1, <2>2 DEF IInv, Written
<1>4. \A i \in DOMAIN reports : reports[i].manifest = k => i = n
  <2> SUFFICES ASSUME NEW i \in DOMAIN reports, reports[i].manifest = k PROVE i = n  OBVIOUS
  <2>1. ~(i < n) /\ ~(n < i)  BY <1>1, <1>3
  <2>2. i \in Nat /\ n \in Nat  BY <1>1, <1>2
  <2> QED  BY <2>1, <2>2
<1>5. reports[n] \in ToSet(reports) /\ \A rep \in ToSet(reports) : rep.manifest = k => rep = reports[n]
  BY <1>1, <1>4 DEF ToSet
<1>6. Report(k) = reports[n]  BY <1>1, <1>5 DEF Report
<1> QED  BY <1>1, <1>6

\* A complete pair of files holds a certification that was earned.
LEMMA PublishedState == ServiceInv => OnlyEarnedPublished
<1> SUFFICES ASSUME ServiceInv, NEW j \in DOMAIN issues
             PROVE  LET k == issues[j].manifest
                        rep == Report(k)
                    IN  /\ /\ Len(prereqs) = run.prereqs
                           /\ \A n \in DOMAIN prereqs : prereqs[n] = "pass"
                        /\ JsonFile(k) = "whole"
                        /\ \A n \in DOMAIN Manifests[k].tests : rep.tests[n] # "none"
                        /\ issues[j].milestone # NoLevel => Earned(rep, issues[j].milestone)
                        /\ issues[j].body # "none"
                        /\ issues[j].body = "torn" => pc \in {"crashed", "killed"} /\ m = k
  BY DEF OnlyEarnedPublished
<1> DEFINE k == issues[j].manifest
<1>0. IInv /\ Turns /\ Raised  BY DEF ServiceInv
<1>1. /\ JsonFile(k) = "whole" /\ MdFile(k) # "none"
      /\ issues[j].milestone = Report(k).certified /\ issues[j].body = MdFile(k)
  BY <1>0 DEF Raised
<1>2. run.asked = <<>>
  <2>1. issues # <<>>  OBVIOUS
  <2> QED  BY <1>0, <2>1 DEF Turns
<1>3. PICK n \in DOMAIN reports : reports[n].manifest = k /\ Report(k) = reports[n]
  <2> HIDE DEF k
  <2> QED  BY <1>0, <1>1, ReportOfFile
<1>4. Len(prereqs) = run.prereqs /\ \A i \in DOMAIN prereqs : prereqs[i] = "pass"
  <2>1. reports # <<>>  BY <1>3
  <2> QED  BY <1>0, <2>1 DEF IInv, Gated, PrereqsGate
<1>5. \A i \in DOMAIN Manifests[k].tests : Report(k).tests[i] # "none"
  <2>1. ReportComplete  BY <1>0, CompleteState
  <2>2. \A man, i : Asked(man, i)  BY <1>2 DEF Asked
  <2> HIDE DEF k
  <2> QED  BY <1>3, <2>1, <2>2 DEF ReportComplete
<1>6. issues[j].milestone # NoLevel => Earned(Report(k), issues[j].milestone)
  <2>1. CertifiedLevelEarned  BY <1>0, CertifiedState
  <2>2. reports[n].certified # NoLevel => Earned(reports[n], reports[n].certified)
    BY <2>1 DEF CertifiedLevelEarned
  <2> HIDE DEF k
  <2> QED  BY <1>1, <1>3, <2>2
<1>7. issues[j].body = "torn" => pc \in {"crashed", "killed"} /\ m = k
  <2>1. MdFile(k) = "torn" => torn = "markdown" /\ m = k  BY DEF MdFile
  <2> HIDE DEF k
  <2> QED  BY <1>0, <1>1, <2>1 DEF Turns
<1> QED  BY <1>1, <1>4, <1>5, <1>6, <1>7

\* For every run, and wherever the harness is killed or dies: an issue is raised
\* only for a certification all of whose tests ran behind prerequisites that
\* passed, with a milestone that was earned.
THEOREM PublishedWasEarned == ServiceSpec => []OnlyEarnedPublished
BY ServiceInvariant, PublishedState, PTL

\* Every complete pair of files was passed when the script has ended well.
LEMMA WrittenState == ServiceInv => AllWrittenPublished
<1> SUFFICES ASSUME ServiceInv, service \in {"prompt", "shell", "rebooted"},
                    NEW k \in DOMAIN Manifests,
                    JsonFile(k) = "whole", MdFile(k) = "whole", reported = "ok" \/ k < at
             PROVE  Cardinality({j \in DOMAIN issues : issues[j].manifest = k}) = 1
  BY DEF AllWrittenPublished
<1>1. /\ DOMAIN Manifests = 1..Len(Manifests) /\ Len(Manifests) \in Nat
      /\ at \in 1..Len(Manifests) + 1 /\ IsSeq(issues)
  BY ManifestFacts DEF ServiceInv, IInv, TypeOK, Turns
<1>2. reported = "ok" => at > Len(Manifests)  BY DEF ServiceInv, Turns
<1>3. k \in 1..at-1  BY <1>1, <1>2
<1>4. PICK j \in DOMAIN issues : issues[j].manifest = k  BY <1>3 DEF ServiceInv, Raised
<1>5. \A i \in DOMAIN issues : issues[i].manifest = k => i = j
  <2> SUFFICES ASSUME NEW i \in DOMAIN issues, issues[i].manifest = k PROVE i = j  OBVIOUS
  <2>1. \A h, l \in DOMAIN issues : h < l => issues[h].manifest < issues[l].manifest
    BY DEF ServiceInv, Raised
  <2>2. ~(k < k)  BY <1>1
  <2>3. ~(i < j) /\ ~(j < i)  BY <1>4, <2>1, <2>2
  <2>4. i \in Nat /\ j \in Nat  BY <1>1 DEF IsSeq
  <2> QED  BY <2>3, <2>4
<1>6. {i \in DOMAIN issues : issues[i].manifest = k} = {j}  BY <1>4, <1>5
<1> QED  BY <1>6, FS_Singleton

\* For every run, and wherever the harness is killed or dies: of every certification
\* with both documents exactly one issue is raised, unless beacon-report.sh failed first.
THEOREM EverythingPublished == ServiceSpec => []AllWrittenPublished
BY ServiceInvariant, WrittenState, PTL

\* What is proved of the harness by itself also holds of the harness that systemd
\* kills when its time is over.
THEOREM KilledHarness ==
    ServiceSpec => [](/\ CertifiedLevelEarned /\ ReportConsistent /\ ReportComplete
                      /\ PrereqsGate /\ ExitZeroMeansPassed)
<1>1. ServiceInv => /\ CertifiedLevelEarned /\ ReportConsistent /\ ReportComplete
                    /\ PrereqsGate /\ ExitZeroMeansPassed
  BY CertifiedState, ConsistentState, CompleteState, ExitState DEF ServiceInv, IInv, Gated
<1> QED  BY <1>1, ServiceInvariant, PTL
=============================================================================
