--------------------------- MODULE DecisionProofs ----------------------------
(***************************************************************************)
(* Proofs about ImageValidation, for every set of scanners, every set of   *)
(* findings and every combination of faults: its inductive invariant; then *)
(* what it decides: that decision, phase and hash agree, that a failure is *)
(* justified, that the verdict is exact when scans are complete, that with *)
(* a prompt watch the validation implements GatePromise, and with any      *)
(* watch GateDecisions; and what a subscriber of its events knows, across  *)
(* restarts of the process and lost events.                                *)
(***************************************************************************)
EXTENDS ImageValidation, PostureEvents, TLAPS

(***************************************************************************)
(* The constants' assumptions and the ranks, in the form the proofs use.   *)
(***************************************************************************)

LEMMA Bounds == MaxCollections \in Nat \ {0} /\ MaxDecisions \in Nat \ {0} /\ ScanOnly \in BOOLEAN
  BY CollectionsAssumption, GateAssumption

LEMMA RankTable ==
    /\ Rank("Pending") = 0     /\ Rank("Provisioning") = 1
    /\ Rank("Scanning") = 2    /\ Rank("Aggregating") = 3
    /\ Rank("Attesting") = 4   /\ Rank("Gating") = 5
    /\ Rank("Passed") = 6      /\ Rank("Failed") = 6
    /\ Rank("Quarantined") = 6
  BY DEF Rank

LEMMA SJRankTable ==
    /\ SJRank("absent") = 0    /\ SJRank("Pending") = 1
    /\ SJRank("Forking") = 2   /\ SJRank("Execing") = 3
    /\ SJRank("Running") = 4   /\ SJRank("Attested") = 5
  BY DEF SJRank

-----------------------------------------------------------------------------
(***************************************************************************)
(* Type correctness.                                                       *)
(***************************************************************************)

\* What the gate returns, and what the handlers read, has the right type.
LEMMA VerdictOfType ==
    ASSUME NEW severity, NEW decision
    PROVE  VerdictOf(severity, decision) \in GateVerdict
  BY DEF VerdictOf, GateVerdict

LEMMA DecidedType == Decided.verdict \in GateVerdict /\ DecidedAction \in ActionClass
<1>1. Decided.verdict \in GateVerdict
  BY VerdictOfType DEF Decided, Gate
<1>2. DecidedAction \in ActionClass
  BY DEF DecidedAction, ActionClass
<1> QED
  BY <1>1, <1>2

LEMMA UnionType == SJTypeOK => Union \in SUBSET Evidence
<1> SUFFICES ASSUME SJTypeOK, NEW s \in Scanner, NEW f \in sj[s].found
             PROVE  <<s, f, sj[s].stamp>> \in Evidence
  BY DEF Union, Children
<1>1. sj[s] \in ScanJobStatus
  BY DEF SJTypeOK
<1> QED
  BY <1>1 DEF ScanJobStatus, Evidence

LEMMA InitialValues ==
    NoJob \in ScanJobStatus /\ Idle \in ScanJobRun /\ NewStatus \in Status
  BY Bounds DEF NoJob, ScanJobStatus, SJPhase, Source, Idle, ScanJobRun, NewStatus,
     Status, Phase, GateVerdict, ActionClass, Evidence

LEMMA TypeInit == Init => TypeOK
<1> SUFFICES ASSUME Init PROVE TypeOK
  OBVIOUS
<1>1. NoJob \in ScanJobStatus /\ Idle \in ScanJobRun /\ NewStatus \in Status
  BY InitialValues
<1>2. SJTypeOK
  BY <1>1 DEF Init, SJInit, SJTypeOK, SJPhase, JobState
<1>3. TenantTypeOK
  BY DEF Init, TenantInit, TenantTypeOK, TenantPhase
<1>4. IVTypeOK
  BY <1>1 DEF Init, IVTypeOK, IVIdle, IVRun
<1> QED
  BY <1>2, <1>3, <1>4 DEF TypeOK

\* The steps of one ScanJob and its Job keep their types.
LEMMA SJTypeStep ==
    ASSUME SJTypeOK, NEW s \in Scanner,
           \/ SJObserve(s) \/ SJReconcile(s) \/ SJAbort(s) \/ SJCreate(s)
           \/ JobSucceeds(s) \/ JobAttemptFails(s) \/ JobExpires(s)
    PROVE  SJTypeOK'
<1>a. sj[s] \in ScanJobStatus /\ sjRun[s] \in ScanJobRun /\ job[s] \in JobState
  BY DEF SJTypeOK
<1>b. \A p \in SJPhase : [sj[s] EXCEPT !.phase = p] \in ScanJobStatus
  BY <1>a DEF ScanJobStatus
<1>c. Idle \in ScanJobRun
  BY InitialValues
<1>1. CASE SJObserve(s)
  BY <1>1, <1>a DEF SJObserve, SJTypeOK, ScanJobStatus
<1>2. CASE SJFork(s)
  <2>1. [sjRun[s] EXCEPT !.to = "Forking"] \in ScanJobRun
    BY <1>a DEF ScanJobRun
  <2> QED
    BY <1>2, <2>1 DEF SJFork, SJTypeOK, JobState
<1>3. CASE SJAdvance(s)
  <2>1. PICK step \in {<<"Forking", "Execing">>, <<"Execing", "Running">>} :
                sj' = [sj EXCEPT ![s].phase = step[2]]
    BY <1>3 DEF SJAdvance
  <2>2. step[2] \in SJPhase
    BY DEF SJPhase
  <2> QED
    BY <1>3, <2>1, <2>2, <1>b DEF SJAdvance, SJTypeOK
<1>4. CASE SJCollect(s)
  <2>1. PICK out \in Outputs(s) :
            sjRun' = [sjRun EXCEPT ![s] = [to |-> "Attested", found |-> out.found,
                                           source |-> out.source]]
    BY <1>4 DEF SJCollect
  <2>2. truth[s] \subseteq Found
    BY DEF SJTypeOK
  <2>3. out.found \in SUBSET Found /\ out.source \in Source
    BY <2>1, <2>2 DEF Outputs
  <2>4. [to |-> "Attested", found |-> out.found, source |-> out.source] \in ScanJobRun
    BY <2>3 DEF ScanJobRun
  <2> QED
    BY <1>4, <2>1, <2>4 DEF SJCollect, SJTypeOK
<1>5. CASE SJPatch(s)
  <2>1. CASE sjRun[s].to = "Forking"
    BY <1>5, <2>1, <1>b, <1>c DEF SJPatch, SJTypeOK, SJPhase
  <2>2. CASE sjRun[s].to = "Attested"
    <3>1. sj[s].stamp + 1 \in 0 .. MaxCollections
      BY <1>5, <2>2, <1>a, Bounds DEF SJPatch, ScanJobStatus
    <3>2. [phase |-> "Attested", found |-> sjRun[s].found, source |-> sjRun[s].source,
           stamp |-> sj[s].stamp + 1] \in ScanJobStatus
      BY <3>1, <1>a DEF ScanJobStatus, ScanJobRun, SJPhase
    <3> QED
      BY <1>5, <2>2, <3>2, <1>c DEF SJPatch, SJTypeOK
  <2> QED
    BY <1>5, <2>1, <2>2 DEF SJPatch
<1>6. CASE SJAbort(s)
  BY <1>6, <1>c DEF SJAbort, SJTypeOK
<1>7. CASE SJCreate(s)
  <2>1. PICK p \in SJPhase : sj' = [sj EXCEPT ![s].phase = p]
    BY <1>7, <1>a DEF SJCreate, SJPhase, ScanJobStatus
  <2> QED
    BY <1>7, <2>1, <1>b DEF SJCreate, SJTypeOK
<1>8. CASE JobSucceeds(s)
  BY <1>8 DEF JobSucceeds, SJTypeOK, JobState
<1>9. CASE JobAttemptFails(s)
  BY <1>9 DEF JobAttemptFails, SJTypeOK, JobState
<1>10. CASE JobExpires(s)
  BY <1>10 DEF JobExpires, SJTypeOK, JobState
<1> QED
  BY <1>1, <1>2, <1>3, <1>4, <1>5, <1>6, <1>7, <1>8, <1>9, <1>10 DEF SJReconcile

LEMMA TenantTypeStep ==
    ASSUME TenantTypeOK, TenantNext \/ TenantCreate
    PROVE  TenantTypeOK'
  BY DEF TenantTypeOK, TenantPhase, TenantNext, TenantReconcile, TenantCreate,
     TenantObserve, TenantAssess, TenantReap, TenantPatch, TenantAbort,
     ServiceUp, ServiceDown, OperatorTeardown

\* Every status a handler builds from the cached one has the right type, and
\* so has the merge of two statuses.
LEMMA MovedType ==
    ASSUME IVTypeOK, NEW p \in Phase
    PROVE  Moved(p) \in Status
  BY DEF IVTypeOK, Moved, Status

LEMMA MergeType ==
    ASSUME NEW old \in Status, NEW new \in Status
    PROVE  Merge(old, new) \in Status
  BY DEF Merge, Status

LEMMA IVTypeStep ==
    ASSUME TypeOK, IVObserve \/ IVReconcile \/ IVAbort
    PROVE  IVTypeOK'
<1>a. IVTypeOK /\ SJTypeOK
  BY DEF TypeOK
<1>b. \A p \in Phase : Moved(p) \in Status
  BY <1>a, MovedType
<1>c. IVIdle \in IVRun
  BY InitialValues DEF IVIdle, IVRun
<1>d. ASSUME NEW p \in Phase, WillPatch(Moved(p)), UNCHANGED <<iv, ivCache>>
      PROVE  IVTypeOK'
  BY <1>d, <1>a, <1>b DEF WillPatch, IVTypeOK, IVRun
<1>1. CASE IVObserve
  BY <1>1, <1>a DEF IVObserve, IVTypeOK
<1>2. CASE IVPending
  BY <1>2, <1>d DEF IVPending, EnterProvisioning, Phase
<1>3. ASSUME Provision PROVE IVTypeOK'
  <2>1. CASE EnterProvisioning
    BY <2>1, <1>d DEF EnterProvisioning, Phase
  <2>2. CASE ~EnterProvisioning
    <3>1. Moved("Scanning") \in Status
      BY <1>b DEF Phase
    <3> QED
      BY <1>3, <2>2, <3>1, <1>a DEF Provision, IVTypeOK, IVRun
  <2> QED
    BY <2>1, <2>2
<1>4. CASE IVProvisioning
  BY <1>4, <1>3 DEF IVProvisioning
<1>5. CASE IVScanning
  <2>1. CASE Children = {}
    BY <1>5, <2>1, <1>3 DEF IVScanning
  <2>2. CASE Children # {}
    <3>1. PICK p \in Phase : WillPatch(Moved(p))
      BY <1>5, <2>2 DEF IVScanning, Phase
    <3> QED
      BY <1>5, <2>2, <3>1, <1>d DEF IVScanning
  <2> QED
    BY <2>1, <2>2
<1>6. CASE IVAggregating
  <2>1. [Moved("Attesting") EXCEPT !.hashed = TRUE, !.evidence = Union] \in Status
    <3>1. Moved("Attesting") \in Status
      BY <1>b DEF Phase
    <3> QED
      BY <3>1, <1>a, UnionType DEF Status
  <2> QED
    BY <1>6, <2>1, <1>a DEF IVAggregating, WillPatch, IVTypeOK, IVRun
<1>7. CASE IVAttesting
  BY <1>7, <1>d DEF IVAttesting, Phase
<1>8. CASE IVGating
  <2>1. iv.decidedAt + 1 \in 0 .. MaxDecisions
    BY <1>8, <1>a, Bounds DEF IVGating, IVTypeOK, Status
  <2>2. Moved(Decided.verdict) \in Status
    BY <1>b, DecidedType DEF Phase, GateVerdict
  <2>3. [Moved(Decided.verdict) EXCEPT
            !.verdict = Decided.verdict, !.action = DecidedAction,
            !.judged = Union, !.decidedAt = iv.decidedAt + 1] \in Status
    BY <1>a, <2>1, <2>2, UnionType, DecidedType DEF Status
  <2> QED
    BY <1>8, <2>3, <1>a DEF IVGating, WillPatch, IVTypeOK, IVRun
<1>9. CASE IVPatch
  <2>1. Merge(iv, ivRun.new) \in Status
    BY <1>a, MergeType DEF IVTypeOK, IVRun
  <2> QED
    BY <1>9, <2>1, <1>a, <1>c DEF IVPatch, IVTypeOK
<1>10. CASE \E s \in Scanner : IVCreateScanJob(s)
  <2>1. PICK s \in Scanner : IVCreateScanJob(s)
    BY <1>10
  <2>2. ivRun' \in IVRun
    BY <2>1, <1>a DEF IVCreateScanJob, IVTypeOK, IVRun
  <2> QED
    BY <2>1, <2>2, <1>a DEF IVCreateScanJob, IVTypeOK
<1>11. CASE IVAbort
  BY <1>11, <1>a, <1>c DEF IVAbort, IVTypeOK
<1> QED
  BY <1>1, <1>2, <1>4, <1>5, <1>6, <1>7, <1>8, <1>9, <1>10, <1>11 DEF IVReconcile

\* What a step of Next is, by the component that takes it.
LEMMA NextCases ==
    ASSUME Next
    PROVE  \/ IVObserve \/ IVReconcile \/ IVAbort
           \/ /\ UNCHANGED <<tenantVars, ivVars>>
              /\ \E s \in Scanner :
                    \/ SJObserve(s) \/ SJReconcile(s) \/ SJAbort(s)
                    \/ JobSucceeds(s) \/ JobAttemptFails(s) \/ JobExpires(s)
           \/ TenantNext /\ UNCHANGED <<sjVars, ivVars>>
  BY DEF Next, SJNext

\* What a step of the validation's reconciler does to its children.
LEMMA IVChildren ==
    ASSUME IVObserve \/ IVReconcile \/ IVAbort
    PROVE  /\ UNCHANGED sjVars \/ \E s \in Scanner : IVCreateScanJob(s)
           /\ UNCHANGED tenantVars \/ TenantCreate
  BY DEF IVObserve, IVReconcile, IVAbort, IVPending, IVProvisioning, IVScanning,
     IVAggregating, IVAttesting, IVGating, IVPatch, IVCreateScanJob, Provision,
     EnterProvisioning, WillPatch, sjVars, tenantVars

LEMMA TypeStep == TypeOK /\ [Next]_vars => TypeOK'
<1> SUFFICES ASSUME TypeOK, [Next]_vars PROVE TypeOK'
  OBVIOUS
<1>a. SJTypeOK /\ TenantTypeOK /\ IVTypeOK
  BY DEF TypeOK
<1>b. UNCHANGED sjVars => SJTypeOK'
  BY <1>a DEF sjVars, SJTypeOK
<1>c. UNCHANGED tenantVars => TenantTypeOK'
  BY <1>a DEF tenantVars, TenantTypeOK
<1>d. UNCHANGED ivVars => IVTypeOK'
  BY <1>a DEF ivVars, IVTypeOK
<1>1. CASE IVObserve \/ IVReconcile \/ IVAbort
  <2>1. SJTypeOK'
    BY <1>1, <1>a, <1>b, IVChildren, SJTypeStep DEF IVCreateScanJob
  <2>2. TenantTypeOK'
    BY <1>1, <1>a, <1>c, IVChildren, TenantTypeStep
  <2> QED
    BY <1>1, <2>1, <2>2, IVTypeStep DEF TypeOK
<1>2. CASE /\ UNCHANGED <<tenantVars, ivVars>>
           /\ \E s \in Scanner :
                 \/ SJObserve(s) \/ SJReconcile(s) \/ SJAbort(s)
                 \/ JobSucceeds(s) \/ JobAttemptFails(s) \/ JobExpires(s)
  BY <1>2, <1>a, <1>c, <1>d, SJTypeStep DEF TypeOK
<1>3. CASE TenantNext /\ UNCHANGED <<sjVars, ivVars>>
  BY <1>3, <1>a, <1>b, <1>d, TenantTypeStep DEF TypeOK
<1>4. CASE UNCHANGED vars
  BY <1>4, <1>b, <1>c, <1>d DEF vars, TypeOK
<1> QED
  BY <1>1, <1>2, <1>3, <1>4, NextCases

\* Every variable keeps its type: among others, no reconcile in flight ever
\* carries a status outside the CRD's, and bounded counters stay in bounds.
THEOREM TypeCorrect == Spec => []TypeOK
  BY TypeInit, TypeStep, PTL DEF Spec

-----------------------------------------------------------------------------
(***************************************************************************)
(* ScanJobs: a cached ScanJob trails by at most one phase.                 *)
(***************************************************************************)

\* The conjunct of ScanJobsTrail for one scanner.
JobTrails(s) ==
    /\ SJRank(sjCache[s]) <= SJRank(sj[s].phase)
    /\ SJRank(sj[s].phase) <= SJRank(sjCache[s]) + 1
    /\ sjRun[s].to = "Forking" =>
          SJRank(sjCache[s]) >= SJRank("Pending") /\ SJRank(sj[s].phase) <= SJRank("Forking")
    /\ sjRun[s].to = "Attested" => SJRank(sjCache[s]) >= SJRank("Running")

LEMMA ScanJobsTrailDef == ScanJobsTrail <=> \A s \in Scanner : JobTrails(s)
  BY DEF ScanJobsTrail, JobTrails

LEMMA ScanJobsTrailPrime == ScanJobsTrail' <=> \A s \in Scanner : JobTrails(s)'
  BY DEF ScanJobsTrail, JobTrails

\* A step of one ScanJob keeps its own trail, and moves its phase forward.
LEMMA JobTrailsStep ==
    ASSUME SJTypeOK, NEW s \in Scanner, JobTrails(s),
           \/ SJObserve(s) \/ SJReconcile(s) \/ SJAbort(s) \/ SJCreate(s)
           \/ JobSucceeds(s) \/ JobAttemptFails(s) \/ JobExpires(s)
    PROVE  JobTrails(s)' /\ SJRank(sj'[s].phase) >= SJRank(sj[s].phase)
<1>a. sj[s] \in ScanJobStatus /\ sjRun[s] \in ScanJobRun /\ sjCache[s] \in SJPhase
  BY DEF SJTypeOK
<1>b. sj[s].phase \in SJPhase /\ sjRun[s].to \in {"idle", "Forking", "Attested"}
  BY <1>a DEF ScanJobStatus, ScanJobRun
<1>c. Idle.to = "idle"
  BY DEF Idle
<1>d. \A p \in SJPhase : SJRank(p) \in 0 .. 5
  BY SJRankTable DEF SJPhase
<1>1. CASE SJObserve(s)
  BY <1>1, <1>a, <1>b, <1>d, SJRankTable DEF SJObserve, SJTypeOK, JobTrails
<1>2. CASE SJFork(s)
  BY <1>2, <1>a, <1>b, <1>c, SJRankTable DEF SJFork, SJReady, SJTypeOK, JobTrails, SJPhase, ScanJobRun
<1>3. CASE SJAdvance(s)
  BY <1>3, <1>a, <1>b, <1>c, SJRankTable DEF SJAdvance, SJReady, SJTypeOK, JobTrails, SJPhase, ScanJobStatus
<1>4. CASE SJCollect(s)
  BY <1>4, <1>a, <1>b, <1>c, SJRankTable DEF SJCollect, SJReady, SJTypeOK, JobTrails, SJPhase
<1>5. CASE SJPatch(s)
  BY <1>5, <1>a, <1>b, <1>c, SJRankTable DEF SJPatch, SJTypeOK, JobTrails, SJPhase, ScanJobStatus
<1>6. CASE SJAbort(s)
  BY <1>6, <1>a, <1>b, <1>c, <1>d DEF SJAbort, SJTypeOK, JobTrails
<1>7. CASE SJCreate(s)
  BY <1>7, <1>a, <1>b, <1>c, SJRankTable DEF SJCreate, SJTypeOK, JobTrails, SJPhase, ScanJobStatus
<1>8. CASE JobSucceeds(s) \/ JobAttemptFails(s) \/ JobExpires(s)
  BY <1>8, <1>b, <1>d DEF JobSucceeds, JobAttemptFails, JobExpires, JobTrails
<1> QED
  BY <1>1, <1>2, <1>3, <1>4, <1>5, <1>6, <1>7, <1>8 DEF SJReconcile

\* It leaves the other ScanJobs alone.
LEMMA SJFrame ==
    ASSUME SJTypeOK, NEW s \in Scanner, NEW t \in Scanner \ {s},
           \/ SJObserve(s) \/ SJReconcile(s) \/ SJAbort(s) \/ SJCreate(s)
           \/ JobSucceeds(s) \/ JobAttemptFails(s) \/ JobExpires(s)
    PROVE  sj'[t] = sj[t] /\ sjCache'[t] = sjCache[t] /\ sjRun'[t] = sjRun[t]
<1>1. SJReconcile(s) => sj'[t] = sj[t] /\ sjCache'[t] = sjCache[t] /\ sjRun'[t] = sjRun[t]
  BY DEF SJReconcile, SJFork, SJAdvance, SJCollect, SJPatch, SJTypeOK
<1> QED
  BY <1>1 DEF SJObserve, SJAbort, SJCreate, JobSucceeds, JobAttemptFails, JobExpires, SJTypeOK

\* What every step of the system does to the ScanJobs.
ScanJobsForward == \A s \in Scanner : SJRank(sj'[s].phase) >= SJRank(sj[s].phase)

LEMMA ScanJobsTrailStep ==
    ASSUME TypeOK, ScanJobsTrail, [Next]_vars
    PROVE  ScanJobsTrail' /\ ScanJobsForward
<1>a. SJTypeOK /\ \A s \in Scanner : JobTrails(s)
  BY ScanJobsTrailDef DEF TypeOK
<1>b. \A s \in Scanner : SJRank(sj[s].phase) \in 0 .. 5
  BY <1>a, SJRankTable DEF SJTypeOK, ScanJobStatus, SJPhase
<1>1. CASE UNCHANGED sjVars
  BY <1>1, <1>a, <1>b, ScanJobsTrailPrime DEF sjVars, JobTrails, ScanJobsForward
<1>2. ASSUME NEW s \in Scanner,
             \/ SJObserve(s) \/ SJReconcile(s) \/ SJAbort(s) \/ SJCreate(s)
             \/ JobSucceeds(s) \/ JobAttemptFails(s) \/ JobExpires(s)
      PROVE  ScanJobsTrail' /\ ScanJobsForward
  <2>1. JobTrails(s)' /\ SJRank(sj'[s].phase) >= SJRank(sj[s].phase)
    BY <1>2, <1>a, JobTrailsStep
  <2>2. ASSUME NEW t \in Scanner \ {s}
        PROVE  JobTrails(t)' /\ SJRank(sj'[t].phase) >= SJRank(sj[t].phase)
    <3>1. sj'[t] = sj[t] /\ sjCache'[t] = sjCache[t] /\ sjRun'[t] = sjRun[t]
      BY <1>2, <1>a, SJFrame
    <3> QED
      BY <3>1, <1>a, <1>b DEF JobTrails
  <2> QED
    BY <2>1, <2>2, ScanJobsTrailPrime DEF ScanJobsForward
<1>3. CASE IVObserve \/ IVReconcile \/ IVAbort
  BY <1>3, <1>1, <1>2, IVChildren DEF IVCreateScanJob
<1>4. CASE UNCHANGED vars
  BY <1>4, <1>1 DEF vars
<1>5. CASE Next
  BY <1>5, <1>1, <1>2, <1>3, NextCases
<1> QED
  BY <1>4, <1>5

-----------------------------------------------------------------------------
(***************************************************************************)
(* The validation: what its phase says of the children is stable, since    *)
(* neither ScanJobs nor tenants ever go back to "absent".                  *)
(***************************************************************************)

LEMMA PhaseRank == \A p \in Phase : Rank(p) \in 0 .. 6
  BY RankTable DEF Phase

LEMMA PresenceIsStable ==
    ASSUME TypeOK, ScanJobsTrail, [Next]_vars
    PROVE  /\ \A s \in Scanner : sj[s].phase # "absent" => sj'[s].phase # "absent"
           /\ \A s \in Scanner : sj[s].phase = "Attested" => sj'[s].phase = "Attested"
           /\ tenant # "absent" => tenant' # "absent"
<1>1. \A s \in Scanner : sj[s].phase \in SJPhase /\ sj'[s].phase \in SJPhase
  BY TypeStep DEF TypeOK, SJTypeOK, ScanJobStatus
<1>2. ScanJobsForward
  BY ScanJobsTrailStep
<1>3. tenant # "absent" => tenant' # "absent"
  <2>1. TenantNext \/ TenantCreate => (tenant # "absent" => tenant' # "absent")
    BY DEF TypeOK, TenantTypeOK, TenantNext, TenantReconcile, TenantCreate, TenantObserve,
       TenantAssess, TenantReap, TenantPatch, TenantAbort, ServiceUp, ServiceDown,
       OperatorTeardown
  <2> QED
    BY <2>1, NextCases, IVChildren DEF vars, tenantVars
<1> QED
  BY <1>1, <1>2, <1>3, SJRankTable DEF ScanJobsForward, SJPhase

LEMMA RankOfPhase ==
    ASSUME NEW p \in Phase
    PROVE  /\ Rank(p) = 0 <=> p = "Pending"
           /\ Rank(p) = 1 <=> p = "Provisioning"
           /\ Rank(p) = 2 <=> p = "Scanning"
           /\ Rank(p) = 3 <=> p = "Aggregating"
           /\ Rank(p) = 4 <=> p = "Attesting"
           /\ Rank(p) = 5 <=> p = "Gating"
           /\ Rank(p) = 6 <=> p \in GateVerdict
  BY RankTable DEF Phase, GateVerdict

\* A handler that patches moves from the cached phase to the same or the next
\* one, never behind the API server, and only when the children allow it.
StartsWell(r) ==
    /\ Rank(iv.phase) <= Rank(r.new.phase)
    /\ Rank(r.new.phase) <= Rank(ivCache.phase) + 1
    /\ r.pc = "create" => r.new.phase = "Scanning" /\ r.todo = Scanner
    /\ r.pc = "patch" /\ Rank(r.new.phase) >= 2 => \A s \in Scanner : sj[s].phase # "absent"
    /\ Rank(r.new.phase) >= 3 => \A s \in Scanner : sj[s].phase = "Attested"

Starts ==
    \/ IVPending \/ IVProvisioning \/ IVScanning
    \/ IVAggregating \/ IVAttesting \/ IVGating

LEMMA MovedPhase == ASSUME IVTypeOK, NEW p PROVE Moved(p).phase = p
  BY DEF Moved, IVTypeOK, Status

LEMMA StartsWellStep ==
    ASSUME IInv, Starts
    PROVE  /\ StartsWell(ivRun')
           /\ ivRun'.pc \in {"create", "patch"}
           /\ tenant' # "absent"
           /\ UNCHANGED <<sjVars, iv, ivCache>>
<1>a. IVTypeOK /\ SJTypeOK /\ TenantTypeOK
  BY DEF IInv, TypeOK
<1>b. iv.phase \in Phase /\ ivCache.phase \in Phase
  BY <1>a DEF IVTypeOK, Status
<1>c. \A p : Moved(p).phase = p
  BY <1>a, MovedPhase
<1>d. Rank(iv.phase) \in {Rank(ivCache.phase), Rank(ivCache.phase) + 1}
  BY <1>b, PhaseRank DEF IInv, ValidationTrails
<1>e. /\ Rank(iv.phase) >= 1 => tenant # "absent"
      /\ Rank(iv.phase) >= 2 => \A s \in Scanner : sj[s].phase # "absent"
      /\ Rank(iv.phase) >= 3 => \A s \in Scanner : sj[s].phase = "Attested"
  BY RankTable DEF IInv, ChildrenKeepUp, Reached
<1>1. CASE IVPending
  <2>1. ivRun' = [pc |-> "patch", todo |-> {}, new |-> Moved("Provisioning")]
    BY <1>1 DEF IVPending, EnterProvisioning, WillPatch
  <2>2. tenant' # "absent"
    BY <1>1 DEF IVPending, EnterProvisioning, TenantCreate
  <2>3. UNCHANGED <<sjVars, iv, ivCache>> /\ ivCache.phase = "Pending"
    BY <1>1 DEF IVPending, EnterProvisioning
  <2> QED
    BY <2>1, <2>2, <2>3, <1>c, <1>d, RankTable DEF StartsWell
<1>2. ASSUME Provision, ivCache.phase = "Provisioning"
      PROVE  /\ StartsWell(ivRun') /\ ivRun'.pc = "create"
             /\ tenant' # "absent" /\ UNCHANGED <<sjVars, iv, ivCache>>
  <2>1. tenant = "Ready"
    BY <1>2, <1>d, <1>e, RankTable DEF Provision
  <2>2. ivRun' = [pc |-> "create", todo |-> Scanner, new |-> Moved("Scanning")]
    BY <1>2, <2>1 DEF Provision
  <2>3. tenant' = tenant /\ UNCHANGED <<sjVars, iv, ivCache>>
    BY <1>2, <2>1 DEF Provision, tenantVars
  <2> QED
    BY <1>2, <2>1, <2>2, <2>3, <1>c, <1>d, RankTable DEF StartsWell
<1>3. CASE IVProvisioning
  BY <1>3, <1>2 DEF IVProvisioning
<1>4. CASE IVScanning
  <2>1. ivCache.phase = "Scanning" /\ \A s \in Scanner : sj[s].phase # "absent"
    BY <1>4, <1>d, <1>e, RankTable DEF IVScanning
  <2>2. Children = Scanner /\ Children # {}
    BY <2>1, PlatformAssumption DEF Children
  <2>3. /\ ivRun' = [pc |-> "patch", todo |-> {},
                    new |-> Moved(IF AllTerminal THEN "Aggregating" ELSE "Scanning")]
        /\ UNCHANGED <<sjVars, tenantVars, iv, ivCache>>
    BY <1>4, <2>2 DEF IVScanning, WillPatch
  <2>4. AllTerminal <=> \A s \in Scanner : sj[s].phase = "Attested"
    BY <2>2 DEF AllTerminal
  <2>5. tenant' # "absent"
    BY <2>1, <2>3, <1>d, <1>e, RankTable DEF tenantVars
  <2>6. CASE AllTerminal
    BY <2>1, <2>3, <2>4, <2>5, <2>6, <1>c, <1>d, RankTable DEF StartsWell
  <2>7. CASE ~AllTerminal
    BY <2>1, <2>3, <2>4, <2>5, <2>7, <1>c, <1>d, <1>e, RankTable DEF StartsWell
  <2> QED
    BY <2>6, <2>7
<1>5. ASSUME Rank(ivCache.phase) >= 3, NEW new, WillPatch(new),
             Rank(new.phase) = Rank(ivCache.phase) + 1,
             UNCHANGED <<sjVars, tenantVars, iv, ivCache>>
      PROVE  /\ StartsWell(ivRun') /\ ivRun'.pc = "patch"
             /\ tenant' # "absent" /\ UNCHANGED <<sjVars, iv, ivCache>>
  <2>1. Rank(iv.phase) >= 3 /\ Rank(iv.phase) \in 0 .. 6 /\ Rank(ivCache.phase) \in 0 .. 6
    BY <1>5, <1>b, <1>d, PhaseRank
  <2>2. /\ tenant # "absent"
        /\ \A s \in Scanner : sj[s].phase = "Attested"
    BY <2>1, <1>e
  <2> QED
    BY <1>5, <1>d, <2>1, <2>2 DEF WillPatch, StartsWell, tenantVars
<1>6. CASE IVAggregating
  <2> DEFINE new == [Moved("Attesting") EXCEPT !.hashed = TRUE, !.evidence = Union]
  <2>1. new.phase = "Attesting"
    BY <1>c, MovedType, <1>a DEF Status, Phase
  <2>2. /\ WillPatch(new) /\ ivCache.phase = "Aggregating"
        /\ UNCHANGED <<sjVars, tenantVars, iv, ivCache>>
    BY <1>6 DEF IVAggregating
  <2> HIDE DEF new
  <2> QED
    BY <2>1, <2>2, <1>5, RankTable
<1>7. CASE IVAttesting
  BY <1>7, <1>c, <1>5, RankTable DEF IVAttesting
<1>8. CASE IVGating
  <2> DEFINE new == [Moved(Decided.verdict) EXCEPT
                       !.verdict = Decided.verdict, !.action = DecidedAction,
                       !.judged = Union, !.decidedAt = iv.decidedAt + 1]
  <2>1. new.phase = Decided.verdict
    BY <1>c, MovedType, <1>a, DecidedType DEF Status, Phase, GateVerdict
  <2>2. Rank(Decided.verdict) = 6
    BY DecidedType, RankTable DEF GateVerdict
  <2>3. /\ WillPatch(new) /\ ivCache.phase = "Gating"
        /\ UNCHANGED <<sjVars, tenantVars, iv, ivCache>>
    BY <1>8 DEF IVGating
  <2> HIDE DEF new
  <2> QED
    BY <2>1, <2>2, <2>3, <1>5, RankTable
<1> QED
  BY <1>1, <1>3, <1>2, <1>4, <1>6, <1>7, <1>8, <1>5 DEF Starts

\* The parts of IInv about the validation, and the phase moving forward.
ValidationOK == ValidationTrails /\ ChildrenKeepUp

LEMMA ValidationStep ==
    ASSUME IInv, [Next]_vars
    PROVE  ValidationOK' /\ Rank(iv'.phase) >= Rank(iv.phase)
<1>a. TypeOK /\ TypeOK' /\ IVTypeOK /\ IVTypeOK'
  BY TypeStep DEF IInv, TypeOK
<1>b. /\ iv.phase \in Phase /\ ivCache.phase \in Phase /\ ivRun.new.phase \in Phase
      /\ iv'.phase \in Phase /\ ivCache'.phase \in Phase /\ ivRun'.new.phase \in Phase
      /\ ivRun.pc \in {"idle", "create", "patch"} /\ ivRun.todo \subseteq Scanner
  BY <1>a DEF IVTypeOK, Status, IVRun
<1>c. /\ Rank(iv.phase) \in 0 .. 6 /\ Rank(ivCache.phase) \in 0 .. 6
      /\ Rank(ivRun.new.phase) \in 0 .. 6 /\ Rank(iv'.phase) \in 0 .. 6
      /\ Rank(ivCache'.phase) \in 0 .. 6 /\ Rank(ivRun'.new.phase) \in 0 .. 6
  BY <1>b, PhaseRank
<1>d. /\ \A s \in Scanner : sj[s].phase # "absent" => sj'[s].phase # "absent"
      /\ \A s \in Scanner : sj[s].phase = "Attested" => sj'[s].phase = "Attested"
      /\ tenant # "absent" => tenant' # "absent"
  BY PresenceIsStable DEF IInv
<1>e. ValidationTrails /\ ChildrenKeepUp
  BY DEF IInv
<1>1. CASE Starts
  <2>1. /\ StartsWell(ivRun') /\ ivRun'.pc \in {"create", "patch"} /\ tenant' # "absent"
        /\ UNCHANGED <<sjVars, iv, ivCache>>
    BY <1>1, StartsWellStep
  <2>2. sj' = sj
    BY <2>1 DEF sjVars
  <2>3. ValidationTrails'
    BY <2>1, <1>e DEF ValidationTrails, StartsWell
  <2>4. ChildrenKeepUp'
    BY <2>1, <2>2, <1>c, <1>e, RankTable DEF ChildrenKeepUp, Reached, StartsWell
  <2> QED
    BY <2>1, <2>3, <2>4, <1>c DEF ValidationOK
<1>2. CASE IVPatch
  <2>1. /\ ivRun.pc = "patch" /\ ivRun'.pc = "idle" /\ iv'.phase = ivRun.new.phase
        /\ ivCache' = ivCache /\ UNCHANGED <<sj, tenant>>
    BY <1>2 DEF IVPatch, IVIdle, Merge, sjVars, tenantVars
  <2>2. ValidationTrails'
    BY <2>1, <1>c, <1>e DEF ValidationTrails
  <2>3. ChildrenKeepUp'
    BY <2>1, <1>c, <1>e, RankTable DEF ChildrenKeepUp, Reached
  <2> QED
    BY <2>1, <2>2, <2>3, <1>c, <1>e DEF ValidationOK, ValidationTrails
<1>3. CASE \E s \in Scanner : IVCreateScanJob(s)
  <2>1. PICK s \in Scanner : IVCreateScanJob(s)
    BY <1>3
  <2>2. /\ ivRun.pc = "create" /\ ivRun'.new = ivRun.new
        /\ UNCHANGED <<iv, ivCache, tenant>>
        /\ ivRun'.pc = IF ivRun.todo = {s} THEN "patch" ELSE "create"
        /\ ivRun'.todo = ivRun.todo \ {s}
    BY <2>1, <1>a DEF IVCreateScanJob, tenantVars, IVTypeOK, IVRun
  <2>3. sj'[s].phase # "absent"
    BY <2>1, <1>a DEF IVCreateScanJob, SJCreate, TypeOK, SJTypeOK, ScanJobStatus
  <2>4. ivRun.new.phase = "Scanning" /\ \A t \in Scanner \ ivRun.todo : sj[t].phase # "absent"
    BY <2>2, <1>e DEF ChildrenKeepUp
  <2>5. \A t \in Scanner \ ivRun'.todo : sj'[t].phase # "absent"
    BY <2>2, <2>3, <2>4, <1>d
  <2>6. ivRun'.pc = "patch" => \A t \in Scanner : sj'[t].phase # "absent"
    BY <2>2, <2>5
  <2>7. ValidationTrails'
    BY <2>2, <1>e DEF ValidationTrails
  <2>8. ChildrenKeepUp'
    BY <2>2, <2>4, <2>5, <2>6, <1>c, <1>d, <1>e, RankTable DEF ChildrenKeepUp, Reached
  <2> QED
    BY <2>2, <2>7, <2>8, <1>c DEF ValidationOK
<1>4. CASE IVObserve
  <2>1. ivCache' = iv /\ UNCHANGED <<sj, tenant, iv, ivRun>>
    BY <1>4 DEF IVObserve, sjVars, tenantVars
  <2>2. ValidationTrails'
    BY <2>1, <1>c, <1>e DEF ValidationTrails
  <2>3. ChildrenKeepUp'
    BY <2>1, <1>e DEF ChildrenKeepUp, Reached
  <2> QED
    BY <2>1, <2>2, <2>3, <1>c DEF ValidationOK
<1>5. CASE IVAbort
  <2>1. ivRun'.pc = "idle" /\ UNCHANGED <<sj, tenant, iv, ivCache>>
    BY <1>5 DEF IVAbort, IVIdle, sjVars, tenantVars
  <2>2. ValidationTrails'
    BY <2>1, <1>e DEF ValidationTrails
  <2>3. ChildrenKeepUp'
    BY <2>1, <1>e, RankTable DEF ChildrenKeepUp, Reached
  <2> QED
    BY <2>1, <2>2, <2>3, <1>c DEF ValidationOK
<1>6. CASE UNCHANGED ivVars
  <2>1. UNCHANGED <<iv, ivCache, ivRun>>
    BY <1>6 DEF ivVars
  <2>2. ValidationTrails'
    BY <2>1, <1>e DEF ValidationTrails
  <2>3. ChildrenKeepUp'
    BY <2>1, <1>d, <1>e DEF ChildrenKeepUp, Reached
  <2> QED
    BY <2>1, <2>2, <2>3, <1>c DEF ValidationOK
<1>7. CASE UNCHANGED vars
  BY <1>7, <1>6 DEF vars
<1>8. CASE Next
  BY <1>8, <1>1, <1>2, <1>3, <1>4, <1>5, <1>6, NextCases DEF Starts, IVReconcile
<1> QED
  BY <1>7, <1>8

LEMMA IInvInit == Init => IInv
<1> SUFFICES ASSUME Init PROVE IInv
  OBVIOUS
<1>1. TypeOK
  BY TypeInit
<1>2. ScanJobsTrail
  BY SJRankTable DEF Init, SJInit, ScanJobsTrail, NoJob, Idle
<1>3. iv = NewStatus /\ ivCache = NewStatus /\ ivRun = IVIdle /\ Rank(NewStatus.phase) = 0
  BY RankTable DEF Init, NewStatus
<1>4. ValidationTrails /\ ChildrenKeepUp
  BY <1>3, RankTable DEF ValidationTrails, ChildrenKeepUp, Reached, IVIdle
<1> QED
  BY <1>1, <1>2, <1>4 DEF IInv

LEMMA IInvStep == IInv /\ [Next]_vars => IInv'
<1> SUFFICES ASSUME IInv, [Next]_vars PROVE IInv'
  OBVIOUS
<1>1. TypeOK'
  BY TypeStep DEF IInv
<1>2. ScanJobsTrail'
  BY ScanJobsTrailStep DEF IInv
<1>3. ValidationTrails' /\ ChildrenKeepUp'
  BY ValidationStep DEF ValidationOK
<1> QED
  BY <1>1, <1>2, <1>3 DEF IInv

-----------------------------------------------------------------------------
(***************************************************************************)
(* The theorems.                                                           *)
(***************************************************************************)

\* The strengthened invariant: caches trail their objects by at most one
\* phase, and every phase of the validation implies what it says of its
\* tenant and its ScanJobs.
THEOREM Invariance == Spec => []IInv
  BY IInvInit, IInvStep, PTL DEF Spec

\* Nothing is aggregated, attested or gated before every required scanner has
\* an attested ScanJob, although handle_scanning only looks at the children it
\* lists: for every set of scanners, under every fault.
THEOREM GateComesAfterScans == Spec => []GateAfterScans
<1>1. IInv => GateAfterScans
  BY DEF IInv, ChildrenKeepUp, GateAfterScans, Reached
<1> QED
  BY Invariance, <1>1, PTL

\* No step moves the validation or a ScanJob back along the documented chain,
\* although patches are built from cached objects and carry no
\* resourceVersion.
THEOREM PhasesMoveForward == Spec => PhasesNeverRegress
<1>1. IInv /\ [Next]_vars =>
        [/\ Rank(iv'.phase) >= Rank(iv.phase)
         /\ \A s \in Scanner : SJRank(sj'[s].phase) >= SJRank(sj[s].phase)]_vars
  BY ValidationStep, ScanJobsTrailStep DEF IInv, ScanJobsForward
<1> QED
  BY Invariance, <1>1, PTL DEF Spec, PhasesNeverRegress

(***************************************************************************)
(* The gate on a validation's snapshot.                                    *)
(***************************************************************************)

\* The findings the gate is shown hold a critical CVE.
BlockingUnion == \E e \in Union : CriticalCve(e[2])

\* The image really has one.
Justified == \E s \in Scanner : \E f \in truth[s] : CriticalCve(f)

LEMMA SnapshotIs ==
    /\ DOMAIN Snapshot = {"digest"}
    /\ Snapshot["digest"].status = "Pending"
    /\ Snapshot["digest"].attestations = {}
    /\ CriticalCves(Snapshot["digest"]) # {} <=> BlockingUnion
<1>1. /\ DOMAIN Snapshot = {"digest"}
      /\ Snapshot["digest"].status = "Pending"
      /\ Snapshot["digest"].attestations = {}
      /\ Snapshot["digest"].findings =
            {[severity |-> e[2].severity, cve |-> e[2].cve, age |-> 0, excepted |-> FALSE] :
                e \in Union}
    BY DEF Snapshot
<1>2. ASSUME NEW f \in CriticalCves(Snapshot["digest"]) PROVE BlockingUnion
    BY <1>1, <1>2 DEF CriticalCves, Counted, BlockingUnion, CriticalCve
<1>3. ASSUME NEW e \in Union, CriticalCve(e[2])
      PROVE  [severity |-> e[2].severity, cve |-> e[2].cve, age |-> 0, excepted |-> FALSE]
                \in CriticalCves(Snapshot["digest"])
    BY <1>1, <1>3 DEF CriticalCves, Counted, CriticalCve
<1> QED
    BY <1>1, <1>2, <1>3 DEF BlockingUnion

LEMMA InOnePart ==
    ASSUME NEW items, NEW d \in DOMAIN items, NEW x \in items[d]
    PROVE  <<d, x>> \in PerDigest(items)
    BY DEF PerDigest

LEMMA PartsOf ==
    ASSUME NEW items, NEW p \in PerDigest(items)
    PROVE  \E d \in DOMAIN items : items[d] # {}
    BY DEF PerDigest

\* The verdict fails for a critical CVE in the union and for nothing else;
\* outside the scan-only mode there is an action, which revokes only then.
LEMMA DecidedIs ==
    /\ Decided.verdict = IF BlockingUnion THEN "Failed" ELSE "Passed"
    /\ DecidedAction = "revoke" => Decided.verdict = "Failed"
    /\ ScanOnly <=> DecidedAction = "none"
<1> DEFINE spec     == SecuritySpec(Scanner, Attestations, FALSE)
           drift    == Diff(spec, Snapshot)
           severity == Classify(drift)
           critical == [d \in {"digest"} |-> CriticalCves(Snapshot[d])]
           lacking  == [d \in {"digest"} |-> Attestations \ Snapshot[d].attestations]
<1>1. /\ drift.revoked = {}
      /\ drift.critical = PerDigest(critical)
      /\ drift.attestations = PerDigest(lacking)
    BY SnapshotIs DEF Diff, Withdrawn, SecuritySpec
<1>2. /\ Decided.severity = severity
      /\ Decided.decision = Decide(spec, severity, drift)
      /\ Decided.verdict = VerdictOf(severity, Decide(spec, severity, drift))
    BY DEF Decided, Gate
<1> HIDE DEF spec, drift
<1>3. drift.critical # {} <=> BlockingUnion
    <2>1. DOMAIN critical = {"digest"} /\ (critical["digest"] # {} <=> BlockingUnion)
        BY SnapshotIs
    <2> HIDE DEF critical
    <2>2. ASSUME BlockingUnion PROVE PerDigest(critical) # {}
        BY <2>1, <2>2, InOnePart
    <2>3. ASSUME PerDigest(critical) # {} PROVE BlockingUnion
        BY <2>1, <2>3, PartsOf
    <2> QED
        BY <1>1, <2>2, <2>3
<1>4. drift.attestations # {} <=> ~ScanOnly
    <2>1. DOMAIN lacking = {"digest"} /\ lacking["digest"] = Attestations
        BY SnapshotIs
    <2> HIDE DEF lacking
    <2>2. ASSUME Attestations # {} PROVE PerDigest(lacking) # {}
        BY <2>1, <2>2, InOnePart
    <2>3. ASSUME PerDigest(lacking) # {} PROVE Attestations # {}
        BY <2>1, <2>3, PartsOf
    <2> QED
        BY <1>1, <2>2, <2>3, GateAssumption
<1>5. severity = "Critical" <=> BlockingUnion
    BY <1>1, <1>3 DEF Classify
<1>6. ~ScanOnly /\ ~BlockingUnion => severity = "Functional"
    BY <1>1, <1>3, <1>4 DEF Classify
<1> HIDE DEF severity
<1>7. ASSUME severity = "Critical"
      PROVE  Decided.decision.kind = "AutoCorrect" /\ Decided.decision.actions # {}
    <2>1. Decided.decision = AutoCorrect(Remediation(drift))
        BY <1>2, <1>7 DEF Decide
    <2>2. PICK c : c \in drift.critical
        BY <1>3, <1>5, <1>7
    <2>3. Step("FluxCommit", c) \in Remediation(drift)
        BY <2>2 DEF Remediation
    <2> QED
        BY <2>1, <2>3 DEF AutoCorrect
<1>8. ASSUME severity = "Functional", ~ScanOnly PROVE Decided.decision.actions # {}
    <2>1. PICK m : m \in drift.attestations
        BY <1>4, <1>8
    <2>2. Step(AttestationReconciler(m[2]), m) \in Repair(drift)
        BY <2>1 DEF Repair
    <2>3. Decided.decision = AutoCorrect(Repair(drift))
        BY <2>2, <1>2, <1>8 DEF Decide
    <2> QED
        BY <2>2, <2>3 DEF AutoCorrect
<1>9. Decided.verdict = IF severity = "Critical" THEN "Failed" ELSE "Passed"
    BY <1>2, <1>7 DEF VerdictOf
<1>10. DecidedAction = IF ScanOnly \/ Decided.decision.actions = {} THEN "none"
                       ELSE IF severity = "Critical" THEN "revoke" ELSE "repair"
    BY <1>2 DEF DecidedAction
<1> QED
    BY <1>5, <1>6, <1>7, <1>8, <1>9, <1>10

-----------------------------------------------------------------------------
(***************************************************************************)
(* The decision on the object.  Every status there is, on the API server,  *)
(* in the cache or in flight, agrees with itself, and a merge of two that  *)
(* do agrees too as long as the new one is not behind the old one.         *)
(***************************************************************************)

Agrees(st) ==
    /\ st.hashed <=> Rank(st.phase) >= Rank("Attesting")
    /\ st.phase \in Terminal => st.verdict = st.phase
    /\ st.phase \notin Terminal => st.verdict = "none" /\ st.action = "none"
    /\ st.action = "revoke" => st.verdict = "Failed"
    /\ st.phase \in Terminal => (ScanOnly <=> st.action = "none")
    /\ st.phase = "Failed" => Justified

\* No finding is made up: what a ScanJob holds, and what is on its way to it,
\* is part of what the image has.
FromTruth == \A s \in Scanner : sj[s].found \subseteq truth[s] /\ sjRun[s].found \subseteq truth[s]

DecisionInv ==
    IInv /\ FromTruth /\ Agrees(iv) /\ Agrees(ivCache) /\ Agrees(ivRun.new)

LEMMA TerminalRank ==
    ASSUME NEW p \in Phase
    PROVE  /\ p \in Terminal <=> Rank(p) = 6
           /\ p \notin Terminal <=> Rank(p) <= 5
           /\ Rank(p) \in 0 .. 6
    BY RankTable DEF Phase, Terminal

LEMMA MergeAgrees ==
    ASSUME NEW old \in Status, NEW new \in Status, Agrees(old), Agrees(new),
           Rank(old.phase) <= Rank(new.phase)
    PROVE  Agrees(Merge(old, new))
<1> DEFINE m == Merge(old, new)
<1>1. /\ m.phase = new.phase
      /\ m.hashed = (old.hashed \/ new.hashed)
      /\ m.verdict = IF new.verdict # "none" THEN new.verdict ELSE old.verdict
      /\ m.action = IF new.action # "none" THEN new.action ELSE old.action
    BY DEF Merge
<1>2. /\ old.phase \in Phase /\ new.phase \in Phase
      /\ old.hashed \in BOOLEAN /\ new.hashed \in BOOLEAN
    BY DEF Status
<1>3. old.phase \in Terminal => new.phase \in Terminal
    BY <1>2, TerminalRank
<1>4. old.hashed => new.hashed
    BY <1>2, TerminalRank, RankTable DEF Agrees
<1>5. "none" \notin Terminal
    BY DEF Terminal
<1> HIDE DEF m
<1>6. m.hashed <=> Rank(m.phase) >= Rank("Attesting")
    BY <1>1, <1>4, <1>2 DEF Agrees
<1>7. new.phase \in Terminal =>
          /\ m.verdict = new.phase
          /\ m.action = "revoke" => m.verdict = "Failed"
          /\ ScanOnly <=> m.action = "none"
    <2>1. CASE ScanOnly
        BY <2>1, <1>1, <1>5 DEF Agrees
    <2>2. CASE ~ScanOnly
        BY <2>2, <1>1, <1>5 DEF Agrees
    <2> QED
        BY <2>1, <2>2
<1>8. new.phase \notin Terminal => m.verdict = "none" /\ m.action = "none"
    BY <1>1, <1>3 DEF Agrees
<1>9. m.phase = "Failed" => Justified
    BY <1>1 DEF Agrees
<1> QED
    BY <1>1, <1>6, <1>7, <1>8, <1>9 DEF Agrees, m

\* A reconcile starts from a cached status that agrees and builds one that does.
LEMMA StartAgrees ==
    ASSUME DecisionInv, Starts
    PROVE  Agrees(ivRun'.new)
<1>a. /\ IVTypeOK /\ ivCache \in Status /\ ivCache.phase \in Phase
      /\ Agrees(ivCache) /\ FromTruth /\ SJTypeOK
    BY DEF DecisionInv, IInv, TypeOK, IVTypeOK, Status
<1>1. ASSUME NEW p \in Phase, Rank(p) \in {Rank(ivCache.phase), Rank(ivCache.phase) + 1},
             Rank(p) <= 5, Rank(p) # 4
      PROVE  Agrees(Moved(p))
    <2>1. /\ Moved(p).phase = p /\ Moved(p).hashed = ivCache.hashed
          /\ Moved(p).verdict = ivCache.verdict /\ Moved(p).action = ivCache.action
        BY <1>a DEF Moved, Status
    <2>2. p \notin Terminal /\ ivCache.phase \notin Terminal
        BY <1>1, <1>a, TerminalRank
    <2>3. Rank(p) >= 4 <=> Rank(ivCache.phase) >= 4
        BY <1>1, <1>a, TerminalRank
    <2> QED
        BY <2>1, <2>2, <2>3, <1>a, RankTable DEF Agrees, Terminal
<1>2. ASSUME Provision, ivCache.phase \in {"Provisioning", "Scanning"},
             tenant # "absent" \/ ivCache.phase = "Provisioning"
      PROVE  ivRun'.new \in {Moved("Provisioning"), Moved("Scanning")}
    BY <1>2 DEF Provision, EnterProvisioning, WillPatch
<1>3. CASE IVPending
    BY <1>3, <1>1, RankTable DEF IVPending, EnterProvisioning, WillPatch, Phase
<1>4. CASE IVProvisioning
    <2>1. Agrees(Moved("Provisioning")) /\ Agrees(Moved("Scanning"))
        BY <1>4, <1>1, RankTable DEF IVProvisioning, Phase
    <2> QED
        BY <2>1, <1>4, <1>2 DEF IVProvisioning
<1>5. CASE IVScanning
    <2>1. /\ ivCache.phase = "Scanning" /\ Rank(iv.phase) >= 2
        BY <1>5, <1>a, RankTable, PhaseRank DEF IVScanning, DecisionInv, IInv, ValidationTrails,
           TypeOK, IVTypeOK, Status
    <2>2. Children # {}
        BY <2>1, PlatformAssumption, RankTable
        DEF DecisionInv, IInv, ChildrenKeepUp, Reached, Children
    <2>3. ivRun'.new \in {Moved("Aggregating"), Moved("Scanning")}
        BY <1>5, <2>2 DEF IVScanning, WillPatch
    <2>4. Agrees(Moved("Aggregating")) /\ Agrees(Moved("Scanning"))
        BY <2>1, <1>1, RankTable DEF Phase
    <2> QED
        BY <2>3, <2>4
<1>6. CASE IVAggregating
    <2> DEFINE new == [Moved("Attesting") EXCEPT !.hashed = TRUE, !.evidence = Union]
    <2>1. /\ new.phase = "Attesting" /\ new.hashed
          /\ new.verdict = ivCache.verdict /\ new.action = ivCache.action
        BY <1>a DEF Moved, Status
    <2>2. ivRun'.new = new /\ ivCache.phase = "Aggregating"
        BY <1>6 DEF IVAggregating, WillPatch
    <2> HIDE DEF new
    <2> QED
        BY <2>1, <2>2, <1>a, RankTable DEF Agrees, Terminal
<1>7. CASE IVAttesting
    <2>1. /\ Moved("Gating").phase = "Gating" /\ Moved("Gating").hashed = ivCache.hashed
          /\ Moved("Gating").verdict = ivCache.verdict /\ Moved("Gating").action = ivCache.action
        BY <1>a DEF Moved, Status
    <2>2. ivRun'.new = Moved("Gating") /\ ivCache.phase = "Attesting"
        BY <1>7 DEF IVAttesting, WillPatch
    <2> QED
        BY <2>1, <2>2, <1>a, RankTable DEF Agrees, Terminal
<1>8. CASE IVGating
    <2> DEFINE new == [Moved(Decided.verdict) EXCEPT
                         !.verdict = Decided.verdict, !.action = DecidedAction,
                         !.judged = Union, !.decidedAt = iv.decidedAt + 1]
    <2>1. /\ new.phase = Decided.verdict /\ new.hashed = ivCache.hashed
          /\ new.verdict = Decided.verdict /\ new.action = DecidedAction
        BY <1>a DEF Moved, Status
    <2>2. ivRun'.new = new /\ ivCache.phase = "Gating"
        BY <1>8 DEF IVGating, WillPatch
    <2>3. BlockingUnion => Justified
        BY <1>a DEF BlockingUnion, Justified, Union, Children, FromTruth
    <2> HIDE DEF new
    <2> QED
        BY <2>1, <2>2, <2>3, <1>a, RankTable, DecidedIs DEF Agrees, Terminal
<1> QED
    BY <1>3, <1>4, <1>5, <1>6, <1>7, <1>8 DEF Starts

\* Of the handlers, only handle_gating ends a validation.
LEMMA OnlyTheGateDecides ==
    ASSUME IVTypeOK, Starts, ~IVGating
    PROVE  ivRun'.new.phase \notin Terminal
<1>1. \A p : Moved(p).phase = p
    BY MovedPhase
<1>2. [Moved("Attesting") EXCEPT !.hashed = TRUE, !.evidence = Union].phase = "Attesting"
    BY DEF Moved, IVTypeOK, Status
<1>3. Provision => ivRun'.new \in {Moved("Provisioning"), Moved("Scanning")}
    BY DEF Provision, EnterProvisioning, WillPatch
<1>4. IVPending => ivRun'.new = Moved("Provisioning")
    BY DEF IVPending, EnterProvisioning, WillPatch
<1>5. IVScanning => ivRun'.new \in {Moved("Provisioning"), Moved("Scanning"),
                                    Moved("Aggregating")}
    BY <1>3 DEF IVScanning, WillPatch
<1>6. IVAttesting => ivRun'.new = Moved("Gating")
    BY DEF IVAttesting, WillPatch
<1>7. IVAggregating =>
        ivRun'.new = [Moved("Attesting") EXCEPT !.hashed = TRUE, !.evidence = Union]
    BY DEF IVAggregating, WillPatch
<1>8. ivRun'.new.phase \in {"Provisioning", "Scanning", "Aggregating", "Attesting", "Gating"}
    BY <1>1, <1>2, <1>3, <1>4, <1>5, <1>6, <1>7 DEF Starts, IVProvisioning
<1> QED
    BY <1>8 DEF Terminal

LEMMA TruthStands == ASSUME Next PROVE truth' = truth
    BY NextCases, IVChildren DEF SJObserve, SJReconcile, SJFork, SJAdvance, SJCollect, SJPatch,
       SJAbort, JobSucceeds, JobAttemptFails, JobExpires, IVCreateScanJob, SJCreate, sjVars

\* One ScanJob at a time, and no step makes a finding up.
LEMMA SJFromTruth ==
    ASSUME SJTypeOK, FromTruth, NEW s \in Scanner,
           \/ SJObserve(s) \/ SJReconcile(s) \/ SJAbort(s) \/ SJCreate(s)
           \/ JobSucceeds(s) \/ JobAttemptFails(s) \/ JobExpires(s)
    PROVE  sj'[s].found \subseteq truth[s] /\ sjRun'[s].found \subseteq truth[s]
<1>a. /\ sj[s] \in ScanJobStatus /\ sjRun[s] \in ScanJobRun
      /\ sj[s].found \subseteq truth[s] /\ sjRun[s].found \subseteq truth[s]
      /\ Idle.found = {}
    BY DEF SJTypeOK, FromTruth, Idle
<1>1. CASE SJCollect(s)
    <2>1. PICK out \in Outputs(s) :
              sjRun' = [sjRun EXCEPT ![s] = [to |-> "Attested", found |-> out.found,
                                             source |-> out.source]]
        BY <1>1 DEF SJCollect
    <2>2. out.found \subseteq truth[s]
        BY <2>1 DEF Outputs
    <2> QED
        BY <1>1, <1>a, <2>1, <2>2 DEF SJCollect, SJTypeOK
<1>2. CASE SJFork(s) \/ SJAdvance(s)
    BY <1>2, <1>a DEF SJFork, SJAdvance, SJTypeOK, ScanJobStatus, ScanJobRun
<1>3. CASE SJPatch(s)
    BY <1>3, <1>a DEF SJPatch, SJTypeOK, ScanJobStatus
<1>4. CASE SJAbort(s) \/ SJObserve(s)
    BY <1>4, <1>a DEF SJAbort, SJObserve, SJTypeOK
<1>5. CASE SJCreate(s)
    BY <1>5, <1>a DEF SJCreate, SJTypeOK, ScanJobStatus
<1>6. CASE JobSucceeds(s) \/ JobAttemptFails(s) \/ JobExpires(s)
    BY <1>6, <1>a DEF JobSucceeds, JobAttemptFails, JobExpires
<1> QED
    BY <1>1, <1>2, <1>3, <1>4, <1>5, <1>6 DEF SJReconcile

\* A step of Next is one of one ScanJob, or leaves all of them alone.
LEMMA OneScanJob ==
    ASSUME Next
    PROVE  \/ UNCHANGED sjVars
           \/ \E s \in Scanner :
                 \/ SJObserve(s) \/ SJReconcile(s) \/ SJAbort(s) \/ SJCreate(s)
                 \/ JobSucceeds(s) \/ JobAttemptFails(s) \/ JobExpires(s)
    BY NextCases, IVChildren DEF IVCreateScanJob

LEMMA FromTruthStep == ASSUME TypeOK, FromTruth, Next PROVE FromTruth'
<1>a. SJTypeOK /\ truth' = truth
    BY TruthStands DEF TypeOK
<1>1. CASE UNCHANGED sjVars
    BY <1>1 DEF sjVars, FromTruth
<1>2. ASSUME NEW s \in Scanner,
             \/ SJObserve(s) \/ SJReconcile(s) \/ SJAbort(s) \/ SJCreate(s)
             \/ JobSucceeds(s) \/ JobAttemptFails(s) \/ JobExpires(s),
             NEW t \in Scanner
      PROVE  sj'[t].found \subseteq truth[t] /\ sjRun'[t].found \subseteq truth[t]
    <2>1. CASE t = s
        BY <2>1, <1>a, <1>2, SJFromTruth
    <2>2. CASE t # s
        BY <2>2, <1>a, <1>2, SJFrame DEF FromTruth
    <2> QED
        BY <2>1, <2>2
<1> QED
    BY <1>a, <1>1, <1>2, OneScanJob DEF FromTruth

LEMMA DecisionStart == Init => DecisionInv
<1> SUFFICES ASSUME Init PROVE DecisionInv
    OBVIOUS
<1>1. FromTruth
    BY DEF Init, SJInit, FromTruth, NoJob, Idle
<1>2. Agrees(NewStatus)
    BY RankTable DEF Agrees, NewStatus, Terminal
<1>3. iv = NewStatus /\ ivCache = NewStatus /\ ivRun.new = NewStatus
    BY DEF Init, IVIdle
<1> QED
    BY <1>1, <1>2, <1>3, IInvInit DEF DecisionInv

\* What a step does to the three statuses.
LEMMA StatusCases ==
    ASSUME Next, IVTypeOK
    PROVE  \/ Starts
           \/ IVPatch
           \/ /\ iv' = iv /\ ivCache' \in {iv, ivCache}
              /\ ivRun'.new \in {ivRun.new, NewStatus}
              /\ ivRun'.pc # "idle" => ivRun.pc # "idle" /\ ivRun'.new = ivRun.new
<1>1. ASSUME NEW s \in Scanner, IVCreateScanJob(s)
      PROVE  /\ ivRun'.new = ivRun.new /\ ivRun.pc # "idle"
             /\ iv' = iv /\ ivCache' = ivCache
    BY <1>1 DEF IVCreateScanJob, IVTypeOK, IVRun
<1>2. IVObserve => iv' = iv /\ ivRun' = ivRun /\ ivCache' = iv
    BY DEF IVObserve
<1>3. IVAbort => /\ iv' = iv /\ ivCache' = ivCache
                 /\ ivRun'.new = NewStatus /\ ivRun'.pc = "idle"
    BY DEF IVAbort, IVIdle
<1> QED
    BY <1>1, <1>2, <1>3, NextCases DEF IVReconcile, Starts, ivVars

LEMMA DecisionStep == DecisionInv /\ [Next]_vars => DecisionInv'
<1> SUFFICES ASSUME DecisionInv, [Next]_vars PROVE DecisionInv'
    OBVIOUS
<1>a. /\ IInv /\ TypeOK /\ IVTypeOK /\ FromTruth /\ IInv'
      /\ Agrees(iv) /\ Agrees(ivCache) /\ Agrees(ivRun.new)
    BY IInvStep DEF DecisionInv, IInv, TypeOK
<1>b. Agrees(NewStatus)
    BY RankTable DEF Agrees, NewStatus, Terminal
<1>1. CASE UNCHANGED vars
    <2>1. UNCHANGED <<iv, ivCache, ivRun, sj, sjRun, truth>>
        BY <1>1 DEF vars, ivVars, sjVars
    <2> QED
        BY <2>1, <1>a DEF DecisionInv, FromTruth, Agrees, Justified
<1>2. CASE Next
    <2>1. FromTruth' /\ truth' = truth
        BY <1>2, <1>a, FromTruthStep, TruthStands
    <2>2. ASSUME NEW st, Agrees(st), NEW st2, st2 = st PROVE Agrees(st2)
        BY <2>2
    <2>3. Agrees(iv') /\ Agrees(ivCache') /\ Agrees(ivRun'.new)
        <3>1. CASE Starts
            BY <3>1, <1>a, StartAgrees, StartsWellStep
        <3>2. CASE IVPatch
            <4>1. ivRun.pc = "patch" /\ iv' = Merge(iv, ivRun.new)
                  /\ ivRun'.new = NewStatus /\ ivCache' = ivCache
                BY <3>2 DEF IVPatch, IVIdle
            <4>2. Rank(iv.phase) <= Rank(ivRun.new.phase) /\ iv \in Status /\ ivRun.new \in Status
                BY <4>1, <1>a DEF IInv, ValidationTrails, IVTypeOK, IVRun
            <4> QED
                BY <4>1, <4>2, <1>a, <1>b, MergeAgrees
        <3>3. CASE ivRun'.new \in {ivRun.new, NewStatus} /\ iv' = iv /\ ivCache' \in {iv, ivCache}
            BY <3>3, <1>a, <1>b
        <3> QED
            BY <3>1, <3>2, <3>3, <1>2, <1>a, StatusCases
    <2>4. Agrees(iv)' /\ Agrees(ivCache)' /\ Agrees(ivRun.new)'
        BY <2>1, <2>3 DEF Agrees, Justified
    <2> QED
        BY <2>1, <2>4, <1>a DEF DecisionInv
<1> QED
    BY <1>1, <1>2

LEMMA DecisionInvariance == Spec => []DecisionInv
    BY DecisionStart, DecisionStep, PTL DEF Spec

\* Phase, verdict and evidence hash on the API server agree, whichever stale
\* statuses the merge patches of image_validation.rs were built from.
THEOREM DecisionsMatch == Spec => []DecisionMatchesPhase
<1>1. DecisionInv => DecisionMatchesPhase
    BY RankTable DEF DecisionInv, Agrees, DecisionMatchesPhase, Terminal
<1> QED
    BY DecisionInvariance, <1>1, PTL

\* A validation fails only for a critical CVE the image has: attempts that
\* fail, logs that are lost and collections that repeat may hide one, and
\* never make one up.
THEOREM FailuresAreJustified == Spec => []FailedIsJustified
<1>1. DecisionInv => FailedIsJustified
    BY DEF DecisionInv, Agrees, FailedIsJustified, Justified
<1> QED
    BY DecisionInvariance, <1>1, PTL

\* A revoke action stands only next to a failure, although the merge patch of
\* a second decision cannot remove the action of the first: outside the
\* scan-only mode every decision has an action, and in it none has.
THEOREM RevocationsStand == Spec => []RevokeOnlyWhenFailed
<1>1. DecisionInv => RevokeOnlyWhenFailed
    BY DEF DecisionInv, Agrees, RevokeOnlyWhenFailed
<1> QED
    BY DecisionInvariance, <1>1, PTL

-----------------------------------------------------------------------------
(***************************************************************************)
(* The verdict is exact when no scan is cut short.                         *)
(***************************************************************************)

\* Every Job ends well, and what was collected is what the image has.
ScansComplete ==
    \A s \in Scanner :
        /\ job[s] \in {"absent", "active", "succeeded"}
        /\ sjRun[s].to = "Attested" => sjRun[s].found = truth[s]
        /\ sj[s].phase = "Attested" => sj[s].found = truth[s]

Exact(st) == st.phase \in Terminal /\ Justified => st.phase = "Failed"

ExactInv ==
    DecisionInv /\ ScansComplete /\ Exact(iv) /\ Exact(ivCache) /\ Exact(ivRun.new)

\* The conjunct of ScansComplete for one scanner.
ScanComplete(s) ==
    /\ job[s] \in {"absent", "active", "succeeded"}
    /\ sjRun[s].to = "Attested" => sjRun[s].found = truth[s]
    /\ sj[s].phase = "Attested" => sj[s].found = truth[s]

LEMMA ScanCompleteStep ==
    ASSUME SJTypeOK, Faults \cap {"attempt", "log", "ttl"} = {}, ScansComplete,
           NEW s \in Scanner,
           \/ SJObserve(s) \/ SJReconcile(s) \/ SJAbort(s) \/ SJCreate(s)
           \/ JobSucceeds(s) \/ JobAttemptFails(s) \/ JobExpires(s)
    PROVE  ScanComplete(s)'
<1>a. /\ sj[s] \in ScanJobStatus /\ sjRun[s] \in ScanJobRun /\ ScanComplete(s)
      /\ Idle.to = "idle" /\ job \in [Scanner -> JobState]
    BY DEF SJTypeOK, ScansComplete, ScanComplete, Idle
<1>b. "log" \notin Faults /\ "attempt" \notin Faults /\ "ttl" \notin Faults
    OBVIOUS
<1>c. Faults \cap {"log", "ttl"} = {}
    BY <1>b
<1>1. CASE SJCollect(s)
    <2>1. PICK out \in Outputs(s) :
              sjRun' = [sjRun EXCEPT ![s] = [to |-> "Attested", found |-> out.found,
                                             source |-> out.source]]
        BY <1>1 DEF SJCollect
    <2>2. out.found = truth[s]
        <3>1. /\ job[s] \notin {"absent", "active", "retrying", "recovered", "failed"}
              /\ out.source = "complete" => out.found = truth[s]
              /\ \/ out.source = "complete"
                 \/ job[s] \in {"retrying", "recovered", "failed"}
                 \/ Faults \cap {"log", "ttl"} # {}
                 \/ "log" \in Faults
            BY <1>a, <2>1 DEF Outputs, ScanComplete
        <3> QED
            BY <3>1, <1>b, <1>c
    <2> QED
        BY <1>1, <1>a, <2>1, <2>2 DEF SJCollect, SJTypeOK, ScanComplete
<1>2. CASE SJFork(s)
    BY <1>2, <1>a DEF SJFork, SJTypeOK, ScanComplete, ScanJobRun
<1>3. CASE SJAdvance(s)
    <2>1. PICK step \in {<<"Forking", "Execing">>, <<"Execing", "Running">>} :
                sj' = [sj EXCEPT ![s].phase = step[2]]
        BY <1>3 DEF SJAdvance
    <2>2. sj'[s].phase \in {"Execing", "Running"}
        BY <2>1, <1>a DEF SJTypeOK, ScanJobStatus
    <2> QED
        BY <1>3, <1>a, <2>2 DEF SJAdvance, ScanComplete
<1>4. CASE SJPatch(s)
    <2>1. CASE sjRun[s].to = "Forking"
        BY <1>4, <1>a, <2>1 DEF SJPatch, SJTypeOK, ScanJobStatus, ScanComplete
    <2>2. CASE sjRun[s].to = "Attested"
        BY <1>4, <1>a, <2>2 DEF SJPatch, SJTypeOK, ScanComplete
    <2> QED
        BY <1>4, <2>1, <2>2 DEF SJPatch
<1>5. CASE SJAbort(s) \/ SJObserve(s)
    BY <1>5, <1>a DEF SJAbort, SJObserve, SJTypeOK, ScanComplete
<1>6. CASE SJCreate(s)
    BY <1>6, <1>a DEF SJCreate, SJTypeOK, ScanJobStatus, ScanComplete
<1>7. CASE JobSucceeds(s)
    BY <1>7, <1>a DEF JobSucceeds, ScanComplete
<1>8. CASE JobAttemptFails(s) \/ JobExpires(s)
    BY <1>8, <1>b DEF JobAttemptFails, JobExpires
<1> QED
    BY <1>1, <1>2, <1>3, <1>4, <1>5, <1>6, <1>7, <1>8 DEF SJReconcile

\* A step of one ScanJob leaves the Jobs of the others alone, too.
LEMMA JobFrame ==
    ASSUME SJTypeOK, NEW s \in Scanner, NEW t \in Scanner \ {s},
           \/ SJObserve(s) \/ SJReconcile(s) \/ SJAbort(s) \/ SJCreate(s)
           \/ JobSucceeds(s) \/ JobAttemptFails(s) \/ JobExpires(s)
    PROVE  job'[t] = job[t]
    BY DEF SJReconcile, SJFork, SJAdvance, SJCollect, SJPatch, SJTypeOK, SJObserve, SJAbort,
       SJCreate, JobSucceeds, JobAttemptFails, JobExpires

LEMMA ScansCompleteStep ==
    ASSUME TypeOK, Faults \cap {"attempt", "log", "ttl"} = {}, ScansComplete, Next
    PROVE  ScansComplete'
<1>a. SJTypeOK /\ truth' = truth /\ \A s \in Scanner : ScanComplete(s)
    BY TruthStands DEF TypeOK, ScansComplete, ScanComplete
<1>1. CASE UNCHANGED sjVars
    BY <1>1 DEF sjVars, ScansComplete
<1>2. ASSUME NEW s \in Scanner,
             \/ SJObserve(s) \/ SJReconcile(s) \/ SJAbort(s) \/ SJCreate(s)
             \/ JobSucceeds(s) \/ JobAttemptFails(s) \/ JobExpires(s),
             NEW t \in Scanner
      PROVE  ScanComplete(t)'
    <2>1. CASE t = s
        BY <2>1, <1>a, <1>2, ScanCompleteStep
    <2>2. CASE t # s
        <3>1. /\ sj'[t] = sj[t] /\ sjRun'[t] = sjRun[t] /\ job'[t] = job[t]
              /\ ScanComplete(t)
            BY <2>2, <1>a, <1>2, SJFrame, JobFrame
        <3> QED
            BY <3>1, <1>a DEF ScanComplete
    <2> QED
        BY <2>1, <2>2
<1> QED
    BY <1>1, <1>2, OneScanJob DEF ScansComplete, ScanComplete

\* Once all scans are in, the gate is shown every finding of the image.
LEMMA JustifiedIsSeen ==
    ASSUME IInv, ScansComplete, Rank(iv.phase) >= 3, Justified
    PROVE  BlockingUnion
<1>1. \A s \in Scanner : sj[s].phase = "Attested"
    BY RankTable DEF IInv, ChildrenKeepUp, Reached
<1>2. PICK s \in Scanner : \E f \in truth[s] : CriticalCve(f)
    BY DEF Justified
<1>3. PICK f \in truth[s] : CriticalCve(f)
    BY <1>2
<1>4. s \in Children /\ f \in sj[s].found
    BY <1>1, <1>3 DEF Children, ScansComplete
<1>5. <<s, f, sj[s].stamp>> \in Union
    BY <1>4 DEF Union
<1> QED
    BY <1>3, <1>5 DEF BlockingUnion

LEMMA StartIsExact ==
    ASSUME ExactInv, Starts
    PROVE  Exact(ivRun'.new)
<1>a. /\ IInv /\ ScansComplete /\ IVTypeOK /\ ivCache \in Status
      /\ iv.phase \in Phase /\ ivCache.phase \in Phase
    BY DEF ExactInv, DecisionInv, IInv, TypeOK, IVTypeOK, Status
<1>1. CASE IVGating
    <2> DEFINE new == [Moved(Decided.verdict) EXCEPT
                         !.verdict = Decided.verdict, !.action = DecidedAction,
                         !.judged = Union, !.decidedAt = iv.decidedAt + 1]
    <2>1. new.phase = Decided.verdict
        BY <1>a DEF Moved, Status
    <2>2. ivRun'.new = new /\ ivCache.phase = "Gating"
        BY <1>1 DEF IVGating, WillPatch
    <2>3. Rank(iv.phase) >= 3
        BY <2>2, <1>a, PhaseRank, RankTable DEF IInv, ValidationTrails
    <2> HIDE DEF new
    <2> QED
        BY <2>1, <2>2, <2>3, <1>a, JustifiedIsSeen, DecidedIs DEF Exact
<1>2. CASE ~IVGating
    <2>1. ivRun'.new.phase \notin Terminal
        BY <1>2, <1>a, OnlyTheGateDecides
    <2> QED
        BY <2>1 DEF Exact
<1> QED
    BY <1>1, <1>2

LEMMA ExactStart == Init => ExactInv
<1> SUFFICES ASSUME Init PROVE ExactInv
    OBVIOUS
<1>1. ScansComplete
    BY DEF Init, SJInit, ScansComplete, NoJob, Idle
<1>2. Exact(NewStatus)
    BY DEF Exact, NewStatus, Terminal
<1> QED
    BY <1>1, <1>2, DecisionStart DEF ExactInv, Init, IVIdle

LEMMA ExactStep ==
    ASSUME Faults \cap {"attempt", "log", "ttl"} = {}
    PROVE  ExactInv /\ [Next]_vars => ExactInv'
<1> SUFFICES ASSUME ExactInv, [Next]_vars PROVE ExactInv'
    OBVIOUS
<1>a. /\ DecisionInv /\ DecisionInv' /\ TypeOK /\ IVTypeOK /\ ScansComplete
      /\ Exact(iv) /\ Exact(ivCache) /\ Exact(ivRun.new)
    BY DecisionStep DEF ExactInv, DecisionInv, IInv, TypeOK
<1>b. Exact(NewStatus)
    BY DEF Exact, NewStatus, Terminal
<1>1. CASE UNCHANGED vars
    <2>1. UNCHANGED <<iv, ivCache, ivRun, sj, sjRun, job, truth>>
        BY <1>1 DEF vars, ivVars, sjVars
    <2> QED
        BY <2>1, <1>a DEF ExactInv, ScansComplete, Exact, Justified
<1>2. CASE Next
    <2>1. ScansComplete' /\ truth' = truth
        BY <1>2, <1>a, ScansCompleteStep, TruthStands
    <2>2. Exact(iv') /\ Exact(ivCache') /\ Exact(ivRun'.new)
        <3>1. CASE Starts
            BY <3>1, <1>a, StartIsExact, StartsWellStep DEF DecisionInv
        <3>2. CASE IVPatch
            BY <3>2, <1>a, <1>b DEF IVPatch, IVIdle, Merge, Exact
        <3>3. CASE ivRun'.new \in {ivRun.new, NewStatus} /\ iv' = iv /\ ivCache' \in {iv, ivCache}
            BY <3>3, <1>a, <1>b
        <3> QED
            BY <3>1, <3>2, <3>3, <1>2, <1>a, StatusCases
    <2> QED
        BY <2>1, <2>2, <1>a DEF ExactInv, Exact, Justified
<1> QED
    BY <1>1, <1>2

\* When no attempt fails, no log is lost and no Job expires, the verdict fails
\* the images with a critical CVE and no others: lagging caches, aborted
\* reconciles and repeated collections change nothing about that.
THEOREM VerdictsAreExact ==
    ASSUME Faults \cap {"attempt", "log", "ttl"} = {}
    PROVE  Spec => []VerdictIsExact
<1>1. ExactInv => VerdictIsExact
    BY DEF ExactInv, DecisionInv, Agrees, Exact, VerdictIsExact, Justified
<1> QED
    BY ExactStart, ExactStep, <1>1, PTL DEF Spec

-----------------------------------------------------------------------------
(***************************************************************************)
(* With a prompt watch, the validation implements GatePromise.             *)
(***************************************************************************)

\* A ScanJob is collected once, since the collection starts from what is there.
CollectsOnce == \A s \in Scanner : sjRun[s].to = "Attested" => sj[s].phase = "Running"

\* A reconcile in flight was built from the object as it still is.
BuiltFromHead == ivRun.pc # "idle" => ivCache = iv /\ iv.phase \notin Terminal

VerdictNow == IF BlockingUnion THEN "Failed" ELSE "Passed"

\* What is hashed, and what is judged, is what the children hold: all scans are
\* in by then, and none of them changes any more.
EvidenceStands ==
    /\ iv.hashed => iv.evidence = Union
    /\ ivRun.pc # "idle" /\ ivRun.new.hashed => ivRun.new.evidence = Union
    /\ ivRun.pc # "idle" /\ ivRun.new.phase \in Terminal => ivRun.new.verdict = VerdictNow

PromiseInv == DecisionInv /\ CollectsOnce /\ BuiltFromHead /\ EvidenceStands

\* The conjunct of CollectsOnce for one scanner.
LEMMA CollectsOnceStep ==
    ASSUME "lag" \notin Faults, SJTypeOK, CollectsOnce, NEW s \in Scanner,
           \/ SJObserve(s) \/ SJReconcile(s) \/ SJAbort(s) \/ SJCreate(s)
           \/ JobSucceeds(s) \/ JobAttemptFails(s) \/ JobExpires(s)
    PROVE  /\ sjRun'[s].to = "Attested" => sj'[s].phase = "Running"
           /\ sj[s].phase = "Attested" /\ sjRun[s].to # "Forking" =>
                sj'[s].found = sj[s].found /\ sj'[s].stamp = sj[s].stamp
<1>a. /\ sj[s] \in ScanJobStatus /\ sjRun[s] \in ScanJobRun /\ Idle.to = "idle"
      /\ sjRun[s].to = "Attested" => sj[s].phase = "Running"
    BY DEF SJTypeOK, CollectsOnce, Idle
<1>1. CASE SJCollect(s)
    BY <1>1, <1>a DEF SJCollect, SJReady, SJTypeOK
<1>2. CASE SJFork(s)
    BY <1>2, <1>a DEF SJFork, SJTypeOK, ScanJobRun
<1>3. CASE SJAdvance(s)
    <2>1. PICK step \in {<<"Forking", "Execing">>, <<"Execing", "Running">>} :
                sj' = [sj EXCEPT ![s].phase = step[2]]
        BY <1>3 DEF SJAdvance
    <2>2. sjRun'[s].to = "idle" /\ sj'[s].found = sj[s].found /\ sj'[s].stamp = sj[s].stamp
        BY <1>3, <2>1, <1>a DEF SJAdvance, SJReady, SJTypeOK, ScanJobStatus
    <2> QED
        BY <2>2
<1>4. CASE SJPatch(s)
    BY <1>4, <1>a DEF SJPatch, SJTypeOK, ScanJobStatus
<1>5. CASE SJAbort(s) \/ SJObserve(s)
    BY <1>5, <1>a DEF SJAbort, SJObserve, SJTypeOK
<1>6. CASE SJCreate(s)
    BY <1>6, <1>a DEF SJCreate, SJTypeOK, ScanJobStatus
<1>7. CASE JobSucceeds(s) \/ JobAttemptFails(s) \/ JobExpires(s)
    BY <1>7, <1>a DEF JobSucceeds, JobAttemptFails, JobExpires
<1> QED
    BY <1>1, <1>2, <1>3, <1>4, <1>5, <1>6, <1>7 DEF SJReconcile

\* A ScanJob that is attested keeps its findings: nothing is on its way to it.
LEMMA AttestedStands ==
    ASSUME "lag" \notin Faults, TypeOK, ScanJobsTrail, CollectsOnce, Next
    PROVE  /\ CollectsOnce'
           /\ \A s \in Scanner : sj[s].phase = "Attested" =>
                 sj'[s].found = sj[s].found /\ sj'[s].stamp = sj[s].stamp
<1>a. SJTypeOK
    BY DEF TypeOK
<1>b. \A s \in Scanner : sj[s].phase = "Attested" => sjRun[s].to # "Forking"
    BY SJRankTable DEF ScanJobsTrail
<1>1. CASE UNCHANGED sjVars
    BY <1>1 DEF sjVars, CollectsOnce
<1>2. ASSUME NEW s \in Scanner,
             \/ SJObserve(s) \/ SJReconcile(s) \/ SJAbort(s) \/ SJCreate(s)
             \/ JobSucceeds(s) \/ JobAttemptFails(s) \/ JobExpires(s),
             NEW t \in Scanner
      PROVE  /\ sjRun'[t].to = "Attested" => sj'[t].phase = "Running"
             /\ sj[t].phase = "Attested" =>
                   sj'[t].found = sj[t].found /\ sj'[t].stamp = sj[t].stamp
    <2>1. CASE t = s
        BY <2>1, <1>a, <1>b, <1>2, CollectsOnceStep
    <2>2. CASE t # s
        BY <2>2, <1>a, <1>2, SJFrame DEF CollectsOnce
    <2> QED
        BY <2>1, <2>2
<1> QED
    BY <1>1, <1>2, OneScanJob DEF CollectsOnce

LEMMA UnionStands ==
    ASSUME "lag" \notin Faults, TypeOK, ScanJobsTrail, CollectsOnce, Next,
           \A s \in Scanner : sj[s].phase = "Attested"
    PROVE  Union' = Union
<1>1. \A s \in Scanner : /\ sj'[s].found = sj[s].found /\ sj'[s].stamp = sj[s].stamp
                          /\ sj'[s].phase = "Attested"
    BY AttestedStands, PresenceIsStable
<1>2. Children = Scanner /\ Children' = Scanner
    BY <1>1 DEF Children
<1> QED
    BY <1>1, <1>2 DEF Union

\* A reconcile that starts takes the union as it finds it.
LEMMA StartTakesUnion ==
    ASSUME "lag" \notin Faults, PromiseInv, Starts
    PROVE  /\ ivCache = iv /\ iv.phase \notin Terminal
           /\ ivRun'.new.hashed => ivRun'.new.evidence = Union
           /\ ivRun'.new.phase \in Terminal => ivRun'.new.verdict = VerdictNow
<1>a. /\ ivCache \in Status /\ IVTypeOK
      /\ iv.hashed => iv.evidence = Union
    BY DEF PromiseInv, DecisionInv, IInv, TypeOK, IVTypeOK, EvidenceStands
<1>1. ivCache = iv /\ iv.phase \notin Terminal
    BY DEF Starts, IVPending, IVProvisioning, IVScanning, IVAggregating, IVAttesting, IVGating,
       IVMayReconcile, Terminal
<1>2. \A p : /\ Moved(p).phase = p /\ Moved(p).hashed = ivCache.hashed
             /\ Moved(p).evidence = ivCache.evidence
    BY <1>a DEF Moved, Status
<1>3. CASE IVGating
    <2> DEFINE new == [Moved(Decided.verdict) EXCEPT
                         !.verdict = Decided.verdict, !.action = DecidedAction,
                         !.judged = Union, !.decidedAt = iv.decidedAt + 1]
    <2>1. /\ new.hashed = ivCache.hashed /\ new.evidence = ivCache.evidence
          /\ new.verdict = Decided.verdict
        BY <1>a DEF Moved, Status
    <2>2. ivRun'.new = new
        BY <1>3 DEF IVGating, WillPatch
    <2> HIDE DEF new
    <2> QED
        BY <2>1, <2>2, <1>1, <1>a, DecidedIs DEF VerdictNow
<1>4. CASE IVAggregating
    <2>1. ivRun'.new = [Moved("Attesting") EXCEPT !.hashed = TRUE, !.evidence = Union]
        BY <1>4 DEF IVAggregating, WillPatch
    <2>2. ivRun'.new.phase = "Attesting" /\ ivRun'.new.evidence = Union
        BY <2>1, <1>a DEF Moved, Status
    <2> QED
        BY <2>2, <1>1 DEF Terminal
<1>5. CASE ~IVGating /\ ~IVAggregating
    <2>1. Provision => ivRun'.new \in {Moved("Provisioning"), Moved("Scanning")}
        BY DEF Provision, EnterProvisioning, WillPatch
    <2>2. IVPending => ivRun'.new = Moved("Provisioning")
        BY DEF IVPending, EnterProvisioning, WillPatch
    <2>3. IVScanning => ivRun'.new \in {Moved("Provisioning"), Moved("Scanning"),
                                        Moved("Aggregating")}
        BY <2>1 DEF IVScanning, WillPatch
    <2>4. IVAttesting => ivRun'.new = Moved("Gating")
        BY DEF IVAttesting, WillPatch
    <2>5. PICK p \in {"Provisioning", "Scanning", "Aggregating", "Gating"} :
              ivRun'.new = Moved(p)
        BY <1>5, <2>1, <2>2, <2>3, <2>4 DEF Starts, IVProvisioning
    <2> QED
        BY <2>5, <1>1, <1>2, <1>a DEF Terminal
<1> QED
    BY <1>1, <1>3, <1>4, <1>5

LEMMA PromiseStart == Init => PromiseInv
    BY DecisionStart DEF Init, SJInit, PromiseInv, CollectsOnce, BuiltFromHead, EvidenceStands,
       Idle, IVIdle, NewStatus

LEMMA PromiseInvStep ==
    ASSUME "lag" \notin Faults
    PROVE  PromiseInv /\ [Next]_vars => PromiseInv'
<1> SUFFICES ASSUME PromiseInv, [Next]_vars PROVE PromiseInv'
    OBVIOUS
<1>a. /\ DecisionInv /\ DecisionInv' /\ IInv /\ TypeOK /\ IVTypeOK /\ ScanJobsTrail
      /\ CollectsOnce /\ BuiltFromHead /\ EvidenceStands
      /\ Agrees(iv) /\ Agrees(ivRun.new)
      /\ iv.phase \in Phase /\ ivRun.new.phase \in Phase
    BY DecisionStep DEF PromiseInv, DecisionInv, IInv, TypeOK, IVTypeOK, Status, IVRun
<1>1. CASE UNCHANGED vars
    <2>1. UNCHANGED <<iv, ivCache, ivRun, sj, sjRun>>
        BY <1>1 DEF vars, ivVars, sjVars
    <2>2. Union' = Union
        BY <2>1 DEF Union, Children
    <2> QED
        BY <2>1, <2>2, <1>a DEF PromiseInv, CollectsOnce, BuiltFromHead, EvidenceStands,
           VerdictNow, BlockingUnion
<1>2. CASE Next
    <2>1. CollectsOnce'
        BY <1>2, <1>a, AttestedStands
    <2>2. iv.hashed \/ (ivRun.pc = "patch" /\ Rank(ivRun.new.phase) >= 3) =>
            Union' = Union /\ VerdictNow' = VerdictNow
        <3> SUFFICES ASSUME iv.hashed \/ (ivRun.pc = "patch" /\ Rank(ivRun.new.phase) >= 3)
                     PROVE  Union' = Union /\ VerdictNow' = VerdictNow
            OBVIOUS
        <3>1. \A s \in Scanner : sj[s].phase = "Attested"
            BY <1>a, RankTable, PhaseRank DEF IInv, ChildrenKeepUp, Reached, Agrees
        <3>2. Union' = Union
            BY <3>1, <1>2, <1>a, UnionStands
        <3> QED
            BY <3>2 DEF VerdictNow, BlockingUnion
    <2>3. ASSUME ivRun.pc # "idle", ivRun.new.hashed \/ ivRun.new.phase \in Terminal
          PROVE  ivRun.pc = "patch" /\ Rank(ivRun.new.phase) >= 3
        <3>1. Rank(ivRun.new.phase) >= 4
            BY <2>3, <1>a, RankTable, TerminalRank DEF Agrees
        <3>2. ivRun.pc # "create"
            BY <3>1, <1>a, RankTable DEF IInv, ChildrenKeepUp
        <3> QED
            BY <2>3, <3>1, <3>2, <1>a, PhaseRank DEF IVTypeOK, IVRun
    <2>4. CASE Starts
        <3>1. UNCHANGED <<sjVars, iv, ivCache>>
            BY <2>4, <1>a, StartsWellStep
        <3>2. Union' = Union
            BY <3>1 DEF sjVars, Union, Children
        <3>3. VerdictNow' = VerdictNow
            BY <3>2 DEF VerdictNow, BlockingUnion
        <3>4. BuiltFromHead' /\ EvidenceStands'
            BY <2>4, <1>a, <3>1, <3>2, <3>3, StartTakesUnion
            DEF PromiseInv, BuiltFromHead, EvidenceStands
        <3> QED
            BY <2>1, <3>4, <1>a DEF PromiseInv
    <2>5. CASE IVPatch
        <3>1. /\ ivRun.pc = "patch" /\ ivRun'.pc = "idle" /\ UNCHANGED sjVars
              /\ iv'.hashed = (iv.hashed \/ ivRun.new.hashed)
              /\ iv'.evidence = IF ivRun.new.hashed THEN ivRun.new.evidence ELSE iv.evidence
            BY <2>5 DEF IVPatch, IVIdle, Merge
        <3>2. Union' = Union
            BY <3>1 DEF sjVars, Union, Children
        <3> QED
            BY <2>1, <3>1, <3>2, <1>a DEF PromiseInv, BuiltFromHead, EvidenceStands
    <2>6. CASE /\ iv' = iv /\ ivCache' \in {iv, ivCache}
               /\ ivRun'.pc # "idle" => ivRun.pc # "idle" /\ ivRun'.new = ivRun.new
        <3>1. BuiltFromHead'
            BY <2>6, <1>a DEF BuiltFromHead
        <3>2. ASSUME iv'.hashed PROVE iv'.evidence = Union'
            <4>1. iv' = iv /\ iv.hashed
                BY <2>6, <3>2
            <4>2. Union' = Union
                BY <4>1, <2>2
            <4>3. iv.evidence = Union
                BY <4>1, <1>a DEF EvidenceStands
            <4> QED
                BY <4>1, <4>2, <4>3
        <3>3. ASSUME ivRun'.pc # "idle", ivRun'.new.hashed \/ ivRun'.new.phase \in Terminal
              PROVE  /\ ivRun.pc # "idle" /\ ivRun'.new = ivRun.new
                     /\ Union' = Union /\ VerdictNow' = VerdictNow
            BY <2>2, <2>3, <2>6, <3>3
        <3>4. EvidenceStands'
            BY <3>2, <3>3, <1>a DEF EvidenceStands
        <3> QED
            BY <2>1, <3>1, <3>4, <1>a DEF PromiseInv
    <2> QED
        BY <2>4, <2>5, <2>6, <1>2, <1>a, StatusCases
<1> QED
    BY <1>1, <1>2

\* A step of the controllers fixes the evidence, decides on it, or is none of
\* the reader's business.
LEMMA PromiseStep ==
    ASSUME "lag" \notin Faults, PromiseInv, [Next]_vars
    PROVE  [Promise!Next]_(Promise!promise)
<1>a. /\ IInv /\ IVTypeOK /\ IVTypeOK' /\ BuiltFromHead /\ EvidenceStands
      /\ Agrees(iv) /\ Agrees(ivRun.new) /\ Agrees(iv)'
      /\ iv \in Status /\ ivRun.new \in Status
      /\ iv.phase \in Phase /\ ivRun.new.phase \in Phase
    BY DecisionStep, TypeStep DEF PromiseInv, DecisionInv, IInv, TypeOK, IVTypeOK, Status, IVRun
<1>1. CASE iv' = iv
    BY <1>1 DEF Promise!promise, Stage
<1>2. CASE IVPatch
    <2>1. /\ ivRun.pc = "patch" /\ iv' = Merge(iv, ivRun.new)
          /\ iv.phase \notin Terminal
          /\ Rank(iv.phase) <= Rank(ivRun.new.phase)
          /\ Rank(ivRun.new.phase) <= Rank(iv.phase) + 1
        BY <1>2, <1>a DEF IVPatch, IInv, ValidationTrails, BuiltFromHead
    <2>2. /\ iv'.phase = ivRun.new.phase
          /\ iv'.hashed = (iv.hashed \/ ivRun.new.hashed)
          /\ iv'.evidence = IF ivRun.new.hashed THEN Union ELSE iv.evidence
          /\ iv'.verdict = IF ivRun.new.verdict # "none" THEN ivRun.new.verdict ELSE iv.verdict
        BY <2>1, <1>a DEF Merge, EvidenceStands
    <2>3. iv.hashed => iv.evidence = Union
        BY <1>a DEF EvidenceStands
    <2>4. CASE ~iv.hashed /\ ~ivRun.new.hashed
        <3>1. ivRun.new.phase \notin Terminal
            BY <2>4, <1>a, TerminalRank, RankTable DEF Agrees
        <3> QED
            BY <2>1, <2>2, <2>4, <3>1, <1>a DEF Promise!promise, Stage, Agrees
    <2>5. CASE ~iv.hashed /\ ivRun.new.hashed
        <3>1. ivRun.new.phase \notin Terminal
            BY <2>1, <2>5, <1>a, TerminalRank, RankTable DEF Agrees
        <3>2. Stage = "collecting" /\ Stage' = "fixed" /\ iv'.verdict = iv.verdict
            BY <2>1, <2>2, <2>5, <3>1, <1>a DEF Stage, Agrees
        <3>3. iv'.evidence \in SUBSET Evidence
            BY <1>a DEF IVTypeOK, Status
        <3> QED
            BY <3>2, <3>3 DEF Promise!Next, Promise!Fix
    <2>6. CASE iv.hashed /\ ivRun.new.phase \notin Terminal
        BY <2>1, <2>2, <2>3, <2>6, <1>a DEF Promise!promise, Stage, Agrees
    <2>7. CASE iv.hashed /\ ivRun.new.phase \in Terminal
        <3>1. Stage = "fixed" /\ Stage' = "decided" /\ iv'.evidence = iv.evidence
            BY <2>1, <2>2, <2>3, <2>7 DEF Stage
        <3>2. ivRun.new.verdict = VerdictNow /\ iv.evidence = Union
            BY <2>1, <2>3, <2>7, <1>a DEF EvidenceStands
        <3>3. iv'.verdict = IF \E e \in iv.evidence : CriticalCve(e[2]) THEN "Failed" ELSE "Passed"
            BY <2>2, <3>2 DEF VerdictNow, BlockingUnion
        <3> QED
            BY <3>1, <3>3 DEF Promise!Next, Promise!DecideOnce
    <2> QED
        BY <2>4, <2>5, <2>6, <2>7, <1>a DEF Status
<1> QED
    BY <1>1, <1>2, <1>a, StatusCases, StartsWellStep DEF vars, ivVars

\* With a prompt watch a validation keeps its promise to whoever reads its
\* status, whatever the scans return and wherever reconciles are cut off: the
\* evidence is fixed once, and decided once, on that evidence.
THEOREM PromiseKept ==
    ASSUME "lag" \notin Faults
    PROVE  Spec => ImplementsPromise
<1>1. Init => Promise!Init
    BY DEF Init, NewStatus, Promise!Init, Stage, Terminal
<1>2. PromiseInv /\ [Next]_vars => [Promise!Next]_(Promise!promise)
    BY PromiseStep
<1> QED
    BY <1>1, <1>2, PromiseStart, PromiseInvStep, PTL DEF Spec, ImplementsPromise, Promise!Spec

-----------------------------------------------------------------------------
(***************************************************************************)
(* Decisions and their times: the validation implements GateDecisions.     *)
(***************************************************************************)

\* A decision on its way to the object is later than the one that is there.
Timed ==
    ivRun.pc # "idle" /\ ivRun.new.verdict # "none" => ivRun.new.decidedAt = iv.decidedAt + 1

TimedInv == DecisionInv /\ Timed

LEMMA TimedStep == TimedInv /\ [Next]_vars => TimedInv'
<1> SUFFICES ASSUME TimedInv, [Next]_vars PROVE TimedInv'
    OBVIOUS
<1>a. /\ DecisionInv /\ DecisionInv' /\ IInv /\ IVTypeOK /\ Timed
      /\ Agrees(ivRun.new)'
    BY DecisionStep DEF TimedInv, DecisionInv, IInv, TypeOK
<1>1. CASE UNCHANGED vars
    BY <1>1, <1>a DEF TimedInv, Timed, vars, ivVars
<1>2. CASE IVGating
    <2>1. iv' = iv /\ ivRun'.new.decidedAt = iv.decidedAt + 1
        BY <1>2, <1>a DEF IVGating, WillPatch, Moved, IVTypeOK, Status
    <2> QED
        BY <2>1, <1>a DEF TimedInv, Timed
<1>3. CASE Starts /\ ~IVGating
    <2>1. ivRun'.new.phase \notin Terminal
        BY <1>3, <1>a, OnlyTheGateDecides
    <2> QED
        BY <2>1, <1>a DEF TimedInv, Timed, Agrees
<1>4. CASE IVPatch
    BY <1>4, <1>a DEF TimedInv, Timed, IVPatch, IVIdle
<1>5. CASE /\ iv' = iv
           /\ ivRun'.pc # "idle" => ivRun.pc # "idle" /\ ivRun'.new = ivRun.new
    BY <1>5, <1>a DEF TimedInv, Timed
<1> QED
    BY <1>1, <1>2, <1>3, <1>4, <1>5, <1>a, StatusCases

\* A patch writes a decision, later than the last, or leaves decision and action alone.
LEMMA AnnounceStep ==
    ASSUME TimedInv, [Next]_vars
    PROVE  [Announced!Next]_(Announced!decisions)
<1>a. /\ IInv /\ IVTypeOK /\ Timed /\ Agrees(ivRun.new)
      /\ iv \in Status /\ ivRun.new \in Status
    BY DEF TimedInv, DecisionInv, IInv, TypeOK, IVTypeOK, IVRun
<1>1. CASE iv' = iv
    BY <1>1 DEF Announced!decisions
<1>2. CASE IVPatch
    <2>1. /\ ivRun.pc # "idle"
          /\ iv'.action = IF ivRun.new.action # "none" THEN ivRun.new.action ELSE iv.action
          /\ iv'.decidedAt = IF ivRun.new.verdict # "none" THEN ivRun.new.decidedAt
                             ELSE iv.decidedAt
        BY <1>2 DEF IVPatch, Merge
    <2>2. CASE ivRun.new.verdict = "none"
        <3>1. ivRun.new.action = "none"
            BY <2>2, <1>a DEF Agrees, Terminal
        <3> QED
            BY <2>1, <2>2, <3>1 DEF Announced!decisions
    <2>3. CASE ivRun.new.verdict # "none"
        <3>1. /\ iv'.decidedAt = iv.decidedAt + 1
              /\ ivRun.new.action \in (ActionClass \ {"none"}) \cup {"none"}
            BY <2>1, <2>3, <1>a DEF Timed, Status
        <3>2. Announced!Decide(ivRun.new.action)
            BY <2>1, <3>1 DEF Announced!Decide
        <3> QED
            BY <3>1, <3>2 DEF Announced!Next
    <2> QED
        BY <2>2, <2>3
<1> QED
    BY <1>1, <1>2, <1>a, StatusCases, StartsWellStep DEF vars, ivVars

\* Whatever stale object a reconcile was built from, action and time of the decision on the
\* object change together, one decision at a time, and the times only grow: action_dispatcher,
\* which tells decisions apart by decided_at, never takes a new one for one it has executed.
THEOREM DecisionsAreAnnounced == Spec => AnnouncesEveryDecision
<1>1. Init => TimedInv
    BY DecisionStart DEF TimedInv, Timed, Init, IVIdle
<1>2. Init => Announced!Init
    BY DEF Init, NewStatus, Announced!Init
<1>3. TimedInv /\ [Next]_vars => [Announced!Next]_(Announced!decisions)
    BY AnnounceStep
<1> QED
    BY <1>1, <1>2, <1>3, TimedStep, PTL DEF Spec, AnnouncesEveryDecision, Announced!Spec

-----------------------------------------------------------------------------
(***************************************************************************)
(* The events: a process that may restart, and a stream that may lose.     *)
(***************************************************************************)

\* A kind of event the validation's reconcile has left to publish.
Left(k) == \E n \in DOMAIN emitting : emitting[n].kind = k

\* What an event still to be sent says is what the object says.
Truthful ==
    /\ emitting \in Seq(ValidationEvent)
    /\ \A n \in DOMAIN emitting : \/ \E p \in Phase : emitting[n] = PhaseChanged(p, iv.phase)
                                  \/ emitting[n] = DecisionEmitted(iv.verdict)

\* A reconcile in flight has nothing of an earlier one left to publish, and started from an
\* undecided status that was no newer than the object.
Undecided ==
    ivRun.pc # "idle" => /\ emitting = <<>>
                         /\ started \in Status /\ started.phase \notin Terminal
                         /\ started.verdict = "none" /\ Rank(started.phase) <= Rank(iv.phase)

\* A reconcile of a ScanJob starts when the findings of the one before it are out.
OneAtATime ==
    /\ recording \in [Scanner -> SUBSET Found]
    /\ \A s \in Scanner : /\ sjRun[s] # Idle => recording[s] = {}
                          /\ sjRun[s].to # "Attested" => sjRun[s].found = {}

\* What the subscriber has folded: no phase ahead of the object, and what is neither lost nor
\* left to publish.
Folds ==
    /\ heard \in [phase : Phase, verdict : GateVerdict \cup {"none"},
                  findings : SUBSET (Scanner \X Found)]
    /\ Rank(heard.phase) <= Rank(iv.phase)
    /\ "phase-changed" \in lost \/ Left("phase-changed") \/ heard.phase = iv.phase
    /\ "decision-emitted" \in lost \/ Left("decision-emitted") \/ heard.verdict = iv.verdict

Records ==
    "finding-recorded" \notin lost =>
        \A s \in Scanner, f \in Found :
            f \in sj[s].found => f \in recording[s] \/ <<s, f>> \in heard.findings

Stream    == Truthful /\ Undecided /\ OneAtATime /\ Folds /\ Records
EventsInv == DecisionInv /\ Stream

LEMMA EventsStart == EvInit => EventsInv
<1> SUFFICES ASSUME EvInit PROVE EventsInv
    OBVIOUS
<1>1. DecisionInv
    BY DecisionStart DEF EvInit
<1>2. Truthful /\ Undecided
    BY DEF EvInit, Init, IVIdle, Truthful, Undecided
<1>3. OneAtATime /\ Records
    BY DEF EvInit, Init, SJInit, Idle, NoJob, OneAtATime, Records
<1>4. Folds
    <2>1. /\ heard = [phase |-> "Pending", verdict |-> "none", findings |-> {}]
          /\ iv.phase = "Pending" /\ iv.verdict = "none"
        BY DEF EvInit, Init, NewStatus
    <2>2. heard.phase = "Pending" /\ heard.verdict = "none"
        BY <2>1
    <2>3. heard \in [phase : Phase, verdict : GateVerdict \cup {"none"},
                    findings : SUBSET (Scanner \X Found)]
        BY <2>1 DEF Phase
    <2> QED
        BY <2>1, <2>2, <2>3, RankTable DEF Folds
<1> QED
    BY <1>1, <1>2, <1>3, <1>4 DEF EventsInv, Stream

\* All but a restart are steps of the controllers, with what they publish.
LEMMA EventSteps ==
    ASSUME EvNext, ~Restart
    PROVE  [Next]_vars
<1>1. EvStart \/ EvCreate \/ EvPatch \/ EvOther => Next
    BY DEF EvStart, EvCreate, EvPatch, EvOther, Next, IVReconcile, SJNext
<1>2. EvEmit => UNCHANGED vars
    BY DEF EvEmit
<1>3. ASSUME NEW s \in Scanner, EvScan(s) \/ EvScanPatch(s) PROVE Next
    BY <1>3 DEF EvScan, EvScanPatch, Next, SJNext, SJReconcile
<1>4. ASSUME NEW s \in Scanner, EvRecord(s) PROVE UNCHANGED vars
    BY <1>4 DEF EvRecord
<1> QED
    BY <1>1, <1>2, <1>3, <1>4 DEF EvNext

\* A restart forgets the reconciles in flight and lists the objects: nothing trails them then.
LEMMA RestartKeeps ==
    ASSUME DecisionInv, Restart
    PROVE  DecisionInv' /\ UNCHANGED <<sj, iv>>
<1>a. /\ TypeOK /\ SJTypeOK /\ TenantTypeOK /\ IVTypeOK /\ FromTruth /\ Agrees(iv)
      /\ ScanJobsTrail /\ ValidationTrails /\ ChildrenKeepUp
    BY DEF DecisionInv, IInv, TypeOK
<1>b. /\ UNCHANGED <<sj, job, truth, tenant, service, iv>>
      /\ sjRun' = [s \in Scanner |-> Idle] /\ sjCache' = [s \in Scanner |-> sj[s].phase]
      /\ tenantRun' = "idle" /\ tenantCache' = tenant /\ ivRun' = IVIdle /\ ivCache' = iv
    BY DEF Restart
<1>c. Idle \in ScanJobRun /\ IVIdle \in IVRun /\ Idle.to = "idle" /\ Idle.found = {}
      /\ IVIdle.pc = "idle" /\ IVIdle.new = NewStatus
    BY InitialValues DEF IVIdle, IVRun, Idle
<1>d. \A s \in Scanner : sj[s].phase \in SJPhase
    BY <1>a DEF SJTypeOK, ScanJobStatus
<1>e. \A p \in SJPhase : SJRank(p) \in 0 .. 5
    BY SJRankTable DEF SJPhase
<1>1. TypeOK'
    <2>1. SJTypeOK'
        BY <1>a, <1>b, <1>c, <1>d DEF SJTypeOK
    <2>2. TenantTypeOK'
        BY <1>a, <1>b DEF TenantTypeOK
    <2>3. IVTypeOK'
        BY <1>a, <1>b, <1>c DEF IVTypeOK
    <2> QED
        BY <2>1, <2>2, <2>3 DEF TypeOK
<1>2. ScanJobsTrail'
    BY <1>b, <1>c, <1>d, <1>e DEF ScanJobsTrail
<1>3. ValidationTrails'
    <2>1. Rank(iv.phase) \in 0 .. 6
        BY <1>a, PhaseRank DEF IVTypeOK, Status
    <2> QED
        BY <1>b, <1>c, <2>1 DEF ValidationTrails
<1>4. ChildrenKeepUp'
    BY <1>a, <1>b, <1>c DEF ChildrenKeepUp, Reached
<1>5. FromTruth'
    BY <1>a, <1>b, <1>c DEF FromTruth
<1>6. Agrees(iv)' /\ Agrees(ivCache)' /\ Agrees(ivRun.new)'
    <2>1. Agrees(NewStatus)
        BY RankTable DEF Agrees, NewStatus, Terminal
    <2> QED
        BY <1>a, <1>b, <1>c, <2>1 DEF Agrees, Justified
<1> QED
    BY <1>b, <1>1, <1>2, <1>3, <1>4, <1>5, <1>6 DEF DecisionInv, IInv

\* A step that publishes nothing, and patches no validation: it has the reconciles to answer for.
LEMMA SilentStep ==
    ASSUME Stream, UNCHANGED <<iv, heard, lost, emitting, recording>>,
           Undecided', OneAtATime',
           \A s \in Scanner : sj'[s].found = sj[s].found
    PROVE  Stream'
<1>1. Truthful' /\ Folds'
    BY DEF Stream, Truthful, Folds, Left
<1>2. Records'
    <2>1. ASSUME "finding-recorded" \notin lost', NEW s \in Scanner, NEW f \in Found, f \in sj'[s].found
          PROVE  f \in recording'[s] \/ <<s, f>> \in heard'.findings
        <3>1. f \in sj[s].found /\ "finding-recorded" \notin lost
            BY <2>1
        <3>2. f \in recording[s] \/ <<s, f>> \in heard.findings
            BY <3>1 DEF Stream, Records
        <3> QED
            BY <3>2
    <2> QED
        BY <2>1 DEF Records
<1> QED
    BY <1>1, <1>2 DEF Stream

\* What keeps the findings of every ScanJob as they are.
LEMMA FoundStands ==
    ASSUME SJTypeOK, NEW s \in Scanner,
           \/ SJObserve(s) \/ SJFork(s) \/ SJAdvance(s) \/ SJCollect(s) \/ SJAbort(s) \/ SJCreate(s)
           \/ JobSucceeds(s) \/ JobAttemptFails(s) \/ JobExpires(s)
    PROVE  \A t \in Scanner : sj'[t].found = sj[t].found
<1>1. sj \in [Scanner -> ScanJobStatus] /\ sj[s] \in ScanJobStatus
    BY DEF SJTypeOK
<1>2. SJAdvance(s) \/ SJCreate(s) => \E p : sj' = [sj EXCEPT ![s].phase = p]
    BY DEF SJAdvance, SJCreate
<1>3. ASSUME NEW p, sj' = [sj EXCEPT ![s].phase = p], NEW t \in Scanner
      PROVE  sj'[t].found = sj[t].found
    BY <1>1, <1>3 DEF ScanJobStatus
<1>4. ~SJAdvance(s) /\ ~SJCreate(s) => sj' = sj
    BY DEF SJObserve, SJFork, SJCollect, SJAbort, JobSucceeds, JobAttemptFails, JobExpires
<1> QED
    BY <1>2, <1>3, <1>4

LEMMA StartIsUndecided == ASSUME EventsInv, EvStart PROVE Stream'
<1>a. DecisionInv /\ Stream /\ IInv /\ IVTypeOK /\ Agrees(ivCache) /\ Starts /\ emitting = <<>>
    BY DEF EventsInv, DecisionInv, IInv, TypeOK, EvStart, Starts
<1>b. /\ UNCHANGED <<sjVars, iv, heard, lost, emitting, recording>> /\ started' = ivCache
    BY <1>a, StartsWellStep DEF EvStart
<1>1. ivCache.phase \notin Terminal
    BY <1>a DEF Starts, IVPending, IVProvisioning, IVScanning, IVAggregating, IVAttesting, IVGating,
       Terminal
<1>2. ivCache \in Status /\ ivCache.verdict = "none" /\ Rank(ivCache.phase) <= Rank(iv.phase)
    BY <1>a, <1>1 DEF IVTypeOK, Agrees, IInv, ValidationTrails
<1>3. Undecided'
    BY <1>a, <1>b, <1>1, <1>2 DEF Undecided
<1>4. OneAtATime' /\ sj' = sj
    BY <1>a, <1>b DEF Stream, OneAtATime, sjVars
<1> QED
    BY <1>a, <1>b, <1>3, <1>4, SilentStep

LEMMA CreateIsSilent == ASSUME EventsInv, EvCreate PROVE Stream'
<1>a. /\ SJTypeOK /\ IVTypeOK /\ Stream /\ Undecided /\ OneAtATime
      /\ UNCHANGED <<publisher, started, emitting, recording, heard, lost, life>>
    BY DEF EventsInv, DecisionInv, IInv, TypeOK, Stream, EvCreate, evVars
<1>1. PICK s \in Scanner : IVCreateScanJob(s)
    BY DEF EvCreate
<1>2. UNCHANGED <<iv, sjRun>> /\ ivRun.pc # "idle" /\ SJCreate(s)
    BY <1>1 DEF IVCreateScanJob, SJCreate
<1>3. Undecided' /\ OneAtATime'
    BY <1>a, <1>2 DEF Undecided, OneAtATime
<1> QED
    BY <1>a, <1>2, <1>3, FoundStands, SilentStep

\* The steps that publish nothing at all.
LEMMA OtherIsSilent == ASSUME EventsInv, EvOther PROVE Stream'
<1>a. /\ SJTypeOK /\ IVTypeOK /\ Stream /\ Undecided /\ OneAtATime
      /\ UNCHANGED <<publisher, started, emitting, recording, heard, lost, life>>
    BY DEF EventsInv, DecisionInv, IInv, TypeOK, Stream, EvOther, evVars
<1>1. CASE IVObserve \/ IVAbort
    <2>1. iv' = iv /\ UNCHANGED <<sj, sjRun>> /\ (ivRun' = ivRun \/ ivRun'.pc = "idle")
        BY <1>1 DEF IVObserve, IVAbort, IVIdle, sjVars
    <2>2. Undecided' /\ OneAtATime'
        BY <1>a, <2>1 DEF Undecided, OneAtATime
    <2> QED
        BY <1>a, <2>1, <2>2, SilentStep
<1>2. CASE TenantNext /\ UNCHANGED <<sjVars, ivVars>>
    <2>1. UNCHANGED <<iv, ivRun, sj, sjRun>>
        BY <1>2 DEF sjVars, ivVars
    <2>2. Undecided' /\ OneAtATime'
        BY <1>a, <2>1 DEF Undecided, OneAtATime
    <2> QED
        BY <1>a, <2>1, <2>2, SilentStep
<1>3. ASSUME NEW s \in Scanner, UNCHANGED ivVars,
             \/ SJObserve(s) \/ SJAbort(s) \/ JobSucceeds(s) \/ JobAttemptFails(s) \/ JobExpires(s)
      PROVE  Stream'
    <2>1. UNCHANGED <<iv, ivRun>>
        BY <1>3 DEF ivVars
    <2>2. sjRun' = sjRun \/ sjRun' = [sjRun EXCEPT ![s] = Idle]
        BY <1>3 DEF SJObserve, SJAbort, JobSucceeds, JobAttemptFails, JobExpires
    <2>3. OneAtATime'
        <3>1. \A t \in Scanner : sjRun'[t] = sjRun[t] \/ sjRun'[t] = Idle
            BY <1>a, <2>2 DEF SJTypeOK
        <3>2. Idle.found = {}
            BY DEF Idle
        <3> QED
            BY <1>a, <3>1, <3>2 DEF OneAtATime
    <2>4. Undecided'
        BY <1>a, <2>1 DEF Undecided
    <2>5. \A t \in Scanner : sj'[t].found = sj[t].found
        BY <1>a, <1>3, FoundStands
    <2> QED
        BY <1>a, <2>1, <2>3, <2>4, <2>5, SilentStep
<1> QED
    BY <1>1, <1>2, <1>3 DEF EvOther

\* A reconcile of a ScanJob starts with nothing of the last one left to publish.
LEMMA ScanIsSilent == ASSUME EventsInv, NEW s \in Scanner, EvScan(s) PROVE Stream'
<1>a. /\ SJTypeOK /\ IVTypeOK /\ Stream /\ Undecided /\ OneAtATime
      /\ UNCHANGED <<publisher, started, emitting, recording, heard, lost, life, iv, ivRun>>
      /\ recording[s] = {} /\ (SJFork(s) \/ SJAdvance(s) \/ SJCollect(s))
    BY DEF EventsInv, DecisionInv, IInv, TypeOK, Stream, EvScan, evVars, ivVars
<1>1. \A t \in Scanner : sj'[t].found = sj[t].found
    BY <1>a, FoundStands
<1>2. Undecided'
    BY <1>a DEF Undecided
<1>3. OneAtATime'
    <2>1. \A t \in Scanner \ {s} : sjRun'[t] = sjRun[t]
        BY <1>a, SJFrame DEF SJReconcile
    <2>2. sjRun'[s].to # "Attested" => sjRun'[s].found = {}
        <3>1. sjRun[s] \in ScanJobRun /\ (sjRun[s].to # "Attested" => sjRun[s].found = {})
            BY <1>a DEF OneAtATime, SJTypeOK
        <3>2. CASE SJFork(s)
            BY <1>a, <3>1, <3>2 DEF SJFork, SJReady, SJTypeOK, ScanJobRun, Idle
        <3>3. CASE SJAdvance(s)
            BY <3>1, <3>3 DEF SJAdvance
        <3>4. CASE SJCollect(s)
            BY <1>a, <3>4 DEF SJCollect, SJTypeOK
        <3> QED
            BY <1>a, <3>2, <3>3, <3>4
    <2> QED
        BY <1>a, <2>1, <2>2 DEF OneAtATime
<1> QED
    BY <1>a, <1>1, <1>2, <1>3, SilentStep

\* emit_post_patch announces what the patch changes: its comparison with the status the reconcile
\* started from is one with the object, whose phase cannot have moved past that of the patch.
LEMMA PatchAnnounces == ASSUME EventsInv, EvPatch PROVE Stream'
<1> DEFINE new     == ivRun.new
           moves   == new.phase # started.phase
           decides == started.verdict = "none" /\ new.verdict # "none"
           a == IF moves THEN <<PhaseChanged(started.phase, new.phase)>> ELSE <<>>
           b == IF decides THEN <<DecisionEmitted(new.verdict)>> ELSE <<>>
<1>a. /\ DecisionInv /\ Stream /\ Undecided /\ OneAtATime /\ Folds /\ Records
      /\ IVTypeOK /\ ValidationTrails /\ ivRun.pc = "patch"
    BY DEF EventsInv, DecisionInv, IInv, TypeOK, Stream, EvPatch, IVPatch
<1>b. /\ iv' = Merge(iv, new) /\ ivRun' = IVIdle /\ emitting' = a \o b
      /\ UNCHANGED <<sj, sjRun, recording, heard, lost>>
    BY DEF EvPatch, IVPatch, EmitPostPatch, sjVars
<1>c. /\ emitting = <<>> /\ started \in Status /\ started.phase \notin Terminal
      /\ started.verdict = "none" /\ Rank(started.phase) <= Rank(iv.phase)
    BY <1>a DEF Undecided
<1>d. /\ new \in Status /\ iv \in Status /\ new.phase \in Phase /\ iv.phase \in Phase
      /\ started.phase \in Phase /\ new.verdict \in GateVerdict \cup {"none"}
    BY <1>a, <1>c DEF IVTypeOK, IVRun, Status
<1>e. /\ iv'.phase = new.phase
      /\ iv'.verdict = IF new.verdict # "none" THEN new.verdict ELSE iv.verdict
    BY <1>b DEF Merge
<1>f. Rank(iv.phase) <= Rank(new.phase) /\ Rank(iv.phase) \in 0 .. 6 /\ Rank(new.phase) \in 0 .. 6
      /\ Rank(started.phase) \in 0 .. 5
    BY <1>a, <1>c, <1>d, PhaseRank, TerminalRank DEF ValidationTrails
<1>1. a \in Seq(ValidationEvent) /\ b \in Seq(ValidationEvent)
    <2>1. PhaseChanged(started.phase, new.phase) \in ValidationEvent
        BY <1>d DEF ValidationEvent
    <2>2. decides => DecisionEmitted(new.verdict) \in ValidationEvent
        BY <1>d DEF ValidationEvent
    <2>3. \A x \in ValidationEvent : <<x>> \in Seq(ValidationEvent)
        OBVIOUS
    <2> QED
        BY <2>1, <2>2, <2>3
<1>2. /\ moves => Len(a) = 1 /\ a[1] = PhaseChanged(started.phase, new.phase)
      /\ ~moves => Len(a) = 0
      /\ decides => Len(b) = 1 /\ b[1] = DecisionEmitted(new.verdict)
      /\ ~decides => Len(b) = 0
    OBVIOUS
<1> HIDE DEF a, b
<1>3. /\ emitting' \in Seq(ValidationEvent) /\ Len(emitting') = Len(a) + Len(b)
      /\ \A n \in DOMAIN emitting' :
            (n = 1 /\ Len(a) = 1 /\ emitting'[n] = a[1]) \/ (Len(b) = 1 /\ emitting'[n] = b[1])
      /\ Len(a) = 1 => 1 \in DOMAIN emitting' /\ emitting'[1] = a[1]
      /\ Len(b) = 1 => Len(a) + 1 \in DOMAIN emitting' /\ emitting'[Len(a) + 1] = b[1]
    BY <1>b, <1>1, <1>2
<1>4. Truthful'
    <2>1. ASSUME NEW n \in DOMAIN emitting'
          PROVE  \/ \E p \in Phase : emitting'[n] = PhaseChanged(p, iv'.phase)
                 \/ emitting'[n] = DecisionEmitted(iv'.verdict)
        <3>1. CASE Len(a) = 1 /\ emitting'[n] = a[1]
            BY <1>2, <1>d, <1>e, <3>1
        <3>2. CASE Len(b) = 1 /\ emitting'[n] = b[1]
            BY <1>2, <1>e, <3>2
        <3> QED
            BY <1>3, <3>1, <3>2
    <2> QED
        BY <1>3, <2>1 DEF Truthful, PhaseChanged, DecisionEmitted
<1>5. moves => Left("phase-changed")'
    BY <1>2, <1>3 DEF Left, PhaseChanged
<1>6. decides => Left("decision-emitted")'
    BY <1>2, <1>3 DEF Left, DecisionEmitted
<1>7. ~moves => iv'.phase = iv.phase
    <2>1. ~moves => Rank(new.phase) = Rank(iv.phase) /\ Rank(new.phase) \in 0 .. 5
        BY <1>c, <1>f
    <2> QED
        BY <1>d, <1>e, <2>1, RankOfPhase
<1>8. ~decides => iv'.verdict = iv.verdict
    BY <1>c, <1>e
<1>9. ~Left("phase-changed") /\ ~Left("decision-emitted")
    BY <1>c DEF Left
<1> HIDE DEF moves, decides
<1>10. Folds'
    <2>1. Rank(heard.phase) <= Rank(iv'.phase)
        <3>1. heard.phase \in Phase /\ Rank(heard.phase) <= Rank(iv.phase)
            BY <1>a DEF Folds
        <3>2. Rank(heard.phase) \in 0 .. 6
            BY <3>1, PhaseRank
        <3> QED
            BY <1>e, <1>f, <3>1, <3>2
    <2>2. "phase-changed" \in lost \/ Left("phase-changed")' \/ heard.phase = iv'.phase
        BY <1>a, <1>5, <1>7, <1>9 DEF Folds
    <2>3. "decision-emitted" \in lost \/ Left("decision-emitted")' \/ heard.verdict = iv'.verdict
        BY <1>a, <1>6, <1>8, <1>9 DEF Folds
    <2> QED
        BY <1>a, <1>b, <2>1, <2>2, <2>3 DEF Folds
<1>11. Undecided' /\ OneAtATime' /\ Records'
    BY <1>a, <1>b DEF Undecided, IVIdle, OneAtATime, Records
<1> QED
    BY <1>4, <1>10, <1>11 DEF Stream

\* An event that is heard is what the object says; one that is dropped is lost.
LEMMA EmitIsFolded == ASSUME EventsInv, EvEmit PROVE Stream' /\ Rank(heard'.phase) >= Rank(heard.phase)
<1> DEFINE e == Head(emitting)
<1>a. /\ DecisionInv /\ Stream /\ Truthful /\ Undecided /\ OneAtATime /\ Folds /\ Records
      /\ IVTypeOK /\ emitting # <<>> /\ PublishEvent(e) /\ emitting' = Tail(emitting)
    BY DEF EventsInv, DecisionInv, IInv, TypeOK, Stream, EvEmit
<1>b. UNCHANGED <<iv, ivRun, sj, sjRun, started, recording>>
    BY DEF EvEmit, vars, ivVars, sjVars
<1>1. /\ e = emitting[1] /\ 1 \in DOMAIN emitting
      /\ emitting' \in Seq(ValidationEvent)
      /\ \A n \in DOMAIN emitting' : n + 1 \in DOMAIN emitting /\ emitting'[n] = emitting[n + 1]
      /\ \A n \in DOMAIN emitting : n = 1 \/ (n - 1 \in DOMAIN emitting' /\ emitting'[n - 1] = emitting[n])
    BY <1>a DEF Truthful
<1> HIDE DEF e
<1>2. Truthful'
    BY <1>a, <1>b, <1>1 DEF Truthful
<1>3. Undecided' /\ OneAtATime'
    BY <1>a, <1>b DEF Undecided, OneAtATime
<1>4. \A k : Left(k) => e.kind = k \/ Left(k)'
    BY <1>1 DEF Left
<1>5. /\ heard.phase \in Phase /\ iv.phase \in Phase /\ Rank(heard.phase) <= Rank(iv.phase)
      /\ Rank(heard.phase) \in 0 .. 6 /\ Rank(iv.phase) \in 0 .. 6
    <2>1. heard.phase \in Phase /\ iv.phase \in Phase /\ Rank(heard.phase) <= Rank(iv.phase)
        BY <1>a DEF Folds, IVTypeOK, Status
    <2> QED
        BY <2>1, PhaseRank
<1>6. CASE Dropped(e)
    <2>1. heard' = heard /\ lost' = lost \cup {e.kind}
        BY <1>6 DEF Dropped
    <2>2. Folds'
        BY <1>a, <1>b, <1>4, <2>1 DEF Folds
    <2>3. Records'
        BY <1>a, <1>b, <2>1 DEF Records
    <2> QED
        BY <1>2, <1>3, <1>5, <2>1, <2>2, <2>3 DEF Stream
<1>7. CASE Delivered(e) /\ \E p \in Phase : e = PhaseChanged(p, iv.phase)
    <2>1. e.kind = "phase-changed" /\ e.to = iv.phase
        BY <1>7 DEF PhaseChanged
    <2>2. heard' = [heard EXCEPT !.phase = iv.phase] /\ lost' = lost \ {"phase-changed"}
        BY <1>7, <2>1 DEF Delivered, Folded
    <2>3. /\ heard'.phase = iv.phase /\ heard'.verdict = heard.verdict /\ heard'.findings = heard.findings
          /\ heard' \in [phase : Phase, verdict : GateVerdict \cup {"none"},
                         findings : SUBSET (Scanner \X Found)]
        BY <1>a, <1>5, <2>2 DEF Folds
    <2>4. Folds'
        BY <1>a, <1>b, <1>4, <1>5, <2>1, <2>2, <2>3 DEF Folds
    <2>5. Records'
        BY <1>a, <1>b, <2>2, <2>3 DEF Records
    <2> QED
        BY <1>2, <1>3, <1>5, <2>3, <2>4, <2>5 DEF Stream
<1>8. CASE Delivered(e) /\ e = DecisionEmitted(iv.verdict)
    <2>1. e.kind = "decision-emitted" /\ e.verdict = iv.verdict
        BY <1>8 DEF DecisionEmitted
    <2>2. heard' = [heard EXCEPT !.verdict = iv.verdict] /\ lost' = lost \ {"decision-emitted"}
        BY <1>8, <2>1 DEF Delivered, Folded
    <2>3. iv.verdict \in GateVerdict \cup {"none"}
        BY <1>a DEF IVTypeOK, Status
    <2>4. /\ heard'.phase = heard.phase /\ heard'.verdict = iv.verdict /\ heard'.findings = heard.findings
          /\ heard' \in [phase : Phase, verdict : GateVerdict \cup {"none"},
                         findings : SUBSET (Scanner \X Found)]
        BY <1>a, <2>2, <2>3 DEF Folds
    <2>5. Folds'
        BY <1>a, <1>b, <1>4, <2>1, <2>2, <2>4 DEF Folds
    <2>6. Records'
        BY <1>a, <1>b, <2>2, <2>4 DEF Records
    <2> QED
        BY <1>2, <1>3, <1>5, <2>4, <2>5, <2>6 DEF Stream
<1> QED
    BY <1>a, <1>1, <1>6, <1>7, <1>8 DEF PublishEvent, Truthful

\* emit_findings_recorded has all of the patch's findings to publish, or gives all of them up.
LEMMA ScanPatchRecords == ASSUME EventsInv, NEW s \in Scanner, EvScanPatch(s) PROVE Stream'
<1>a. /\ SJTypeOK /\ Stream /\ Truthful /\ Undecided /\ OneAtATime /\ Folds /\ Records
      /\ UNCHANGED <<publisher, started, emitting, heard, life, iv, ivRun>>
      /\ SJPatch(s) /\ sjRun[s] # Idle /\ sjRun' = [sjRun EXCEPT ![s] = Idle]
    BY DEF EventsInv, DecisionInv, IInv, TypeOK, Stream, EvScanPatch, ivVars, SJPatch
<1>b. /\ sjRun[s] \in ScanJobRun /\ sjRun[s].found \in SUBSET Found /\ recording[s] = {}
      /\ Idle.found = {} /\ Idle.to = "idle"
    BY <1>a DEF SJTypeOK, ScanJobRun, OneAtATime, Idle
<1>1. /\ \A t \in Scanner \ {s} : sj'[t] = sj[t] /\ sjRun'[t] = sjRun[t]
      /\ sjRun'[s] = Idle
    BY <1>a, SJFrame DEF SJReconcile, SJTypeOK
<1>2. \/ sjRun[s].found = {} /\ sj'[s].found = sj[s].found
      \/ sj'[s].found = sjRun[s].found
    <2>1. sj[s] \in ScanJobStatus /\ sj \in [Scanner -> ScanJobStatus]
        BY <1>a DEF SJTypeOK
    <2>2. CASE sjRun[s].to = "Attested"
        BY <1>a, <2>1, <2>2 DEF SJPatch
    <2>3. CASE sjRun[s].to = "Forking"
        BY <1>a, <2>1, <2>3 DEF SJPatch, OneAtATime, ScanJobStatus
    <2> QED
        BY <1>a, <2>2, <2>3 DEF SJPatch
<1>3. \/ recording' = [recording EXCEPT ![s] = sjRun[s].found] /\ lost' = lost
      \/ lost' = lost \cup {"finding-recorded"} /\ recording' = recording
    BY DEF EvScanPatch
<1>4. /\ recording' \in [Scanner -> SUBSET Found]
      /\ \A t \in Scanner \ {s} : recording'[t] = recording[t]
      /\ "finding-recorded" \notin lost' => recording'[s] = sjRun[s].found
    BY <1>a, <1>b, <1>3 DEF OneAtATime
<1>5. OneAtATime'
    BY <1>a, <1>b, <1>1, <1>4 DEF OneAtATime
<1>6. Truthful' /\ Undecided' /\ Folds'
    BY <1>a, <1>3 DEF Truthful, Undecided, Folds, Left
<1>7. Records'
    <2>1. ASSUME "finding-recorded" \notin lost', NEW t \in Scanner, NEW f \in Found, f \in sj'[t].found
          PROVE  f \in recording'[t] \/ <<t, f>> \in heard'.findings
        <3>1. "finding-recorded" \notin lost
            BY <1>3, <2>1
        <3>2. CASE t = s
            BY <1>a, <1>b, <1>2, <1>4, <2>1, <3>1, <3>2 DEF Records
        <3>3. CASE t # s
            BY <1>a, <1>1, <1>4, <2>1, <3>1, <3>3 DEF Records
        <3> QED
            BY <3>2, <3>3
    <2> QED
        BY <2>1 DEF Records
<1> QED
    BY <1>5, <1>6, <1>7 DEF Stream

LEMMA RecordIsFolded ==
    ASSUME EventsInv, NEW s \in Scanner, EvRecord(s) PROVE Stream' /\ heard'.phase = heard.phase
<1>a. /\ SJTypeOK /\ Stream /\ Truthful /\ Undecided /\ OneAtATime /\ Folds /\ Records
      /\ UNCHANGED <<iv, ivRun, sj, sjRun, publisher, started, emitting, life>>
    BY DEF EventsInv, DecisionInv, IInv, TypeOK, Stream, EvRecord, vars, ivVars, sjVars
<1>b. PICK f \in recording[s] : /\ PublishEvent(FindingRecorded(s, f))
                               /\ recording' = [recording EXCEPT ![s] = @ \ {f}]
    BY DEF EvRecord
<1>c. FindingRecorded(s, f).kind = "finding-recorded"
      /\ FindingRecorded(s, f).scanner = s /\ FindingRecorded(s, f).finding = f
    BY DEF FindingRecorded
<1>d. f \in Found /\ recording \in [Scanner -> SUBSET Found]
    BY <1>a DEF OneAtATime
<1>1. /\ recording' \in [Scanner -> SUBSET Found]
      /\ \A t \in Scanner : recording'[t] \subseteq recording[t]
      /\ \A t \in Scanner : \A g \in recording[t] : g \in recording'[t] \/ (t = s /\ g = f)
    BY <1>b, <1>d
<1>2. OneAtATime' /\ Truthful' /\ Undecided'
    BY <1>a, <1>1 DEF OneAtATime, Truthful, Undecided
<1>3. CASE Dropped(FindingRecorded(s, f))
    <2>1. heard' = heard /\ lost' = lost \cup {"finding-recorded"}
        BY <1>c, <1>3 DEF Dropped
    <2>2. Folds' /\ Records'
        BY <1>a, <2>1 DEF Folds, Records, Left
    <2> QED
        BY <1>2, <2>1, <2>2 DEF Stream
<1>4. CASE Delivered(FindingRecorded(s, f))
    <2>1. /\ heard' = [heard EXCEPT !.findings = @ \cup {<<s, f>>}] /\ lost' = lost
        BY <1>c, <1>4 DEF Delivered, Folded
    <2>2. /\ heard'.phase = heard.phase /\ heard'.verdict = heard.verdict
          /\ heard'.findings = heard.findings \cup {<<s, f>>}
          /\ heard' \in [phase : Phase, verdict : GateVerdict \cup {"none"},
                         findings : SUBSET (Scanner \X Found)]
        BY <1>a, <1>d, <2>1 DEF Folds
    <2>3. Folds'
        BY <1>a, <2>1, <2>2 DEF Folds, Left
    <2>4. Records'
        <3>1. ASSUME "finding-recorded" \notin lost', NEW t \in Scanner, NEW g \in Found,
                     g \in sj'[t].found
              PROVE  g \in recording'[t] \/ <<t, g>> \in heard'.findings
            <4>1. g \in recording[t] \/ <<t, g>> \in heard.findings
                BY <1>a, <2>1, <3>1 DEF Records
            <4> QED
                BY <1>1, <2>2, <4>1
        <3> QED
            BY <3>1 DEF Records
    <2> QED
        BY <1>2, <2>2, <2>3, <2>4 DEF Stream
<1> QED
    BY <1>b, <1>3, <1>4 DEF PublishEvent

\* What the process had left to publish when it died is lost.
LEMMA RestartLoses == ASSUME EventsInv, Restart PROVE Stream' /\ heard' = heard
<1>a. /\ Stream /\ Truthful /\ OneAtATime /\ Folds /\ Records
      /\ UNCHANGED <<sj, iv, heard>> /\ ivRun' = IVIdle /\ IVIdle.pc = "idle"
      /\ sjRun' = [t \in Scanner |-> Idle] /\ Idle.found = {}
      /\ lost' = lost \cup Unsent /\ emitting' = <<>> /\ recording' = [t \in Scanner |-> {}]
    BY DEF EventsInv, Stream, Restart, IVIdle, Idle
<1>1. Truthful' /\ Undecided' /\ OneAtATime'
    BY <1>a DEF Truthful, Undecided, OneAtATime
<1>2. \A k : Left(k) => k \in lost'
    BY <1>a DEF Left, Unsent
<1>3. Folds'
    BY <1>a, <1>2 DEF Folds
<1>4. Records'
    <2>1. ASSUME "finding-recorded" \notin lost', NEW t \in Scanner, NEW f \in Found, f \in sj'[t].found
          PROVE  <<t, f>> \in heard'.findings
        <3>1. "finding-recorded" \notin lost /\ recording[t] = {}
            BY <1>a, <2>1 DEF Unsent
        <3> QED
            BY <1>a, <2>1, <3>1 DEF Records
    <2> QED
        BY <2>1 DEF Records
<1> QED
    BY <1>a, <1>1, <1>3, <1>4 DEF Stream

\* What a step does to what the subscriber has folded.
LEMMA EventsStep ==
    ASSUME EventsInv, [EvNext]_all
    PROVE  /\ EventsInv' /\ Rank(iv'.phase) >= Rank(iv.phase)
           /\ \A s \in Scanner : SJRank(sj'[s].phase) >= SJRank(sj[s].phase)
           /\ Rank(heard'.phase) >= Rank(heard.phase)
<1>a. DecisionInv /\ IInv /\ Stream
    BY DEF EventsInv, DecisionInv
<1>b. Rank(iv.phase) \in 0 .. 6 /\ Rank(heard.phase) \in 0 .. 6
      /\ \A s \in Scanner : SJRank(sj[s].phase) \in 0 .. 5
    BY <1>a, PhaseRank, SJRankTable DEF IInv, TypeOK, IVTypeOK, Status, Stream, Folds, SJTypeOK,
       ScanJobStatus, SJPhase
<1>1. CASE Restart
    BY <1>1, <1>a, <1>b, RestartKeeps, RestartLoses DEF EventsInv
<1>2. CASE EvNext /\ ~Restart
    <2>1. DecisionInv' /\ Rank(iv'.phase) >= Rank(iv.phase) /\ ScanJobsForward
        BY <1>2, <1>a, EventSteps, DecisionStep, ValidationStep, ScanJobsTrailStep DEF IInv
    <2>2. Stream' /\ Rank(heard'.phase) >= Rank(heard.phase)
        <3>1. CASE EvStart \/ EvCreate \/ EvPatch \/ EvOther
            <4>1. Stream'
                BY <3>1, StartIsUndecided, CreateIsSilent, PatchAnnounces, OtherIsSilent
            <4>2. heard' = heard
                BY <3>1 DEF EvStart, EvCreate, EvPatch, EvOther, evVars
            <4> QED
                BY <1>b, <4>1, <4>2
        <3>2. CASE EvEmit
            BY <3>2, EmitIsFolded
        <3>3. ASSUME NEW s \in Scanner, EvScan(s) \/ EvScanPatch(s) \/ EvRecord(s)
              PROVE  Stream' /\ Rank(heard'.phase) >= Rank(heard.phase)
            <4>1. EvScan(s) \/ EvScanPatch(s) => heard' = heard
                BY DEF EvScan, EvScanPatch, evVars
            <4> QED
                BY <1>b, <3>3, <4>1, ScanIsSilent, ScanPatchRecords, RecordIsFolded
        <3> QED
            BY <1>2, <3>1, <3>2, <3>3 DEF EvNext
    <2> QED
        BY <2>1, <2>2 DEF EventsInv, ScanJobsForward
<1>3. CASE UNCHANGED all
    <2>1. UNCHANGED vars /\ UNCHANGED <<started, emitting, recording, heard, lost>>
          /\ UNCHANGED <<iv, ivRun, sj, sjRun>>
        BY <1>3 DEF all, evVars, vars, ivVars, sjVars
    <2>2. DecisionInv'
        BY <1>a, <2>1, DecisionStep
    <2>3. Undecided' /\ OneAtATime'
        BY <1>a, <2>1 DEF Stream, Undecided, OneAtATime
    <2>4. Stream'
        BY <1>a, <2>1, <2>3, SilentStep
    <2> QED
        BY <1>b, <2>1, <2>2, <2>4 DEF EventsInv
<1> QED
    BY <1>1, <1>2, <1>3

LEMMA EventsInvariance == EvSpec => []EventsInv
<1>1. EventsInv /\ [EvNext]_all => EventsInv'
    BY EventsStep
<1> QED
    BY EventsStart, <1>1, PTL DEF EvSpec

\* Whatever lags, restarts or is lost: a subscriber misses a phase, a verdict or a finding only
\* when the event of it was lost or is still to be published.
THEOREM SubscribersMissOnlyTheLost == EvSpec => []NothingUnheard
<1>1. EventsInv => NothingUnheard
    <2> SUFFICES ASSUME EventsInv PROVE NothingUnheard
        OBVIOUS
    <2>a. SJTypeOK /\ OneAtATime /\ Folds /\ Records
        BY DEF EventsInv, Stream, DecisionInv, IInv, TypeOK
    <2>1. \A k : Left(k) => k \in Unsent
        BY DEF Left, Unsent
    <2>2. ASSUME "finding-recorded" \notin lost \cup Unsent, NEW s \in Scanner, NEW f \in sj[s].found
          PROVE  <<s, f>> \in heard.findings
        <3>1. recording[s] = {} /\ f \in Found
            BY <2>a, <2>2 DEF Unsent, SJTypeOK, ScanJobStatus
        <3> QED
            BY <2>a, <2>2, <3>1 DEF Records
    <2>3. ASSUME "finding-recorded" \notin lost \cup Unsent, NEW s \in Scanner
          PROVE  {s} \X sj[s].found \subseteq heard.findings
        BY <2>2, <2>3
    <2> QED
        BY <2>a, <2>1, <2>3 DEF Folds, NothingUnheard
<1> QED
    BY EventsInvariance, <1>1, PTL

\* No announcement takes the subscriber back, or ahead of the object.
THEOREM AnnouncementsMoveForward == EvSpec => SubscribersMoveForward
<1>1. EventsInv /\ [EvNext]_all =>
        [/\ Rank(heard'.phase) >= Rank(heard.phase)
         /\ Rank(heard'.phase) <= Rank(iv'.phase)]_all
    BY EventsStep DEF EventsInv, Stream, Folds
<1> QED
    BY EventsInvariance, <1>1, PTL DEF EvSpec, SubscribersMoveForward

\* Nothing the controllers promise depends on the process staying up: what was in flight is gone,
\* caches are listed anew, and every phase, verdict and action goes on as on the API server.
THEOREM PromisesOutliveRestarts ==
    EvSpec => /\ []GateAfterScans /\ []DecisionMatchesPhase /\ []FailedIsJustified
              /\ []RevokeOnlyWhenFailed /\ PhasesNeverRegress
<1>1. EventsInv => /\ GateAfterScans /\ DecisionMatchesPhase /\ FailedIsJustified
                   /\ RevokeOnlyWhenFailed
    <2>1. DecisionInv => GateAfterScans
        BY DEF DecisionInv, IInv, ChildrenKeepUp, GateAfterScans, Reached
    <2>2. DecisionInv => DecisionMatchesPhase
        BY RankTable DEF DecisionInv, Agrees, DecisionMatchesPhase, Terminal
    <2>3. DecisionInv => FailedIsJustified /\ RevokeOnlyWhenFailed
        BY DEF DecisionInv, Agrees, FailedIsJustified, Justified, RevokeOnlyWhenFailed
    <2> QED
        BY <2>1, <2>2, <2>3 DEF EventsInv
<1>2. EventsInv /\ [EvNext]_all =>
        [/\ Rank(iv'.phase) >= Rank(iv.phase)
         /\ \A s \in Scanner : SJRank(sj'[s].phase) >= SJRank(sj[s].phase)]_vars
    BY EventsStep
<1> QED
    BY EventsInvariance, <1>1, <1>2, PTL DEF EvSpec, PhasesNeverRegress
=============================================================================
