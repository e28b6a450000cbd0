-------------------------- MODULE ImageValidation ---------------------------
(***************************************************************************)
(* The AkeylessImageValidation reconciler (image_validation.rs) composed   *)
(* with the tenant and ScanJob reconcilers it drives: one validation, its  *)
(* tenant, and one ScanJob per required scanner, all meeting only through  *)
(* objects on the API server.                                              *)
(*                                                                         *)
(* A reconcile reads the cached object, reads and creates children on the  *)
(* API server, and ends with one merge patch of the whole status it built  *)
(* from the cached one.  ivRun holds that status while the reconcile is in *)
(* flight.  Of the status, the model keeps the phase, the evidence hash,   *)
(* the gate decision and when it was made; scan_jobs (which the API reads: *)
(* ValidationFaces), cartorio state (always Pending), started_at and       *)
(* observed_generation are written on the way and read by no handler.      *)
(***************************************************************************)
EXTENDS ScanJobController, EphemeralTenantController, SecurityGate

CONSTANTS
    Attestations,   \* required_attestations: empty in scan-only mode
    ScanOnly,       \* VALIDATION_SCAN_ONLY
    MaxDecisions    \* bound: gate decisions written to the validation

ASSUME GateAssumption ==
    /\ ScanOnly \in BOOLEAN
    /\ ScanOnly <=> Attestations = {}
    /\ MaxDecisions \in Nat \ {0}

VARIABLES
    iv,         \* status of the validation on the API server
    ivCache,    \* status of its copy in the watch cache
    ivRun       \* the reconcile in flight

ivVars == <<iv, ivCache, ivRun>>
vars   == <<sjVars, tenantVars, ivVars>>

Phase == {"Pending", "Provisioning", "Scanning", "Aggregating", "Attesting",
          "Gating", "Passed", "Failed", "Quarantined"}

Terminal == {"Passed", "Failed", "Quarantined"}

\* Position in the documented chain Pending -> ... -> Gating -> terminal.
Rank(p) == CASE p = "Pending"      -> 0 [] p = "Provisioning" -> 1
             [] p = "Scanning"     -> 2 [] p = "Aggregating"  -> 3
             [] p = "Attesting"    -> 4 [] p = "Gating"       -> 5
             [] OTHER              -> 6

\* A finding as the evidence bundle covers it: scanner, content, first_seen.
Evidence == Scanner \X Found \X (0 .. MaxCollections)

\* action: what the gate's typed action would do, by the worst of its steps.
ActionClass == {"none", "repair", "revoke"}

Status == [phase : Phase, hashed : BOOLEAN, evidence : SUBSET Evidence,
           verdict : GateVerdict \cup {"none"}, action : ActionClass,
           judged : SUBSET Evidence, decidedAt : 0 .. MaxDecisions]

IVRun == [pc : {"idle", "create", "patch"}, todo : SUBSET Scanner, new : Status]

IVTypeOK == iv \in Status /\ ivCache \in Status /\ ivRun \in IVRun

TypeOK == SJTypeOK /\ TenantTypeOK /\ IVTypeOK

NewStatus == [phase |-> "Pending", hashed |-> FALSE, evidence |-> {},
              verdict |-> "none", action |-> "none", judged |-> {}, decidedAt |-> 0]

IVIdle == [pc |-> "idle", todo |-> {}, new |-> NewStatus]

Init ==
    /\ SJInit
    /\ TenantInit
    /\ iv = NewStatus
    /\ ivCache = NewStatus
    /\ ivRun = IVIdle

-----------------------------------------------------------------------------
(* What the handlers read *)

Children == {s \in Scanner : sj[s].phase # "absent"}

\* Mutant: a running ScanJob is taken for a terminal one.
AllStarted == \A s \in Children : sj[s].phase \in {"Running", "Attested"}

AllTerminal == \A s \in Children : sj[s].phase = "Attested"

\* Union of the children's findings: the bytes canonical_findings_bytes
\* hashes, and the findings build_security_snapshot shows the gate.
Union == UNION {{<<s, f, sj[s].stamp>> : f \in sj[s].found} : s \in Children}

\* build_security_snapshot: no attestation is present, Cartorio is Pending,
\* and a child reports its scanner whatever became of the scan.  The parsers
\* set first_seen when they run, so findings are younger than any threshold.
Snapshot ==
    [d \in {"digest"} |->
        [status |-> "Pending", attestations |-> {}, reported |-> Children,
         findings |-> {[severity |-> e[2].severity, cve |-> e[2].cve,
                        age |-> 0, excepted |-> FALSE] : e \in Union}]]

Decided == Gate(SecuritySpec(Scanner, Attestations, FALSE), Snapshot)

\* Mutant: only a critical decision stores its action.
DecidedRevocation ==
    IF ~ScanOnly /\ Decided.severity = "Critical" THEN "revoke" ELSE "none"

\* The class of the action handle_gating stores; scan-only drops the action.
DecidedAction ==
    IF ScanOnly \/ Decided.decision.actions = {} THEN "none"
    ELSE IF Decided.severity = "Critical" THEN "revoke" ELSE "repair"

-----------------------------------------------------------------------------
(* The reconciler *)

IVObserve ==
    /\ ivCache # iv
    /\ ivCache' = iv
    /\ UNCHANGED <<sjVars, tenantVars, iv, ivRun>>

IVMayReconcile ==
    /\ ivRun.pc = "idle"
    /\ "lag" \in Faults \/ ivCache = iv

\* The reconcile goes on to patch the status new.
WillPatch(new) == ivRun' = [pc |-> "patch", todo |-> {}, new |-> new]

Moved(p) == [ivCache EXCEPT !.phase = p]

\* handle_pending: get the tenant and create it when there is none.
EnterProvisioning ==
    /\ TenantCreate
    /\ WillPatch(Moved("Provisioning"))
    /\ UNCHANGED <<sjVars, iv, ivCache>>

\* handle_provisioning: without a tenant it is handle_pending, with one that
\* is not ready it waits, and otherwise it starts on the ScanJobs.
Provision ==
    \/ /\ tenant = "absent"
       /\ EnterProvisioning
    \/ /\ tenant = "Ready"
       /\ ivRun' = [pc |-> "create", todo |-> Scanner, new |-> Moved("Scanning")]
       /\ UNCHANGED <<sjVars, tenantVars, iv, ivCache>>

IVPending ==
    /\ IVMayReconcile
    /\ ivCache.phase = "Pending"
    /\ EnterProvisioning

IVProvisioning ==
    /\ IVMayReconcile
    /\ ivCache.phase = "Provisioning"
    /\ Provision

\* Mutant: the loop ends with the first ScanJob it creates.
IVCreateOneScanJob(s) ==
    /\ ivRun.pc = "create"
    /\ s \in ivRun.todo
    /\ SJCreate(s)
    /\ ivRun' = [ivRun EXCEPT !.todo = {}, !.pc = "patch"]
    /\ UNCHANGED <<tenantVars, iv, ivCache>>

\* One turn of the loop over required_scanners: get_opt, then create.
IVCreateScanJob(s) ==
    /\ ivRun.pc = "create"
    /\ s \in ivRun.todo
    /\ SJCreate(s)
    /\ ivRun' = [ivRun EXCEPT !.todo = @ \ {s},
                              !.pc = IF ivRun.todo = {s} THEN "patch" ELSE "create"]
    /\ UNCHANGED <<tenantVars, iv, ivCache>>

\* Mutant: children that are not terminal send the validation back.
IVScanningRestarts ==
    /\ IVMayReconcile
    /\ ivCache.phase = "Scanning"
    /\ WillPatch(Moved(IF AllTerminal THEN "Aggregating" ELSE "Provisioning"))
    /\ UNCHANGED <<sjVars, tenantVars, iv, ivCache>>

\* handle_scanning: list the children; it patches the summaries every time.
IVScanning ==
    /\ IVMayReconcile
    /\ ivCache.phase = "Scanning"
    /\ IF Children = {}
       THEN Provision
       ELSE /\ WillPatch(Moved(IF AllTerminal THEN "Aggregating" ELSE "Scanning"))
            /\ UNCHANGED <<sjVars, tenantVars, iv, ivCache>>

\* Mutant: the hash is computed and not stored.
IVAggregatingUnhashed ==
    /\ IVMayReconcile
    /\ ivCache.phase = "Aggregating"
    /\ WillPatch(Moved("Attesting"))
    /\ UNCHANGED <<sjVars, tenantVars, iv, ivCache>>

\* handle_aggregating: hash the findings the children hold now.
IVAggregating ==
    /\ IVMayReconcile
    /\ ivCache.phase = "Aggregating"
    /\ WillPatch([Moved("Attesting") EXCEPT !.hashed = TRUE, !.evidence = Union])
    /\ UNCHANGED <<sjVars, tenantVars, iv, ivCache>>

IVAttesting ==
    /\ IVMayReconcile
    /\ ivCache.phase = "Attesting"
    /\ WillPatch(Moved("Gating"))
    /\ UNCHANGED <<sjVars, tenantVars, iv, ivCache>>

\* handle_gating: decide on the findings the children hold now.  judged is
\* what it saw; the decision itself keeps only counts, in its reason.
IVGating ==
    /\ IVMayReconcile
    /\ ivCache.phase = "Gating"
    /\ iv.decidedAt < MaxDecisions
    /\ WillPatch([Moved(Decided.verdict) EXCEPT
                    !.verdict = Decided.verdict, !.action = DecidedAction,
                    !.judged = Union, !.decidedAt = iv.decidedAt + 1])
    /\ UNCHANGED <<sjVars, tenantVars, iv, ivCache>>

\* Mutant: a decision that is there keeps its time.
MergeKeepsTime(old, new) ==
    [phase     |-> new.phase,
     hashed    |-> old.hashed \/ new.hashed,
     evidence  |-> IF new.hashed THEN new.evidence ELSE old.evidence,
     verdict   |-> IF new.verdict # "none" THEN new.verdict ELSE old.verdict,
     action    |-> IF new.action # "none" THEN new.action ELSE old.action,
     judged    |-> IF new.verdict # "none" THEN new.judged ELSE old.judged,
     decidedAt |-> IF old.verdict = "none" THEN new.decidedAt ELSE old.decidedAt]

\* A merge patch: fields the new status leaves out keep their value, and so
\* do the keys of an action when the new action is the empty object.
Merge(old, new) ==
    [phase     |-> new.phase,
     hashed    |-> old.hashed \/ new.hashed,
     evidence  |-> IF new.hashed THEN new.evidence ELSE old.evidence,
     verdict   |-> IF new.verdict # "none" THEN new.verdict ELSE old.verdict,
     action    |-> IF new.action # "none" THEN new.action ELSE old.action,
     judged    |-> IF new.verdict # "none" THEN new.judged ELSE old.judged,
     decidedAt |-> IF new.verdict # "none" THEN new.decidedAt ELSE old.decidedAt]

IVPatch ==
    /\ ivRun.pc = "patch"
    /\ iv' = Merge(iv, ivRun.new)
    /\ ivRun' = IVIdle
    /\ UNCHANGED <<sjVars, tenantVars, ivCache>>

IVAbort ==
    /\ "abort" \in Faults
    /\ ivRun.pc # "idle"
    /\ ivRun' = IVIdle
    /\ UNCHANGED <<sjVars, tenantVars, iv, ivCache>>

-----------------------------------------------------------------------------
IVReconcile ==
    \/ IVPending \/ IVProvisioning \/ IVScanning \/ IVAggregating
    \/ IVAttesting \/ IVGating \/ IVPatch
    \/ \E s \in Scanner : IVCreateScanJob(s)

Next ==
    \/ IVObserve \/ IVReconcile \/ IVAbort
    \/ SJNext /\ UNCHANGED <<tenantVars, ivVars>>
    \/ TenantNext /\ UNCHANGED <<sjVars, ivVars>>

Spec == Init /\ [][Next]_vars

(***************************************************************************)
(* Fairness.  kube-rs delivers the watch and requeues every object (15 s,  *)
(* 30 s after an error), so the cache catches up and every reconcile that  *)
(* stays possible happens; scanner pods end, one way or the other; and the *)
(* DAST target is deployed.  Faults are never fair.                        *)
(***************************************************************************)
Fairness ==
    /\ WF_vars(IVObserve)
    /\ WF_vars(IVReconcile)
    /\ WF_vars(TenantObserve /\ UNCHANGED <<sjVars, ivVars>>)
    /\ WF_vars(TenantReconcile /\ UNCHANGED <<sjVars, ivVars>>)
    /\ WF_vars(ServiceUp /\ UNCHANGED <<sjVars, ivVars>>)
    /\ \A s \in Scanner :
         /\ WF_vars(SJObserve(s) /\ UNCHANGED <<tenantVars, ivVars>>)
         /\ WF_vars(SJReconcile(s) /\ UNCHANGED <<tenantVars, ivVars>>)
         /\ WF_vars(JobSucceeds(s) /\ UNCHANGED <<tenantVars, ivVars>>)

FairSpec == Spec /\ Fairness
-----------------------------------------------------------------------------
(* Properties.  CriticalCve picks the findings that must fail a validation. *)

CriticalCve(f) == f.cve /\ f.severity = "Critical"

\* Phases only move forward along the documented chain, of the validation and
\* of every ScanJob, although every patch is built from a cached object that
\* may trail the API server and none carries a resourceVersion.
PhasesNeverRegress ==
    [][/\ Rank(iv'.phase) >= Rank(iv.phase)
       /\ \A s \in Scanner : SJRank(sj'[s].phase) >= SJRank(sj[s].phase)]_vars

\* Nothing is aggregated, attested or gated before every required scanner has
\* an attested ScanJob: handle_scanning looks at the children it lists, and
\* never at the list of required scanners.
GateAfterScans ==
    Rank(iv.phase) >= Rank("Aggregating") => \A s \in Scanner : sj[s].phase = "Attested"

\* The decision, the phase and the evidence hash on the API server agree,
\* whichever cached statuses the merge patches were built from.
DecisionMatchesPhase ==
    /\ iv.phase \in Terminal => iv.hashed /\ iv.verdict = iv.phase
    /\ iv.verdict # "none" => iv.phase \in Terminal

\* A validation fails only for a critical CVE its image really has.
FailedIsJustified ==
    iv.phase = "Failed" => \E s \in Scanner : \E f \in truth[s] : CriticalCve(f)

\* The action the dispatcher will find next to a verdict is that verdict's:
\* a merge patch keeps the keys of the object it does not mention.
RevokeOnlyWhenFailed == iv.action = "revoke" => iv.verdict = "Failed"

\* When no scan is cut short, the verdict is exact.
VerdictIsExact ==
    iv.phase \in Terminal =>
        (iv.phase = "Failed" <=> \E s \in Scanner : \E f \in truth[s] : CriticalCve(f))

\* The Job of scanner s is gone before its ScanJob has the result.
ScanLost(s) == sj[s].phase \in {"Forking", "Execing", "Running"} /\ job[s] = "absent"

\* The loss of a finished Job is the only thing that can keep a validation from
\* being decided: collect_results waits for the Job and nothing recreates it.
DecidedUnlessScanLost ==
    <>(iv.phase \in Terminal) \/ <>[](\E s \in Scanner : ScanLost(s))

-----------------------------------------------------------------------------
(* The inductive invariant behind PhasesNeverRegress and GateAfterScans.     *)

\* The phase of the validation once the reconcile in flight has patched it.
Reached(r) ==
    \/ Rank(iv.phase) >= r
    \/ ivRun.pc = "patch" /\ Rank(ivRun.new.phase) >= r

\* No cached ScanJob trails its object by more than one phase, and no patch in
\* flight goes back or further than that.
ScanJobsTrail ==
    \A s \in Scanner :
        /\ SJRank(sjCache[s]) <= SJRank(sj[s].phase)
        /\ SJRank(sj[s].phase) <= SJRank(sjCache[s]) + 1
        /\ sjRun[s].to = "Forking" =>
              SJRank(sjCache[s]) >= SJRank("Pending") /\ SJRank(sj[s].phase) <= SJRank("Forking")
        /\ sjRun[s].to = "Attested" => SJRank(sjCache[s]) >= SJRank("Running")

\* The same of the validation.
ValidationTrails ==
    /\ Rank(ivCache.phase) <= Rank(iv.phase)
    /\ Rank(iv.phase) <= Rank(ivCache.phase) + 1
    /\ ivRun.pc # "idle" =>
          /\ Rank(iv.phase) <= Rank(ivRun.new.phase)
          /\ Rank(ivRun.new.phase) <= Rank(ivCache.phase) + 1

\* What a phase says of the children: the tenant exists from Provisioning on,
\* every ScanJob from Scanning on, and every one is attested afterwards.
ChildrenKeepUp ==
    /\ Rank(iv.phase) >= Rank("Provisioning") \/ ivRun.pc # "idle" => tenant # "absent"
    /\ ivRun.pc = "create" =>
          /\ ivRun.new.phase = "Scanning"
          /\ \A s \in Scanner \ ivRun.todo : sj[s].phase # "absent"
    /\ Reached(Rank("Scanning")) => \A s \in Scanner : sj[s].phase # "absent"
    /\ Reached(Rank("Aggregating")) => \A s \in Scanner : sj[s].phase = "Attested"

IInv == TypeOK /\ ScanJobsTrail /\ ValidationTrails /\ ChildrenKeepUp

-----------------------------------------------------------------------------
(* The validation implements GatePromise.                                   *)

Stage == IF iv.phase \in Terminal THEN "decided"
         ELSE IF iv.hashed THEN "fixed" ELSE "collecting"

Promise == INSTANCE GatePromise
              WITH Finding  <- Evidence,
                   Blocking <- LAMBDA e : CriticalCve(e[2]),
                   stage    <- Stage,
                   evidence <- iv.evidence,
                   verdict  <- iv.verdict

\* Evidence fixed once, decided once, and on exactly that evidence.  That it is
\* decided in the end is DecidedUnlessScanLost.
ImplementsPromise == Promise!Spec

Announced == INSTANCE GateDecisions
            WITH Action <- ActionClass \ {"none"}, NoAction <- "none",
                 decidedAt <- iv.decidedAt, action <- iv.action

\* However old the object a reconcile started from, and whatever it patches over: every new
\* action comes with a new time, by which action_dispatcher knows it from the one before, and no
\* time comes back.
AnnouncesEveryDecision == Announced!Spec

-----------------------------------------------------------------------------
(* What a doc or a comment of the repository says, and the code does not do. *)

\* security-controller: missing_scanners still proves every scanner ran.
PassedMeansEveryScannerRan ==
    iv.phase = "Passed" => \A s \in Scanner : sj[s].source = "complete"
=============================================================================
