------------------------- MODULE ScanJobController --------------------------
(***************************************************************************)
(* The ScanJob reconciler (scan_job.rs), the ScanJob objects of one        *)
(* validation, the Kubernetes Jobs behind them and the watch cache the     *)
(* reconciler reads.                                                       *)
(*                                                                         *)
(* kube-rs runs at most one reconcile per object at a time and hands it    *)
(* the cached copy.  A reconcile is one action when its only effect is its *)
(* status patch, and two when another call comes first: the reconcile in   *)
(* flight then carries in sjRun[s] the patch it is going to send.  No      *)
(* patch carries a resourceVersion, so a patch always lands.               *)
(***************************************************************************)
EXTENDS Platform

CONSTANT MaxCollections    \* bound: result patches per ScanJob

ASSUME CollectionsAssumption == MaxCollections \in Nat \ {0}

VARIABLES
    sj,        \* sj[s]: the ScanJob of scanner s on the API server
    sjCache,   \* sjCache[s]: the phase of its copy in the watch cache
    sjRun,     \* sjRun[s]: the patch the reconcile in flight will send
    job,       \* job[s]: the state of the Kubernetes Job job-<name>
    truth      \* truth[s]: what a complete scan of the image reports

sjVars == <<sj, sjCache, sjRun, job, truth>>

\* The phases the reconciler writes, in order; "absent": there is no object.
SJPhase == {"absent", "Pending", "Forking", "Execing", "Running", "Attested"}

SJRank(p) == CASE p = "absent"  -> 0 [] p = "Pending" -> 1
               [] p = "Forking" -> 2 [] p = "Execing" -> 3
               [] p = "Running" -> 4 [] OTHER         -> 5

\* How the findings of an attested ScanJob came about: from the whole output
\* of a successful scan, from output the parser rejects, or from less than the
\* whole output.  A history: the code does not record it.
Source == {"none", "complete", "malformed", "incomplete"}

JobState == {"absent", "active", "retrying", "succeeded", "recovered", "failed"}

NoJob == [phase |-> "absent", found |-> {}, source |-> "none", stamp |-> 0]

\* No reconcile in flight.
Idle == [to |-> "idle", found |-> {}, source |-> "none"]

\* stamp counts the collections: make_finding stamps the findings of each afresh.
ScanJobStatus == [phase : SJPhase, found : SUBSET Found, source : Source,
                  stamp : 0 .. MaxCollections]

ScanJobRun == [to : {"idle", "Forking", "Attested"}, found : SUBSET Found, source : Source]

SJTypeOK ==
    /\ sj \in [Scanner -> ScanJobStatus]
    /\ sjCache \in [Scanner -> SJPhase]
    /\ sjRun \in [Scanner -> ScanJobRun]
    /\ job \in [Scanner -> JobState]
    /\ truth \in [Scanner -> SUBSET Found]

SJInit ==
    /\ sj = [s \in Scanner |-> NoJob]
    /\ sjCache = [s \in Scanner |-> "absent"]
    /\ sjRun = [s \in Scanner |-> Idle]
    /\ job = [s \in Scanner |-> "absent"]
    /\ truth \in [Scanner -> SUBSET Found]

-----------------------------------------------------------------------------
(* The reconciler *)

\* The watch delivers the current object to the cache.
SJObserve(s) ==
    /\ sjCache[s] # sj[s].phase
    /\ sjCache' = [sjCache EXCEPT ![s] = sj[s].phase]
    /\ UNCHANGED <<sj, sjRun, job, truth>>

\* A reconcile may start on s: none is in flight, and the cache is up to date
\* unless the watch may lag behind the requeue.
SJReady(s) ==
    /\ sjRun[s] = Idle
    /\ "lag" \in Faults \/ sjCache[s] = sj[s].phase

\* Pending: create_scanner_job gets the Job and creates it when there is none.
SJFork(s) ==
    /\ SJReady(s)
    /\ sjCache[s] = "Pending"
    /\ job' = [job EXCEPT ![s] = IF @ = "absent" THEN "active" ELSE @]
    /\ sjRun' = [sjRun EXCEPT ![s].to = "Forking"]
    /\ UNCHANGED <<sj, sjCache, truth>>

\* Forking -> Execing -> Running: nothing but the patch.
SJAdvance(s) ==
    /\ SJReady(s)
    /\ \E step \in {<<"Forking", "Execing">>, <<"Execing", "Running">>} :
          /\ sjCache[s] = step[1]
          /\ sj' = [sj EXCEPT ![s].phase = step[2]]
    /\ UNCHANGED <<sjCache, sjRun, job, truth>>

\* Mutant: only a succeeded Job is collected.
OutputsOfSuccess(s) ==
    {o \in [source : {"complete"}, found : {truth[s]}] :
        job[s] \in {"succeeded", "recovered"}}

\* What collect_results can return for the Job as it stands; nothing while no
\* pod has finished.  The first pod listed may be that of a failed attempt,
\* whose output is any part of the truth; an unreadable log, a log the parser
\* rejects and a missing pod give no findings.
Outputs(s) ==
    {o \in [source : Source, found : SUBSET truth[s]] :
        /\ job[s] \notin {"absent", "active"}
        /\ \/ /\ o.source = "complete"
              /\ job[s] \in {"succeeded", "recovered"}
              /\ o.found = truth[s]
           \/ /\ o.source = "incomplete"
              /\ \/ job[s] \in {"retrying", "recovered", "failed"}
                 \/ o.found = {} /\ Faults \cap {"log", "ttl"} # {}
           \/ /\ o.source = "malformed"
              /\ "log" \in Faults
              /\ o.found = {}}

\* Running: collect_results reads the Job, its pods and the log.
SJCollect(s) ==
    /\ SJReady(s)
    /\ sjCache[s] = "Running"
    /\ \E out \in Outputs(s) :
          sjRun' = [sjRun EXCEPT ![s] = [to |-> "Attested", found |-> out.found,
                                         source |-> out.source]]
    /\ UNCHANGED <<sj, sjCache, job, truth>>

\* patch_phase, at the end of the Pending and the Running arm.  The merge
\* writes findings only with the result.
SJPatch(s) ==
    /\ sjRun[s] # Idle
    /\ \/ /\ sjRun[s].to = "Forking"
          /\ sj' = [sj EXCEPT ![s].phase = "Forking"]
       \/ /\ sjRun[s].to = "Attested"
          /\ sj[s].stamp < MaxCollections
          /\ sj' = [sj EXCEPT ![s] = [phase |-> "Attested", found |-> sjRun[s].found,
                                      source |-> sjRun[s].source, stamp |-> @.stamp + 1]]
    /\ sjRun' = [sjRun EXCEPT ![s] = Idle]
    /\ UNCHANGED <<sjCache, job, truth>>

\* The reconcile ends early: an error returned by `?`, or a restart.
SJAbort(s) ==
    /\ "abort" \in Faults
    /\ sjRun[s] # Idle
    /\ sjRun' = [sjRun EXCEPT ![s] = Idle]
    /\ UNCHANGED <<sj, sjCache, job, truth>>

-----------------------------------------------------------------------------
(* The Job controller and the scanner's pods *)

JobSucceeds(s) ==
    /\ job[s] \in {"active", "retrying"}
    /\ job' = [job EXCEPT ![s] = IF @ = "active" THEN "succeeded" ELSE "recovered"]
    /\ UNCHANGED <<sj, sjCache, sjRun, truth>>

\* A pod fails; the last of the retries fails the Job.
JobAttemptFails(s) ==
    /\ "attempt" \in Faults
    /\ job[s] \in {"active", "retrying"}
    /\ \/ job' = [job EXCEPT ![s] = "retrying"] /\ job[s] = "active"
       \/ job' = [job EXCEPT ![s] = "failed"] /\ job[s] = "retrying"
    /\ UNCHANGED <<sj, sjCache, sjRun, truth>>

\* The TTL controller deletes a finished Job together with its pods.
JobExpires(s) ==
    /\ "ttl" \in Faults
    /\ job[s] \in {"succeeded", "recovered", "failed"}
    /\ job' = [job EXCEPT ![s] = "absent"]
    /\ UNCHANGED <<sj, sjCache, sjRun, truth>>

-----------------------------------------------------------------------------
SJReconcile(s) == SJFork(s) \/ SJAdvance(s) \/ SJCollect(s) \/ SJPatch(s)

SJNext ==
    \E s \in Scanner :
        \/ SJObserve(s) \/ SJReconcile(s) \/ SJAbort(s)
        \/ JobSucceeds(s) \/ JobAttemptFails(s) \/ JobExpires(s)

\* Used by the parent's reconciler: create the ScanJob unless it exists.
SJCreate(s) ==
    /\ sj' = [sj EXCEPT ![s].phase = IF @ = "absent" THEN "Pending" ELSE @]
    /\ UNCHANGED <<sjCache, sjRun, job, truth>>
=============================================================================
