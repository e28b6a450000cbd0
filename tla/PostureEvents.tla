---------------------------- MODULE PostureEvents ----------------------------
(***************************************************************************)
(* The security-posture stream: what the image_validation and scan_job     *)
(* reconcilers publish on NATS after their patches (events_publisher.rs,   *)
(* emit_post_patch, emit_findings_recorded), on top of the controllers of  *)
(* ImageValidation, in a process that may restart.                         *)
(*                                                                         *)
(* An event is published after the patch it is about, by the reconcile     *)
(* that patched, which goes on only when its last event is out.  Nothing   *)
(* is retried: an event is lost when the publisher is disconnected, when   *)
(* publish fails, and when the process dies after the patch.  heard is the *)
(* stream as one subscriber of validation.posture.> folds it.              *)
(***************************************************************************)
EXTENDS ImageValidation, Sequences

CONSTANTS
    NatsFaults,   \* what may go wrong: "connect", "publish", "parent"
    MaxRestarts   \* bound: restarts of the process

ASSUME EventsAssumption ==
    /\ NatsFaults \subseteq {"connect", "publish", "parent"}
    /\ MaxRestarts \in Nat

VARIABLES
    publisher,   \* Inner: connected or not, settled once by from_env
    started,     \* the cached status the reconcile in flight started from
    emitting,    \* what it has left to publish
    recording,   \* recording[s]: the findings the reconcile of s has left to publish
    heard,       \* the last phase and verdict announced, and every finding
    lost,        \* history: what the subscriber missed and was not told again
    life         \* restarts so far

evVars == <<publisher, started, emitting, recording, heard, lost, life>>
all    == <<vars, evVars>>

PhaseChanged(from, to) == [kind |-> "phase-changed", from |-> from, to |-> to]
DecisionEmitted(v)     == [kind |-> "decision-emitted", verdict |-> v]
FindingRecorded(s, f)  == [kind |-> "finding-recorded", scanner |-> s, finding |-> f]

ValidationEvent ==
    {PhaseChanged(p, q) : p \in Phase, q \in Phase}
        \cup {DecisionEmitted(v) : v \in GateVerdict}
        \cup {FindingRecorded(s, f) : s \in Scanner, f \in Found}

\* from_env, within its five seconds; there is no second attempt.
Boot(p) == p \in IF "connect" \in NatsFaults THEN {"connected", "disconnected"}
                                             ELSE {"connected"}

EvInit ==
    /\ Init
    /\ Boot(publisher)
    /\ started = NewStatus
    /\ emitting = <<>>
    /\ recording = [s \in Scanner |-> {}]
    /\ heard = [phase |-> "Pending", verdict |-> "none", findings |-> {}]
    /\ lost = {}
    /\ life = 0

-----------------------------------------------------------------------------
(* The publisher *)

\* What a subscriber makes of an event.
Folded(e) ==
    CASE e.kind = "phase-changed"    -> [heard EXCEPT !.phase = e.to]
      [] e.kind = "decision-emitted" -> [heard EXCEPT !.verdict = e.verdict]
      [] OTHER -> [heard EXCEPT !.findings = @ \cup {<<e.scanner, e.finding>>}]

\* A phase or a verdict replaces the one that was missed before it; a finding
\* does not stand for another.
Delivered(e) ==
    /\ publisher = "connected"
    /\ heard' = Folded(e)
    /\ lost' = IF e.kind = "finding-recorded" THEN lost ELSE lost \ {e.kind}

Dropped(e) ==
    /\ publisher = "disconnected" \/ "publish" \in NatsFaults
    /\ lost' = lost \cup {e.kind}
    /\ UNCHANGED heard

\* Nothing tells the reconciler which of the two it was.
PublishEvent(e) == Delivered(e) \/ Dropped(e)

-----------------------------------------------------------------------------
(* The validation's reconciler *)

\* Mutant: a decision is announced when a phase is not.
EmitOneOf(old, new) ==
    IF new.phase # old.phase THEN <<PhaseChanged(old.phase, new.phase)>>
    ELSE IF old.verdict = "none" /\ new.verdict # "none"
         THEN <<DecisionEmitted(new.verdict)>> ELSE <<>>

\* emit_post_patch: from the object the reconcile started from and the status
\* it patched, whatever the object had become in between.
EmitPostPatch(old, new) ==
    (IF new.phase # old.phase THEN <<PhaseChanged(old.phase, new.phase)>> ELSE <<>>)
        \o (IF old.verdict = "none" /\ new.verdict # "none"
            THEN <<DecisionEmitted(new.verdict)>> ELSE <<>>)

EvStart ==
    /\ emitting = <<>>
    /\ IVPending \/ IVProvisioning \/ IVScanning \/ IVAggregating \/ IVAttesting \/ IVGating
    /\ started' = ivCache
    /\ UNCHANGED <<publisher, emitting, recording, heard, lost, life>>

EvCreate ==
    /\ \E s \in Scanner : IVCreateScanJob(s)
    /\ UNCHANGED evVars

\* Mutant: an error of the patch is not returned, and the events go out.
EvPatchUnchecked ==
    /\ \/ IVPatch
       \/ /\ ivRun.pc = "patch"
          /\ ivRun' = IVIdle
          /\ UNCHANGED <<sjVars, tenantVars, iv, ivCache>>
    /\ emitting' = EmitPostPatch(started, ivRun.new)
    /\ started' = NewStatus
    /\ UNCHANGED <<publisher, recording, heard, lost, life>>

EvPatch ==
    /\ IVPatch
    /\ emitting' = EmitPostPatch(started, ivRun.new)
    /\ started' = NewStatus
    /\ UNCHANGED <<publisher, recording, heard, lost, life>>

EvEmit ==
    /\ emitting # <<>>
    /\ PublishEvent(Head(emitting))
    /\ emitting' = Tail(emitting)
    /\ UNCHANGED <<vars, publisher, started, recording, life>>

-----------------------------------------------------------------------------
(* The scan jobs' reconciler *)

EvScan(s) ==
    /\ recording[s] = {}
    /\ SJFork(s) \/ SJAdvance(s) \/ SJCollect(s)
    /\ UNCHANGED <<tenantVars, ivVars, evVars>>

\* The patch; then emit_findings_recorded gets the parent for its identity,
\* and gives up on every event when it cannot.
EvScanPatch(s) ==
    /\ SJPatch(s)
    /\ \/ /\ recording' = [recording EXCEPT ![s] = sjRun[s].found]
          /\ UNCHANGED lost
       \/ /\ "parent" \in NatsFaults /\ sjRun[s].found # {}
          /\ lost' = lost \cup {"finding-recorded"}
          /\ UNCHANGED recording
    /\ UNCHANGED <<tenantVars, ivVars, publisher, started, emitting, heard, life>>

EvRecord(s) ==
    /\ \E f \in recording[s] :
          /\ PublishEvent(FindingRecorded(s, f))
          /\ recording' = [recording EXCEPT ![s] = @ \ {f}]
    /\ UNCHANGED <<vars, publisher, started, emitting, life>>

-----------------------------------------------------------------------------
(* The rest of the controllers, which publish nothing *)

EvOther ==
    /\ \/ IVObserve \/ IVAbort
       \/ TenantNext /\ UNCHANGED <<sjVars, ivVars>>
       \/ /\ \E s \in Scanner : \/ SJObserve(s) \/ SJAbort(s) \/ JobSucceeds(s)
                                \/ JobAttemptFails(s) \/ JobExpires(s)
          /\ UNCHANGED <<tenantVars, ivVars>>
    /\ UNCHANGED evVars

\* The kinds of the events the reconciles in flight have left to publish.
Unsent ==
    {emitting[i].kind : i \in DOMAIN emitting}
        \cup {"finding-recorded" : s \in {t \in Scanner : recording[t] # {}}}

\* The process dies and run_all starts anew: every reconcile in flight is
\* gone, with the events it had left; the caches are listed afresh and the
\* connection to the broker is tried again.
Restart ==
    /\ life < MaxRestarts
    /\ life' = life + 1
    /\ publisher' \in {p \in {"connected", "disconnected"} : Boot(p)}
    /\ sjRun' = [s \in Scanner |-> Idle] /\ sjCache' = [s \in Scanner |-> sj[s].phase]
    /\ tenantRun' = "idle" /\ tenantCache' = tenant
    /\ ivRun' = IVIdle /\ ivCache' = iv
    /\ lost' = lost \cup Unsent
    /\ emitting' = <<>> /\ recording' = [s \in Scanner |-> {}]
    /\ started' = NewStatus
    /\ UNCHANGED <<sj, job, truth, tenant, service, iv, heard>>

EvNext ==
    \/ EvStart \/ EvCreate \/ EvPatch \/ EvEmit \/ EvOther \/ Restart
    \/ \E s \in Scanner : EvScan(s) \/ EvScanPatch(s) \/ EvRecord(s)

EvSpec == EvInit /\ [][EvNext]_all

\* The fairness of ImageValidation, and publish returns, one way or the other.
EvFairSpec ==
    /\ EvSpec
    /\ WF_all(EvStart \/ EvCreate \/ EvPatch \/ EvEmit)
    /\ WF_all(IVObserve /\ UNCHANGED evVars)
    /\ WF_all(TenantObserve /\ UNCHANGED <<sjVars, ivVars, evVars>>)
    /\ WF_all(TenantReconcile /\ UNCHANGED <<sjVars, ivVars, evVars>>)
    /\ \A s \in Scanner :
         /\ WF_all(SJObserve(s) /\ UNCHANGED <<tenantVars, ivVars, evVars>>)
         /\ WF_all(EvScan(s) \/ EvScanPatch(s) \/ EvRecord(s))
         /\ WF_all(JobSucceeds(s) /\ UNCHANGED <<tenantVars, ivVars, evVars>>)

-----------------------------------------------------------------------------
(* Properties *)

\* A subscriber who folds the stream never sees the validation go back, and
\* never ahead of the object: repeated patches from stale objects repeat
\* events, restarts lose them, and neither takes what was announced back.
SubscribersMoveForward ==
    [][/\ Rank(heard'.phase) >= Rank(heard.phase)
       /\ Rank(heard'.phase) <= Rank(iv'.phase)]_all

\* What is neither lost nor still to be sent has been heard: the comparison of
\* emit_post_patch, made with the object the reconcile started from, misses no
\* change of the object on the API server.
NothingUnheard ==
    LET missing == lost \cup Unsent IN
    /\ "phase-changed" \notin missing => heard.phase = iv.phase
    /\ "decision-emitted" \notin missing => heard.verdict = iv.verdict
    /\ "finding-recorded" \notin missing =>
          \A s \in Scanner : {s} \X sj[s].found \subseteq heard.findings

\* Whatever lags or restarts, the validation is decided and the subscriber told,
\* unless the event was lost, after which nothing sends it again.
DecisionsAreHeard ==
    <>(/\ iv.verdict # "none"
       /\ heard.verdict = iv.verdict \/ "decision-emitted" \in lost)
=============================================================================
