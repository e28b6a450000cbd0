-------------------------- MODULE GateObservations ---------------------------
(***************************************************************************)
(* SecurityGate under observations that change: findings appear, age and   *)
(* are excepted, scanners and attestations arrive, Cartorio admits and     *)
(* withdraws.  Who changes them is outside the repository (the runtime     *)
(* projects them into a SecuritySnapshot); what is checked is how diff,    *)
(* classify and decide follow.                                             *)
(***************************************************************************)
EXTENDS SecurityGate

CONSTANTS
    Digest,        \* image digests under one promessa
    Scanners,      \* required_scanners
    Attested,      \* required_attestations
    Forwarding,    \* harbor_forwarding_enabled
    Discoverable,  \* findings as a scan first reports them
    MaxDays        \* bound: days observed

VARIABLES
    snapshot,
    day            \* days since the first observation

observation == <<snapshot, day>>

spec == SecuritySpec(Scanners, Attested, Forwarding)

Findings == [severity : FindingSeverity, cve : BOOLEAN, age : Nat, excepted : BOOLEAN]

ASSUME ObservationsAssumption ==
    /\ \A f \in Discoverable : f \in Findings
    /\ MaxDays \in Nat

TypeOK ==
    /\ day \in 0 .. MaxDays
    /\ snapshot \in [Digest -> [status : CartorioStatus, findings : SUBSET Findings,
                                attestations : SUBSET Attested, reported : SUBSET Scanners]]

Init ==
    /\ snapshot = [d \in Digest |-> [status |-> "Pending", findings |-> {},
                                     attestations |-> {}, reported |-> {}]]
    /\ day = 0

-----------------------------------------------------------------------------
(* Observations getting worse *)

\* Bound: one finding per digest.
Discover(d, f) ==
    /\ snapshot[d].findings = {}
    /\ snapshot' = [snapshot EXCEPT ![d].findings = @ \cup {f}]
    /\ UNCHANGED day

Aged(obs) == [obs EXCEPT !.findings = {[f EXCEPT !.age = @ + 1] : f \in @}]

DayPasses ==
    /\ day < MaxDays
    /\ day' = day + 1
    /\ snapshot' = [d \in Digest |-> Aged(snapshot[d])]

Withdraw(d) ==
    /\ snapshot[d].status = "Active"
    /\ snapshot' = [snapshot EXCEPT ![d].status = "Revoked"]
    /\ UNCHANGED day

Worse ==
    \/ DayPasses
    \/ \E d \in Digest : Withdraw(d) \/ \E f \in Discoverable : Discover(d, f)

-----------------------------------------------------------------------------
(* Observations getting better *)

Except(d, f) ==
    /\ ~f.excepted
    /\ snapshot' = [snapshot EXCEPT ![d].findings = (@ \ {f}) \cup {[f EXCEPT !.excepted = TRUE]}]
    /\ UNCHANGED day

Attest(d, a) ==
    /\ a \notin snapshot[d].attestations
    /\ snapshot' = [snapshot EXCEPT ![d].attestations = @ \cup {a}]
    /\ UNCHANGED day

Report(d, s) ==
    /\ s \notin snapshot[d].reported
    /\ snapshot' = [snapshot EXCEPT ![d].reported = @ \cup {s}]
    /\ UNCHANGED day

Admit(d) ==
    /\ snapshot[d].status = "Pending"
    /\ snapshot' = [snapshot EXCEPT ![d].status = "Active"]
    /\ UNCHANGED day

Better ==
    \E d \in Digest :
        \/ Admit(d)
        \/ \E f \in snapshot[d].findings : Except(d, f)
        \/ \E a \in Attested : Attest(d, a)
        \/ \E s \in Scanners : Report(d, s)

Next == Worse \/ Better

Spec == Init /\ [][Next]_observation

-----------------------------------------------------------------------------
(* Properties *)

Gated == Gate(spec, snapshot)

Gravity(severity) == CASE severity = "Cosmetic"   -> 0
                       [] severity = "Functional" -> 1
                       [] severity = "Critical"   -> 2

\* classify_monotonic: an observation that gets worse never lowers the
\* severity or turns a failure into a pass, and one that gets better never
\* raises it, whatever the other digests look like.
VerdictFollowsObservations ==
    [][LET before == Gated
           after  == Gated'
       IN  /\ Worse  => /\ Gravity(after.severity) >= Gravity(before.severity)
                        /\ before.verdict = "Failed" => after.verdict = "Failed"
           /\ Better => /\ Gravity(after.severity) <= Gravity(before.severity)
                        /\ before.verdict = "Passed" => after.verdict = "Passed"]_observation

\* Neither excepted nor without a cve_id.
Counts(f) == ~f.excepted /\ f.cve

\* An image leaves for the partner's registry exactly when forwarding is on,
\* it is admitted and carries no Medium CVE past 90 days, and no digest of the
\* promessa, itself included, is withdrawn, unattested, unreported or has a
\* critical CVE or a High one past 15 days: one sibling in trouble holds all
\* images back, a CVE on its last day of tolerance holds back none.  diff skips
\* findings in three places, classify looks at lists collected over the
\* digests, decide forwards what is left.
ForwardsExactlyTheClean ==
    LET actions == Gated.decision.actions IN
    \A d \in Digest :
        Step("HarborMirror", d) \in actions <=>
            /\ Forwarding
            /\ snapshot[d].status = "Active"
            /\ ~\E f \in snapshot[d].findings :
                   Counts(f) /\ f.severity = "Medium" /\ f.age > 90
            /\ \A e \in Digest :
                  /\ snapshot[e].status \notin {"Revoked", "Quarantined", "Superseded"}
                  /\ snapshot[e].attestations = Attested
                  /\ snapshot[e].reported = Scanners
                  /\ ~\E f \in snapshot[e].findings :
                         /\ Counts(f)
                         /\ \/ f.severity = "Critical"
                            \/ f.severity = "High" /\ f.age > 15

\* The snapshot once every action of a functional correction has succeeded.
Corrected(actions) ==
    [d \in Digest |->
        [snapshot[d] EXCEPT
            !.attestations = @ \cup {a \in Attested :
                                Step(AttestationReconciler(a), <<d, a>>) \in actions},
            !.findings = {f \in @ : Step("RenovateBaseImageBump", <<d, f>>) \notin actions}]]

\* A functional correction is enough: once its actions have succeeded, only a
\* scanner that never reported can keep the promessa from being satisfied.
CorrectionSuffices ==
    LET gated == Gated IN
    gated.severity = "Functional" =>
        \/ Classify(Diff(spec, Corrected(gated.decision.actions))) = "Cosmetic"
        \/ \E d \in Digest : snapshot[d].reported # Scanners
=============================================================================
