---------------------------- MODULE SecurityGate ----------------------------
(***************************************************************************)
(* The pure decision procedure of security-controller: diff, classify and  *)
(* decide, and the verdict handle_gating derives from them.                *)
(*                                                                         *)
(* A finding is a record with the fields the procedure reads:              *)
(*   cve       does the finding carry a cve_id?                            *)
(*   severity  "Low", "Medium", "High" or "Critical"                       *)
(*   age       days since first_seen                                       *)
(*   excepted  does it carry an exception_id?                              *)
(* An observation of a digest is [status, findings, attestations,          *)
(* reported]; a snapshot is a function from digests to observations.  The  *)
(* Vecs of a drift are sets here: decide only asks whether they are empty  *)
(* and emits one group of actions per element.                             *)
(***************************************************************************)
EXTENDS Naturals

FindingSeverity == {"Low", "Medium", "High", "Critical"}
CartorioStatus  == {"Active", "Pending", "Revoked", "Quarantined", "Superseded"}
Severity        == {"Cosmetic", "Functional", "Critical"}
GateVerdict     == {"Passed", "Failed", "Quarantined"}

\* SecuritySpec: the thresholds and required sets a promessa resolves to.
SecuritySpec(scanners, attestations, forwarding) ==
    [maxHigh |-> 15, maxMedium |-> 90, scanners |-> scanners,
     attestations |-> attestations, forwarding |-> forwarding]

\* The findings diff looks at: an exception or a missing cve_id skips one.
Counted(obs) == {f \in obs.findings : ~f.excepted /\ f.cve}

CriticalCves(obs) == {f \in Counted(obs) : f.severity = "Critical"}

\* Mutant: the last day of tolerance is already too late.
AgedHighCvesEarly(spec, obs) ==
    {f \in Counted(obs) : f.severity = "High" /\ f.age >= spec.maxHigh}

AgedHighCves(spec, obs) ==
    {f \in Counted(obs) : f.severity = "High" /\ f.age > spec.maxHigh}

AgedMediumCves(spec, obs) ==
    {f \in Counted(obs) : f.severity = "Medium" /\ f.age > spec.maxMedium}

Withdrawn(obs) == obs.status \in {"Revoked", "Quarantined", "Superseded"}

\* Mutant: a Medium CVE past its tolerance leaves the digest clean.
CleanOfMedium(spec, obs) ==
    /\ obs.status = "Active"
    /\ spec.attestations \subseteq obs.attestations
    /\ spec.scanners \subseteq obs.reported
    /\ CriticalCves(obs) = {}
    /\ AgedHighCves(spec, obs) = {}

\* digest_clean in diff, with the Cartorio condition of the forwarding list.
CleanDigest(spec, obs) ==
    /\ obs.status = "Active"
    /\ spec.attestations \subseteq obs.attestations
    /\ spec.scanners \subseteq obs.reported
    /\ CriticalCves(obs) = {}
    /\ AgedHighCves(spec, obs) = {}
    /\ AgedMediumCves(spec, obs) = {}

\* Pairs every digest with the items it contributes.
PerDigest(items) == UNION {{d} \X items[d] : d \in DOMAIN items}

Diff(spec, snapshot) ==
    LET D == DOMAIN snapshot IN
    [revoked      |-> {d \in D : Withdrawn(snapshot[d])},
     attestations |-> PerDigest([d \in D |-> spec.attestations \ snapshot[d].attestations]),
     scanners     |-> PerDigest([d \in D |-> spec.scanners \ snapshot[d].reported]),
     critical     |-> PerDigest([d \in D |-> CriticalCves(snapshot[d])]),
     high         |-> PerDigest([d \in D |-> AgedHighCves(spec, snapshot[d])]),
     medium       |-> PerDigest([d \in D |-> AgedMediumCves(spec, snapshot[d])]),
     clean        |-> {d \in D : CleanDigest(spec, snapshot[d])}]

\* Mutant: a critical CVE somewhere in the promessa is not looked at.
ClassifyForgetsCritical(drift) ==
    IF drift.revoked # {} THEN "Critical"
    ELSE IF drift.high # {} \/ drift.attestations # {} \/ drift.scanners # {}
         THEN "Functional"
         ELSE "Cosmetic"

\* Mutant: the functional checks come first.
ClassifyFunctionalFirst(drift) ==
    IF drift.high # {} \/ drift.attestations # {} \/ drift.scanners # {}
    THEN "Functional"
    ELSE IF drift.critical # {} \/ drift.revoked # {} THEN "Critical" ELSE "Cosmetic"

Classify(drift) ==
    IF drift.critical # {} \/ drift.revoked # {} THEN "Critical"
    ELSE IF drift.high # {} \/ drift.attestations # {} \/ drift.scanners # {}
         THEN "Functional"
         ELSE "Cosmetic"

-----------------------------------------------------------------------------
(* Decisions.  An action names its reconciler and the drift entry it is for. *)

Step(reconciler, subject) == [reconciler |-> reconciler, subject |-> subject]

\* Per critical CVE: revoke in Cartorio, revoke the release tag, pin back.
Remediation(drift) ==
    {Step(r, c) : r \in {"CartorioAdmit", "GhcrTagRevoke", "FluxCommit"},
                  c \in drift.critical}

\* Per missing attestation the reconciler that produces it; per aged High
\* CVE a base image bump.  A missing scanner has no action.
AttestationReconciler(a) ==
    CASE a = "CartorioActive" -> "CartorioAdmit"
      [] a = "CosignSig"      -> "CosignAttest"
      [] a = "SbomSpdx"       -> "SbomGenerate"
      [] OTHER                -> "SlsaProvenance"

\* Mutant: aged High CVEs get no action.
RepairAttestationsOnly(drift) ==
    {Step(AttestationReconciler(m[2]), m) : m \in drift.attestations}

Repair(drift) ==
    {Step(AttestationReconciler(m[2]), m) : m \in drift.attestations}
        \cup {Step("RenovateBaseImageBump", h) : h \in drift.high}

Forward(drift) == {Step("HarborMirror", d) : d \in drift.clean}

NoAction       == [kind |-> "NoAction",    actions |-> {}]
Alert          == [kind |-> "Alert",       actions |-> {}]
AutoCorrect(A) == [kind |-> "AutoCorrect", actions |-> A]

Decide(spec, severity, drift) ==
    CASE severity = "Critical"   -> AutoCorrect(Remediation(drift))
      [] severity = "Functional" -> IF Repair(drift) = {} THEN Alert
                                    ELSE AutoCorrect(Repair(drift))
      [] OTHER                   -> IF ~spec.forwarding \/ drift.clean = {}
                                    THEN NoAction
                                    ELSE AutoCorrect(Forward(drift))

\* Mutants: an AutoCorrect of any severity fails; the severity as the verdict.
VerdictOfAnyCorrection(severity, decision) ==
    IF decision.kind = "AutoCorrect" THEN "Failed" ELSE "Passed"

VerdictOfSeverity(severity, decision) == severity

\* handle_gating's verdict table, for the decisions decide returns.
VerdictOf(severity, decision) ==
    IF decision.kind = "AutoCorrect" /\ severity = "Critical"
    THEN "Failed" ELSE "Passed"

\* The gate on one snapshot, as handle_gating runs it.
Gate(spec, snapshot) ==
    LET drift    == Diff(spec, snapshot)
        severity == Classify(drift)
        decision == Decide(spec, severity, drift)
    IN  [severity |-> severity, decision |-> decision,
         verdict  |-> VerdictOf(severity, decision)]
=============================================================================
