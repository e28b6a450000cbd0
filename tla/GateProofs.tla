----------------------------- MODULE GateProofs -----------------------------
(***************************************************************************)
(* The gate over observations that change, for every set of digests,       *)
(* scanners, attestations and discoverable findings and every number of    *)
(* days.                                                                   *)
(*                                                                         *)
(* diff collects drift across digests and classify asks whether a list is  *)
(* empty.  What is proved of them goes through two predicates of a         *)
(* snapshot, InTrouble and InRepair, which quantify over the digests.      *)
(***************************************************************************)
EXTENDS GateObservations, TLAPS

\* Some digest is withdrawn or has a critical CVE.
InTrouble(s) == \E d \in Digest : Withdrawn(s[d]) \/ CriticalCves(s[d]) # {}

\* Some digest lacks an attestation or a report, or has an aged High CVE.
InRepair(s) ==
    \E d \in Digest : \/ AgedHighCves(spec, s[d]) # {}
                      \/ Attested \ s[d].attestations # {}
                      \/ Scanners \ s[d].reported # {}

-----------------------------------------------------------------------------
(* diff and classify *)

LEMMA PerDigestIsEmpty ==
    ASSUME NEW items PROVE PerDigest(items) = {} <=> \A d \in DOMAIN items : items[d] = {}
<1>1. ASSUME NEW d \in DOMAIN items, NEW x \in items[d] PROVE <<d, x>> \in PerDigest(items)
    BY <1>1 DEF PerDigest
<1>2. ASSUME NEW p \in PerDigest(items) PROVE \E d \in DOMAIN items : items[d] # {}
    BY <1>2 DEF PerDigest
<1> QED
    BY <1>1, <1>2

LEMMA PerDigestHas ==
    ASSUME NEW items, NEW d \in DOMAIN items, NEW x \in items[d]
    PROVE  <<d, x>> \in PerDigest(items)
    BY DEF PerDigest

\* classify, on what diff finds.
LEMMA ClassifyIs ==
    ASSUME NEW s, DOMAIN s = Digest
    PROVE  Classify(Diff(spec, s)) = IF InTrouble(s) THEN "Critical"
                                     ELSE IF InRepair(s) THEN "Functional" ELSE "Cosmetic"
<1> DEFINE drift == Diff(spec, s)
<1>1. drift.revoked = {} <=> \A d \in Digest : ~Withdrawn(s[d])
    BY DEF Diff
<1>2. drift.critical = {} <=> \A d \in Digest : CriticalCves(s[d]) = {}
    <2>1. drift.critical = PerDigest([d \in Digest |-> CriticalCves(s[d])])
        BY DEF Diff
    <2> QED
        BY <2>1, PerDigestIsEmpty
<1>3. drift.high = {} <=> \A d \in Digest : AgedHighCves(spec, s[d]) = {}
    <2>1. drift.high = PerDigest([d \in Digest |-> AgedHighCves(spec, s[d])])
        BY DEF Diff
    <2> QED
        BY <2>1, PerDigestIsEmpty
<1>4. spec.attestations = Attested /\ spec.scanners = Scanners
    BY DEF spec, SecuritySpec
<1>5. drift.attestations = {} <=> \A d \in Digest : Attested \ s[d].attestations = {}
    <2>1. drift.attestations = PerDigest([d \in Digest |-> Attested \ s[d].attestations])
        BY <1>4 DEF Diff
    <2> QED
        BY <2>1, PerDigestIsEmpty
<1>6. drift.scanners = {} <=> \A d \in Digest : Scanners \ s[d].reported = {}
    <2>1. drift.scanners = PerDigest([d \in Digest |-> Scanners \ s[d].reported])
        BY <1>4 DEF Diff
    <2> QED
        BY <2>1, PerDigestIsEmpty
<1> HIDE DEF drift
<1>7. Classify(drift) = IF InTrouble(s) THEN "Critical"
                        ELSE IF InRepair(s) THEN "Functional" ELSE "Cosmetic"
    BY <1>1, <1>2, <1>3, <1>5, <1>6 DEF Classify, InTrouble, InRepair
<1> QED
    BY <1>7 DEF drift

\* What decide does with each severity, and the verdict: a failure exactly for trouble.
LEMMA GateIs ==
    ASSUME NEW s, DOMAIN s = Digest
    PROVE  LET gate  == Gate(spec, s)
               drift == Diff(spec, s)
           IN  /\ gate.severity = IF InTrouble(s) THEN "Critical"
                                  ELSE IF InRepair(s) THEN "Functional" ELSE "Cosmetic"
               /\ gate.verdict = IF InTrouble(s) THEN "Failed" ELSE "Passed"
               /\ gate.severity = "Critical" => gate.decision.actions = Remediation(drift)
               /\ gate.severity = "Functional" => gate.decision.actions = Repair(drift)
               /\ gate.severity = "Cosmetic" =>
                     gate.decision.actions = IF Forwarding THEN Forward(drift) ELSE {}
<1> DEFINE drift    == Diff(spec, s)
           severity == Classify(drift)
           decision == Decide(spec, severity, drift)
<1>1. severity = IF InTrouble(s) THEN "Critical" ELSE IF InRepair(s) THEN "Functional" ELSE "Cosmetic"
    BY ClassifyIs
<1>2. Gate(spec, s) = [severity |-> severity, decision |-> decision,
                       verdict |-> VerdictOf(severity, decision)]
    BY DEF Gate
<1> HIDE DEF drift, severity
<1>3. /\ severity = "Critical" => decision = AutoCorrect(Remediation(drift))
      /\ severity = "Functional" => decision.actions = Repair(drift)
      /\ severity = "Cosmetic" =>
            decision.actions = IF Forwarding THEN Forward(drift) ELSE {}
    <2>1. spec.forwarding = Forwarding /\ (drift.clean = {} => Forward(drift) = {})
        BY DEF spec, SecuritySpec, Forward
    <2> QED
        BY <2>1 DEF Decide, AutoCorrect, Alert, NoAction
<1> HIDE DEF decision
<1>4. VerdictOf(severity, decision) = IF InTrouble(s) THEN "Failed" ELSE "Passed"
    BY <1>1, <1>3 DEF VerdictOf, AutoCorrect
<1>5. severity = "Critical" => decision.actions = Remediation(drift)
    BY <1>3 DEF AutoCorrect
<1> QED
    BY <1>1, <1>2, <1>3, <1>4, <1>5 DEF drift

\* Whatever it is asked for and whatever it observes, the gate fails a digest set exactly when
\* it classifies the drift as Critical: what the faces of the API are told of its decisions.
THEOREM VerdictsFitSeverities ==
    ASSUME NEW wanted, NEW s
    PROVE  LET gate == Gate(wanted, s)
           IN  /\ gate.verdict \in {"Passed", "Failed"}
               /\ gate.severity = "Critical" <=> gate.verdict = "Failed"
<1> DEFINE drift    == Diff(wanted, s)
           severity == Classify(drift)
           decision == Decide(wanted, severity, drift)
<1>1. Gate(wanted, s) = [severity |-> severity, decision |-> decision,
                         verdict |-> VerdictOf(severity, decision)]
    BY DEF Gate
<1> HIDE DEF drift
<1>2. severity = "Critical" => decision.kind = "AutoCorrect"
    BY DEF Decide, AutoCorrect
<1> HIDE DEF severity, decision
<1> QED
    BY <1>1, <1>2 DEF VerdictOf

-----------------------------------------------------------------------------
(* Types *)

LEMMA GateStart == Init => TypeOK
    BY ObservationsAssumption DEF Init, TypeOK, CartorioStatus

LEMMA GateTypes == ASSUME TypeOK, [Next]_observation PROVE TypeOK'
<1> DEFINE Observation == [status : CartorioStatus, findings : SUBSET Findings,
                           attestations : SUBSET Attested, reported : SUBSET Scanners]
<1>0. snapshot \in [Digest -> Observation] /\ day \in 0 .. MaxDays
    BY DEF TypeOK
<1>1. CASE UNCHANGED observation
    BY <1>0, <1>1 DEF observation, TypeOK
<1>2. CASE DayPasses
    <2>1. ASSUME NEW d \in Digest PROVE Aged(snapshot[d]) \in Observation
        <3>1. \A f \in snapshot[d].findings : [f EXCEPT !.age = @ + 1] \in Findings
            BY <1>0 DEF Findings
        <3>2. {[f EXCEPT !.age = @ + 1] : f \in snapshot[d].findings} \in SUBSET Findings
            BY <3>1
        <3> QED
            BY <1>0, <3>2 DEF Aged
    <2>2. day' \in 0 .. MaxDays
        BY <1>0, <1>2, ObservationsAssumption DEF DayPasses
    <2> QED
        BY <1>2, <2>1, <2>2 DEF DayPasses, TypeOK
<1>3. ASSUME NEW d \in Digest, Withdraw(d) PROVE TypeOK'
    BY <1>0, <1>3 DEF Withdraw, TypeOK, CartorioStatus
<1>4. ASSUME NEW d \in Digest, NEW f \in Discoverable, Discover(d, f) PROVE TypeOK'
    BY <1>0, <1>4, ObservationsAssumption DEF Discover, TypeOK
<1>5. ASSUME NEW d \in Digest, Admit(d) PROVE TypeOK'
    BY <1>0, <1>5 DEF Admit, TypeOK, CartorioStatus
<1>6. ASSUME NEW d \in Digest, NEW f \in snapshot[d].findings, Except(d, f) PROVE TypeOK'
    <2>1. f \in Findings
        BY <1>0, <1>6
    <2>2. [f EXCEPT !.excepted = TRUE] \in Findings
        BY <2>1 DEF Findings
    <2>3. (snapshot[d].findings \ {f}) \cup {[f EXCEPT !.excepted = TRUE]} \in SUBSET Findings
        BY <1>0, <2>2
    <2> QED
        BY <1>0, <1>6, <2>3 DEF Except, TypeOK
<1>7. ASSUME NEW d \in Digest, NEW a \in Attested, Attest(d, a) PROVE TypeOK'
    BY <1>0, <1>7 DEF Attest, TypeOK
<1>8. ASSUME NEW d \in Digest, NEW s \in Scanners, Report(d, s) PROVE TypeOK'
    BY <1>0, <1>8 DEF Report, TypeOK
<1> QED
    BY <1>1, <1>2, <1>3, <1>4, <1>5, <1>6, <1>7, <1>8 DEF Next, Worse, Better

\* Types and domains, of observations as they are.
THEOREM TypeCorrect == Spec => []TypeOK
<1> QED
    BY GateStart, GateTypes, PTL DEF Spec

-----------------------------------------------------------------------------
(* The verdict follows the observations *)

\* An observation that gets worse keeps what is wrong with every digest.
LEMMA WorseKeepsDrift ==
    ASSUME TypeOK, Worse, NEW d \in Digest
    PROVE  /\ Withdrawn(snapshot[d]) => Withdrawn(snapshot'[d])
           /\ CriticalCves(snapshot[d]) # {} => CriticalCves(snapshot'[d]) # {}
           /\ AgedHighCves(spec, snapshot[d]) # {} => AgedHighCves(spec, snapshot'[d]) # {}
           /\ snapshot'[d].attestations = snapshot[d].attestations
           /\ snapshot'[d].reported = snapshot[d].reported
<1>0. /\ snapshot[d].findings \subseteq Findings
      /\ snapshot[d] \in [status : CartorioStatus, findings : SUBSET Findings,
                          attestations : SUBSET Attested, reported : SUBSET Scanners]
    BY DEF TypeOK
<1>1. CASE DayPasses
    <2>1. /\ snapshot'[d].status = snapshot[d].status
          /\ snapshot'[d].attestations = snapshot[d].attestations
          /\ snapshot'[d].reported = snapshot[d].reported
          /\ snapshot'[d].findings = {[f EXCEPT !.age = @ + 1] : f \in snapshot[d].findings}
        BY <1>0, <1>1 DEF DayPasses, Aged
    <2>2. ASSUME NEW f \in snapshot[d].findings
          PROVE  \E g \in snapshot'[d].findings :
                    /\ g.severity = f.severity /\ g.cve = f.cve /\ g.excepted = f.excepted
                    /\ g.age = f.age + 1
        <3>1. [f EXCEPT !.age = @ + 1] \in snapshot'[d].findings
            BY <2>1
        <3> QED
            BY <1>0, <3>1 DEF Findings
    <2>3. ASSUME NEW f \in CriticalCves(snapshot[d]) PROVE CriticalCves(snapshot'[d]) # {}
        BY <2>2 DEF CriticalCves, Counted
    <2>4. ASSUME NEW f \in AgedHighCves(spec, snapshot[d])
          PROVE  AgedHighCves(spec, snapshot'[d]) # {}
        <3>1. f \in snapshot[d].findings /\ f.age \in Nat /\ f.age > 15 /\ spec.maxHigh = 15
              /\ f.severity = "High" /\ f.cve /\ ~f.excepted
            BY <1>0 DEF AgedHighCves, Counted, Findings, spec, SecuritySpec
        <3>2. PICK g \in snapshot'[d].findings :
                  /\ g.severity = f.severity /\ g.cve = f.cve /\ g.excepted = f.excepted
                  /\ g.age = f.age + 1
            BY <2>2, <3>1
        <3>3. g.age > spec.maxHigh
            BY <3>1, <3>2
        <3> QED
            BY <3>1, <3>2, <3>3 DEF AgedHighCves, Counted
    <2> QED
        BY <2>1, <2>3, <2>4 DEF Withdrawn
<1>2. ASSUME NEW e \in Digest, Withdraw(e)
      PROVE  /\ Withdrawn(snapshot[d]) => Withdrawn(snapshot'[d])
             /\ snapshot'[d].findings = snapshot[d].findings
             /\ snapshot'[d].attestations = snapshot[d].attestations
             /\ snapshot'[d].reported = snapshot[d].reported
    BY <1>0, <1>2 DEF Withdraw, Withdrawn, TypeOK
<1>3. ASSUME NEW e \in Digest, NEW f \in Discoverable, Discover(e, f)
      PROVE  /\ snapshot'[d].status = snapshot[d].status
             /\ snapshot[d].findings \subseteq snapshot'[d].findings
             /\ snapshot'[d].attestations = snapshot[d].attestations
             /\ snapshot'[d].reported = snapshot[d].reported
    BY <1>0, <1>3 DEF Discover, TypeOK
<1> QED
    BY <1>1, <1>2, <1>3 DEF Worse, Withdrawn, CriticalCves, AgedHighCves, Counted

\* One that gets better adds nothing wrong to any digest.
LEMMA BetterAddsNoDrift ==
    ASSUME TypeOK, Better, NEW d \in Digest
    PROVE  /\ Withdrawn(snapshot'[d]) => Withdrawn(snapshot[d])
           /\ CriticalCves(snapshot'[d]) \subseteq CriticalCves(snapshot[d])
           /\ AgedHighCves(spec, snapshot'[d]) \subseteq AgedHighCves(spec, snapshot[d])
           /\ snapshot[d].attestations \subseteq snapshot'[d].attestations
           /\ snapshot[d].reported \subseteq snapshot'[d].reported
<1>0. snapshot \in [Digest -> [status : CartorioStatus, findings : SUBSET Findings,
                               attestations : SUBSET Attested, reported : SUBSET Scanners]]
    BY DEF TypeOK
<1> DEFINE Kept == /\ snapshot'[d].findings = snapshot[d].findings
                   /\ Withdrawn(snapshot'[d]) => Withdrawn(snapshot[d])
                   /\ snapshot[d].attestations \subseteq snapshot'[d].attestations
                   /\ snapshot[d].reported \subseteq snapshot'[d].reported
<1>1. ASSUME NEW e \in Digest, Admit(e) PROVE Kept
    BY <1>0, <1>1 DEF Admit, Withdrawn
<1>2. ASSUME NEW e \in Digest, NEW a \in Attested, Attest(e, a) PROVE Kept
    BY <1>0, <1>2 DEF Attest, Withdrawn
<1>3. ASSUME NEW e \in Digest, NEW s \in Scanners, Report(e, s) PROVE Kept
    BY <1>0, <1>3 DEF Report, Withdrawn
<1>4. ASSUME NEW e \in Digest, NEW f \in snapshot[e].findings, Except(e, f)
      PROVE  /\ snapshot'[d].status = snapshot[d].status
             /\ snapshot'[d].attestations = snapshot[d].attestations
             /\ snapshot'[d].reported = snapshot[d].reported
             /\ \A g \in snapshot'[d].findings : g.excepted \/ g \in snapshot[d].findings
    <2>1. f \in Findings
        BY <1>0, <1>4
    <2>2. [f EXCEPT !.excepted = TRUE].excepted = TRUE
        BY <2>1 DEF Findings
    <2>3. /\ snapshot'[d].status = snapshot[d].status
          /\ snapshot'[d].attestations = snapshot[d].attestations
          /\ snapshot'[d].reported = snapshot[d].reported
          /\ snapshot'[d].findings \subseteq snapshot[d].findings \cup {[f EXCEPT !.excepted = TRUE]}
        BY <1>0, <1>4 DEF Except
    <2> QED
        BY <2>2, <2>3
<1>5. ASSUME Kept
      PROVE  /\ CriticalCves(snapshot'[d]) = CriticalCves(snapshot[d])
             /\ AgedHighCves(spec, snapshot'[d]) = AgedHighCves(spec, snapshot[d])
    BY <1>5 DEF CriticalCves, AgedHighCves, Counted
<1>6. CASE \E e \in Digest : \E f \in snapshot[e].findings : Except(e, f)
    BY <1>4, <1>6 DEF Withdrawn, CriticalCves, AgedHighCves, Counted
<1>7. CASE Kept
    BY <1>5, <1>7
<1> QED
    BY <1>1, <1>2, <1>3, <1>6, <1>7 DEF Better

\* classify_monotonic: whatever the other digests look like, what gets worse never lowers the
\* severity or turns a failure into a pass, and what gets better never raises it.
THEOREM VerdictsFollow == Spec => VerdictFollowsObservations
<1> DEFINE Follows ==
       LET before == Gated
           after  == Gated'
       IN  /\ Worse  => /\ Gravity(after.severity) >= Gravity(before.severity)
                        /\ before.verdict = "Failed" => after.verdict = "Failed"
           /\ Better => /\ Gravity(after.severity) <= Gravity(before.severity)
                        /\ before.verdict = "Passed" => after.verdict = "Passed"
<1>1. ASSUME TypeOK, TypeOK', Next PROVE Follows
    <2>1. DOMAIN snapshot = Digest /\ DOMAIN snapshot' = Digest
        BY <1>1 DEF TypeOK
    <2>2. /\ Gated.severity = IF InTrouble(snapshot) THEN "Critical"
                              ELSE IF InRepair(snapshot) THEN "Functional" ELSE "Cosmetic"
          /\ Gated.verdict = IF InTrouble(snapshot) THEN "Failed" ELSE "Passed"
        BY <2>1, GateIs DEF Gated
    <2>3. /\ Gated'.severity = IF InTrouble(snapshot') THEN "Critical"
                               ELSE IF InRepair(snapshot') THEN "Functional" ELSE "Cosmetic"
          /\ Gated'.verdict = IF InTrouble(snapshot') THEN "Failed" ELSE "Passed"
        BY <2>1, GateIs DEF Gated
    <2>4. ASSUME Worse
          PROVE  /\ InTrouble(snapshot) => InTrouble(snapshot')
                 /\ InRepair(snapshot) => InRepair(snapshot')
        BY <1>1, <2>4, WorseKeepsDrift DEF InTrouble, InRepair
    <2>5. ASSUME Better
          PROVE  /\ InTrouble(snapshot') => InTrouble(snapshot)
                 /\ InRepair(snapshot') => InRepair(snapshot)
        BY <1>1, <2>5, BetterAddsNoDrift DEF InTrouble, InRepair
    <2>6. Gravity("Cosmetic") = 0 /\ Gravity("Functional") = 1 /\ Gravity("Critical") = 2
        BY DEF Gravity
    <2> HIDE DEF Gated
    <2>7. ASSUME Worse
          PROVE  /\ Gravity(Gated'.severity) >= Gravity(Gated.severity)
                 /\ Gated.verdict = "Failed" => Gated'.verdict = "Failed"
        BY <2>2, <2>3, <2>4, <2>6, <2>7
    <2>8. ASSUME Better
          PROVE  /\ Gravity(Gated'.severity) <= Gravity(Gated.severity)
                 /\ Gated.verdict = "Passed" => Gated'.verdict = "Passed"
        BY <2>2, <2>3, <2>5, <2>6, <2>8
    <2> QED
        BY <2>7, <2>8
<1>2. TypeOK /\ TypeOK' /\ [Next]_observation => [Follows]_observation
    BY <1>1
<1> QED
    BY <1>2, TypeCorrect, PTL DEF Spec, VerdictFollowsObservations

-----------------------------------------------------------------------------
(* What decide emits *)

\* Only a decision without drift forwards, and then each clean digest.
LEMMA OnlyForwardMirrors ==
    ASSUME NEW drift, NEW d
    PROVE  /\ Step("HarborMirror", d) \notin Remediation(drift)
           /\ Step("HarborMirror", d) \notin Repair(drift)
           /\ Step("HarborMirror", d) \in Forward(drift) <=> d \in drift.clean
<1>1. \A r, x : Step(r, x).reconciler = r /\ Step(r, x).subject = x
    BY DEF Step
<1>2. \A a : AttestationReconciler(a) # "HarborMirror"
    BY DEF AttestationReconciler
<1> QED
    BY <1>1, <1>2 DEF Remediation, Repair, Forward

\* What is forwarded is exactly what is clean, while no digest of the promessa is in trouble
\* or in need of repair.
THEOREM ForwardsAreClean == Spec => []ForwardsExactlyTheClean
<1>1. ASSUME TypeOK PROVE ForwardsExactlyTheClean
    <2> DEFINE Late(f)  == f.severity = "Critical" \/ (f.severity = "High" /\ f.age > 15)
               Stale(f) == f.severity = "Medium" /\ f.age > 90
               Fine(e)  == /\ snapshot[e].status \notin {"Revoked", "Quarantined", "Superseded"}
                           /\ snapshot[e].attestations = Attested
                           /\ snapshot[e].reported = Scanners
                           /\ ~\E f \in snapshot[e].findings : Counts(f) /\ Late(f)
    <2> SUFFICES ASSUME NEW d \in Digest
                 PROVE  Step("HarborMirror", d) \in Gated.decision.actions <=>
                            /\ Forwarding
                            /\ snapshot[d].status = "Active"
                            /\ ~\E f \in snapshot[d].findings : Counts(f) /\ Stale(f)
                            /\ \A e \in Digest : Fine(e)
        BY DEF ForwardsExactlyTheClean
    <2>1. /\ snapshot \in [Digest -> [status : CartorioStatus, findings : SUBSET Findings,
                                      attestations : SUBSET Attested, reported : SUBSET Scanners]]
          /\ DOMAIN snapshot = Digest
        BY <1>1 DEF TypeOK
    <2>2. /\ spec.maxHigh = 15 /\ spec.maxMedium = 90
          /\ spec.attestations = Attested /\ spec.scanners = Scanners
        BY DEF spec, SecuritySpec
    <2>3. ASSUME NEW e \in Digest
          PROVE  /\ CriticalCves(snapshot[e]) = {} /\ AgedHighCves(spec, snapshot[e]) = {}
                    <=> ~\E f \in snapshot[e].findings : Counts(f) /\ Late(f)
                 /\ AgedMediumCves(spec, snapshot[e]) = {}
                    <=> ~\E f \in snapshot[e].findings : Counts(f) /\ Stale(f)
        BY <2>2 DEF CriticalCves, AgedHighCves, AgedMediumCves, Counted, Counts
    <2> HIDE DEF Late, Stale
    <2>4. (\A e \in Digest : Fine(e)) <=> ~InTrouble(snapshot) /\ ~InRepair(snapshot)
        BY <2>1, <2>3 DEF InTrouble, InRepair, Withdrawn
    <2>5. ASSUME Fine(d)
          PROVE  CleanDigest(spec, snapshot[d]) <=>
                     /\ snapshot[d].status = "Active"
                     /\ ~\E f \in snapshot[d].findings : Counts(f) /\ Stale(f)
        BY <2>2, <2>3, <2>5 DEF CleanDigest
    <2> HIDE DEF Fine
    <2> DEFINE drift == Diff(spec, snapshot)
    <2>6. d \in drift.clean <=> CleanDigest(spec, snapshot[d])
        BY <2>1 DEF Diff
    <2> HIDE DEF drift
    <2>7. Step("HarborMirror", d) \in Gated.decision.actions <=>
              /\ Forwarding /\ ~InTrouble(snapshot) /\ ~InRepair(snapshot)
              /\ d \in drift.clean
        <3>1. /\ Gated.severity = IF InTrouble(snapshot) THEN "Critical"
                                  ELSE IF InRepair(snapshot) THEN "Functional" ELSE "Cosmetic"
              /\ Gated.severity = "Critical" => Gated.decision.actions = Remediation(drift)
              /\ Gated.severity = "Functional" => Gated.decision.actions = Repair(drift)
              /\ Gated.severity = "Cosmetic" =>
                    Gated.decision.actions = IF Forwarding THEN Forward(drift) ELSE {}
            BY <2>1, GateIs DEF Gated, drift
        <3> HIDE DEF Gated
        <3> QED
            BY <3>1, OnlyForwardMirrors
    <2> QED
        BY <2>4, <2>5, <2>6, <2>7
<1> QED
    BY <1>1, TypeCorrect, PTL

\* The actions of a functional correction remove all the drift they are for.
THEOREM CorrectionsSuffice == Spec => []CorrectionSuffices
<1>1. ASSUME TypeOK PROVE CorrectionSuffices
    <2> DEFINE actions == Gated.decision.actions
               after   == Corrected(actions)
               drift   == Diff(spec, snapshot)
    <2> SUFFICES ASSUME Gated.severity = "Functional",
                        \A d \in Digest : snapshot[d].reported = Scanners
                 PROVE  Classify(Diff(spec, after)) = "Cosmetic"
        BY DEF CorrectionSuffices
    <2>1. /\ snapshot \in [Digest -> [status : CartorioStatus, findings : SUBSET Findings,
                                      attestations : SUBSET Attested, reported : SUBSET Scanners]]
          /\ DOMAIN snapshot = Digest
        BY <1>1 DEF TypeOK
    <2>2. ~InTrouble(snapshot) /\ actions = Repair(drift)
        BY <2>1, GateIs DEF Gated
    <2>3. DOMAIN after = Digest
        BY DEF Corrected
    <2>4. ASSUME NEW d \in Digest
          PROVE  /\ after[d].status = snapshot[d].status
                 /\ after[d].reported = Scanners
                 /\ after[d].attestations = snapshot[d].attestations \cup
                       {a \in Attested : Step(AttestationReconciler(a), <<d, a>>) \in actions}
                 /\ after[d].findings =
                       {f \in snapshot[d].findings : Step("RenovateBaseImageBump", <<d, f>>) \notin actions}
        BY <2>1 DEF Corrected
    <2> HIDE DEF after, actions
    <2>5. ~InTrouble(after)
        BY <2>2, <2>4 DEF InTrouble, Withdrawn, CriticalCves, Counted
    <2>6. ASSUME NEW d \in Digest PROVE AgedHighCves(spec, after[d]) = {}
        <3> SUFFICES ASSUME NEW f \in AgedHighCves(spec, after[d]) PROVE FALSE
            OBVIOUS
        <3>1. f \in after[d].findings
            BY DEF AgedHighCves, Counted
        <3>2. f \in AgedHighCves(spec, snapshot[d])
            BY <2>4 DEF AgedHighCves, Counted
        <3>3. drift.high = PerDigest([e \in Digest |-> AgedHighCves(spec, snapshot[e])])
            BY <2>1 DEF Diff
        <3>4. <<d, f>> \in drift.high
            BY <3>2, <3>3, PerDigestHas
        <3>5. Step("RenovateBaseImageBump", <<d, f>>) \in actions
            BY <2>2, <3>4 DEF Repair
        <3> QED
            BY <2>4, <3>1, <3>5
    <2>7. ASSUME NEW d \in Digest PROVE Attested \ after[d].attestations = {}
        <3> SUFFICES ASSUME NEW a \in Attested, a \notin after[d].attestations PROVE FALSE
            OBVIOUS
        <3>1. a \in Attested \ snapshot[d].attestations
            BY <2>4
        <3>2. drift.attestations = PerDigest([e \in Digest |-> Attested \ snapshot[e].attestations])
            BY <2>1 DEF Diff, spec, SecuritySpec
        <3>3. <<d, a>> \in drift.attestations
            BY <3>1, <3>2, PerDigestHas
        <3>4. Step(AttestationReconciler(<<d, a>>[2]), <<d, a>>) \in Repair(drift)
            BY <3>3 DEF Repair
        <3> QED
            BY <2>2, <2>4, <3>4
    <2>8. ~InRepair(after)
        BY <2>4, <2>6, <2>7 DEF InRepair
    <2> QED
        BY <2>3, <2>5, <2>8, ClassifyIs
<1> QED
    BY <1>1, TypeCorrect, PTL
=============================================================================
