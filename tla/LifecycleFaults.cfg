\* One scanner, every fault, an in-cluster DAST target.
CONSTANTS
  trivy = trivy
  zap = zap
  Scanner <- OneScanner
  Found <- CriticalOnly
  Faults = {"lag", "abort", "attempt", "log", "ttl", "service", "teardown"}
  MaxCollections = 2
  DastTarget = "inCluster"
  Attestations = {"CosignSig"}
  ScanOnly = FALSE
  MaxDecisions = 2
SPECIFICATION Spec
CHECK_DEADLOCK FALSE
INVARIANTS FailedIsJustified RevokeOnlyWhenFailed DecisionMatchesPhase
PROPERTIES PhasesNeverRegress AnnouncesEveryDecision
