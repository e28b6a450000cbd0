\* One scanner, a lagging watch, a broker that fails and a restart.
CONSTANTS
  trivy = trivy
  zap = zap
  Scanner <- OneScanner
  Found <- CriticalOnly
  Faults = {"lag"}
  MaxCollections = 2
  DastTarget = "none"
  Attestations = {}
  ScanOnly = TRUE
  MaxDecisions = 2
  NatsFaults = {"connect", "publish", "parent"}
  MaxRestarts = 1
SPECIFICATION EvFairSpec
CHECK_DEADLOCK FALSE
INVARIANT NothingUnheard
PROPERTIES SubscribersMoveForward DecisionsAreHeard
