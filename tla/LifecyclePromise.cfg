\* Two scanners, a prompt watch, scans that fail, expire or cannot be read.
CONSTANTS
  trivy = trivy
  zap = zap
  Scanner <- TwoScanners
  Found <- CriticalOnly
  Faults = {"attempt", "log", "ttl"}
  MaxCollections = 2
  DastTarget = "none"
  Attestations = {}
  ScanOnly = TRUE
  MaxDecisions = 2
SPECIFICATION FairSpec
CHECK_DEADLOCK FALSE
PROPERTIES ImplementsPromise DecidedUnlessScanLost
