\* A prompt watch, a failing scanner.
CONSTANTS
  trivy = trivy
  zap = zap
  Scanner <- OneScanner
  Found <- CriticalOnly
  Faults = {"attempt"}
  MaxCollections = 2
  DastTarget = "none"
  Attestations = {}
  ScanOnly = TRUE
  MaxDecisions = 2
SPECIFICATION Spec
CHECK_DEADLOCK FALSE
INVARIANT PassedMeansEveryScannerRan
