\* Two scanners, a lagging watch and failing calls; every scan is complete.
CONSTANTS
  trivy = trivy
  zap = zap
  Scanner <- TwoScanners
  Found <- CriticalOnly
  Faults = {"lag", "abort"}
  MaxCollections = 2
  DastTarget = "none"
  Attestations = {"CosignSig"}
  ScanOnly = FALSE
  MaxDecisions = 2
SPECIFICATION Spec
CHECK_DEADLOCK FALSE
SYMMETRY ScannerSymmetry
INVARIANTS IInv GateAfterScans VerdictIsExact
