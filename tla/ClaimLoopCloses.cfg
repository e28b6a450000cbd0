\* One critical CVE, the specs as the gate emits them, no fault at all.
CONSTANTS
  image = image
  cve = cve
  Plan <- Revoke
  SpecFields <- AsEmitted
  FlagEnabled = TRUE
  DryRun = FALSE
  MaxDecisions = 1
  MaxRestarts = 0
  Faults = {}
SPECIFICATION FairSpec
CHECK_DEADLOCK FALSE
PROPERTY LoopCloses
