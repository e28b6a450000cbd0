\* Two decisions, one restart, every fault; well-formed reconciler specs.
CONSTANTS
  image = image
  cve = cve
  Plan <- RevokeOrMirror
  SpecFields <- WellFormed
  FlagEnabled = TRUE
  DryRun = FALSE
  MaxDecisions = 2
  MaxRestarts = 1
  Faults = {"relist", "outage", "patch"}
SPECIFICATION FairSpec
CHECK_DEADLOCK FALSE
INVARIANTS StepsFollowSuccess OncePerProcess DecisionsInOrder
PROPERTIES ReceiptsMoveForward CorrectionLands ReceiptLands
