\* Two digests, one finding each: critical, or high or medium on the last
\* day of tolerance.
CONSTANTS
  api = api
  gator = gator
  Digest <- TwoDigests
  Scanners = {"trivy"}
  Attested = {"CosignSig"}
  Forwarding = TRUE
  Discoverable <- OneOfEachBranch
  MaxDays = 1
SPECIFICATION Spec
SYMMETRY DigestSymmetry
CHECK_DEADLOCK FALSE
INVARIANTS ForwardsExactlyTheClean CorrectionSuffices
PROPERTY VerdictFollowsObservations
