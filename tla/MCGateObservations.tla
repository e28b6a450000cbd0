------------------------- MODULE MCGateObservations --------------------------
(* Values for the constants of GateObservations that a cfg cannot write: one *)
(* finding per branch of diff, the aged ones on the last day of tolerance.   *)
EXTENDS GateObservations, TLC

CONSTANTS api, gator

TwoDigests == {api, gator}

Finding(severity, age) ==
    [severity |-> severity, cve |-> TRUE, age |-> age, excepted |-> FALSE]

OneOfEachBranch == {Finding("Critical", 0), Finding("High", 15), Finding("Medium", 90)}

DigestSymmetry == Permutations(Digest)
=============================================================================
