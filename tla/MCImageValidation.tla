------------------------- MODULE MCImageValidation --------------------------
(* Values for the constants of ImageValidation that a cfg cannot write. *)
EXTENDS ImageValidation, TLC

CONSTANTS trivy, zap

TwoScanners == {trivy, zap}
OneScanner  == {trivy}

CriticalOnly == {[severity |-> "Critical", cve |-> TRUE]}

ScannerSymmetry == Permutations(Scanner)
=============================================================================
