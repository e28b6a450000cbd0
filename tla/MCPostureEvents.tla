-------------------------- MODULE MCPostureEvents ---------------------------
(* Values for the constants of PostureEvents that a cfg cannot write. *)
EXTENDS PostureEvents

CONSTANTS trivy, zap

OneScanner == {trivy}

CriticalOnly == {[severity |-> "Critical", cve |-> TRUE]}
=============================================================================
