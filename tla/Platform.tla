------------------------------ MODULE Platform ------------------------------
(***************************************************************************)
(* What the controllers' modules share: the scanners a validation          *)
(* requires, the findings a scanner can report, and the faults the         *)
(* environment may inflict.  A fault is an action that only fires when its *)
(* kind is in Faults, so one specification serves every run.               *)
(*                                                                         *)
(*   lag       a reconcile starts from a cached object the watch has not   *)
(*             brought up to date (the requeue timer fired first)          *)
(*   abort     an API call fails or the process dies between two calls     *)
(*   attempt   a pod of a scanner Job fails (backoff_limit = 2 retries it) *)
(*   log       reading or parsing the pod log fails                        *)
(*   ttl       a finished Job is deleted (ttl_seconds_after_finished)      *)
(*   service   the DAST target's Service goes away                         *)
(*   teardown  an operator sets a tenant's phase to Teardown               *)
(***************************************************************************)
EXTENDS Naturals, FiniteSets

CONSTANTS
    Scanner,   \* required_scanners, after security_spec_for's retain
    Found,     \* what a scanner can report: [severity, cve] records
    Faults     \* the kinds of fault this instance is exposed to

FaultKind == {"lag", "abort", "attempt", "log", "ttl", "service", "teardown"}

ASSUME PlatformAssumption ==
    /\ IsFiniteSet(Scanner) /\ Scanner # {}
    /\ Faults \subseteq FaultKind
=============================================================================
