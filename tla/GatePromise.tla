----------------------------- MODULE GatePromise -----------------------------
(***************************************************************************)
(* What a validation promises whoever reads its status: it first fixes the *)
(* evidence, once; it then decides, once; and the verdict is a function of *)
(* the evidence it fixed.  Nothing about reconciles, caches or children.   *)
(***************************************************************************)
CONSTANTS
    Finding,      \* whatever evidence is made of
    Blocking(_)   \* does a finding, on its own, fail a validation?

VARIABLES
    stage,        \* "collecting", "fixed" or "decided"
    evidence,     \* the findings the evidence hash covers
    verdict

promise == <<stage, evidence, verdict>>

Init ==
    /\ stage = "collecting"
    /\ evidence = {}
    /\ verdict = "none"

Fix ==
    /\ stage = "collecting"
    /\ stage' = "fixed"
    /\ evidence' \in SUBSET Finding
    /\ UNCHANGED verdict

DecideOnce ==
    /\ stage = "fixed"
    /\ stage' = "decided"
    /\ verdict' = IF \E f \in evidence : Blocking(f) THEN "Failed" ELSE "Passed"
    /\ UNCHANGED evidence

Next == Fix \/ DecideOnce

Spec == Init /\ [][Next]_promise
=============================================================================
