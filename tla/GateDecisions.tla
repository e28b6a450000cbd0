---------------------------- MODULE GateDecisions ----------------------------
(***************************************************************************)
(* What the gate promises the loops that act on its decisions: they tell   *)
(* decisions apart by when they were made, so a decision is a step of its  *)
(* own, later than all before it, and no action appears, changes or goes   *)
(* away without one.  A decision that asks for nothing leaves the action   *)
(* of the one before it in place.                                          *)
(***************************************************************************)
EXTENDS Naturals

CONSTANTS
    Action,       \* what a decision can ask for
    NoAction      \* a decision that asks for nothing; no decision yet

VARIABLES
    decidedAt,    \* the decisions made so far
    action        \* the action next to the last of them

decisions == <<decidedAt, action>>

Init == decidedAt = 0 /\ action = NoAction

Decide(asked) ==
    /\ decidedAt' = decidedAt + 1
    /\ action' = IF asked = NoAction THEN action ELSE asked

Next == \E asked \in Action \cup {NoAction} : Decide(asked)

Spec == Init /\ [][Next]_decisions
=============================================================================
