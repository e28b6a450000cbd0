-------------------------- MODULE DecisionConsumers --------------------------
(***************************************************************************)
(* What happens to a gate decision: the action_dispatcher and the          *)
(* outcome_chain loop over their own watches of one validation, in one     *)
(* process that may die and start again.                                   *)
(***************************************************************************)
EXTENDS ActionDispatcher, OutcomeChain

CONSTANT MaxRestarts  \* bound: restarts of the process

ASSUME RestartAssumption == MaxRestarts \in Nat

VARIABLE life  \* restarts so far

consumers == <<watch, dispatcher, chain, life>>

Handling == [pc : {"idle", "execute", "persist"}, at : 0 .. MaxDecisions,
             plan : Plan \cup {<<>>}, outcomes : Seq(StepOutcome)]

Calls == [life : Nat, at : 0 .. MaxDecisions, index : Nat \ {0}, step : PlanSteps,
          outcome : StepOutcome]

TypeOK ==
    /\ object \in Version
    /\ feed \in [Consumer -> Seq(Version)]
    /\ seen \subseteq 1 .. MaxDecisions
    /\ run \in Handling
    /\ run.pc # "idle" => run.at \in seen /\ run.plan \in Plan
    /\ run.pc = "execute" => Len(run.outcomes) < Len(run.plan)
    /\ calls \in Seq(Calls)
    /\ signing \in 0 .. MaxDecisions
    /\ warned \in BOOLEAN /\ life \in 0 .. MaxRestarts

Init == WatchInit /\ DispatcherInit /\ ChainInit /\ life = 0

Dispatcher == DispatcherNext(life) /\ UNCHANGED <<chain, life>>

Chain == ChainNext /\ UNCHANGED <<dispatcher, life>>

Gating ==
    /\ \E plan \in Plan \cup {<<>>} : GateDecides(plan)
    /\ UNCHANGED <<dispatcher, chain, life>>

WatchBreaks ==
    /\ \E c \in Consumer : Relist(c)
    /\ UNCHANGED <<dispatcher, chain, life>>

\* The process dies and starts again, with a fresh list of every watch.
Restart ==
    /\ life < MaxRestarts
    /\ life' = life + 1
    /\ feed' = [c \in Consumer |-> <<object>>]
    /\ UNCHANGED object
    /\ DispatcherRestarts /\ ChainRestarts

Next == Dispatcher \/ Chain \/ Gating \/ WatchBreaks \/ Restart

Spec == Init /\ [][Next]_consumers

\* Both loops go on: their streams deliver what is there, and every call they
\* await ends (the HTTP clients have timeouts).
FairSpec == Spec /\ WF_consumers(Dispatcher) /\ WF_consumers(Chain)

-----------------------------------------------------------------------------
(* Properties *)

\* Within one life of the process a plan is executed from its first step on,
\* in order, each step only after the one before it succeeded, and no step of
\* another decision in between (act_atomic, and handle being awaited inline).
StepsFollowSuccess ==
    \A n \in DOMAIN calls :
        calls[n].index > 1 =>
            /\ n > 1
            /\ calls[n - 1].life = calls[n].life
            /\ calls[n - 1].at = calls[n].at
            /\ calls[n - 1].index = calls[n].index - 1
            /\ calls[n - 1].outcome \in {"applied", "already-converged", "flag-gated"}

\* A process executes no step of a decision twice, although the receipt's
\* patch, a relist and a later decision all redeliver the object.
OncePerProcess ==
    \A m, n \in DOMAIN calls :
        m < n => <<calls[m].life, calls[m].at, calls[m].index>>
                    # <<calls[n].life, calls[n].at, calls[n].index>>

\* Decisions are executed in the order they were made, across restarts too: no
\* redelivery brings a superseded decision back after a later one.
DecisionsInOrder ==
    \A m, n \in DOMAIN calls : m < n => calls[m].at <= calls[n].at

\* The receipt on the object never goes back to an earlier decision.
ReceiptsMoveForward == [][object'.receipt >= object.receipt]_consumers

\* Every effect a plan asks for is in force; of its commits, which overwrite
\* one another, the last.
InForce(plan) ==
    \A i \in DOMAIN plan :
        \/ Effect(plan[i]) \in world
        \/ /\ plan[i].reconciler = "FluxCommit"
           /\ \E j \in DOMAIN plan : j > i /\ plan[j].reconciler = "FluxCommit"

\* If no call fails, whatever crashes, relists and later decisions come in
\* between, the plan on the object ends up in force: a plan that is executed
\* again finds its first steps converged and goes on to the rest.
CorrectionLands ==
    \/ <>[](object.decidedAt > 0 => InForce(object.plan))
    \/ <>(\E n \in DOMAIN calls : calls[n].outcome = "failed")

\* A decided validation gets a receipt, unless the patch fails: one, of whichever
\* decision, for a validation decided again keeps the receipt it has.
ReceiptLands == object.decidedAt > 0 ~> object.receipt > 0 \/ warned

-----------------------------------------------------------------------------
(* What a doc of the repository says, and the code does not do. *)

\* flux_commit.rs: the loop closes, SecurityController.decide -> FluxCommit ->
\* file patched -> commit pushed -> cluster converges.
LoopCloses ==
    (\E i \in DOMAIN object.plan : object.plan[i].reconciler = "FluxCommit")
        ~> \E e \in world : e.reconciler = "FluxCommit"
=============================================================================
