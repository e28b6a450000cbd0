-------------------------- MODULE ActionDispatcher ---------------------------
(***************************************************************************)
(* The action_dispatcher loop.  It handles one object version at a time    *)
(* and awaits every step of a plan, so a crash, an answer that never comes *)
(* or a new decision can fall between any two steps.                       *)
(*                                                                         *)
(*   seen   the DedupeSet: decidedAt of the decisions this process took up *)
(*   run    the handle in progress: pc "idle", "execute" or "persist"      *)
(*   world  the effects in force outside                                   *)
(*   calls  history: every step executed, with the life of the process     *)
(***************************************************************************)
EXTENDS DecisionWatch, ActionExecutor

VARIABLES seen, run, world, calls

dispatcher == <<seen, run, world, calls>>

NotRunning == [pc |-> "idle", at |-> 0, plan |-> <<>>, outcomes |-> <<>>]

DispatcherInit ==
    /\ seen = {} /\ run = NotRunning /\ world = {} /\ calls = <<>>

\* Whether handle takes a version up: there is a decision, not seen before.
\* Mutant: without the dedupe.
EveryDecision(version) == version.decidedAt # 0

TakesUp(version) == version.decidedAt # 0 /\ version.decidedAt \notin seen

\* handle up to the execution.  The key is recorded first; an action that does
\* not deserialize ({}) is skipped after that.
Handle ==
    /\ run.pc = "idle"
    /\ Receive("dispatcher")
    /\ LET version == NextOf("dispatcher").version IN
       IF ~TakesUp(version) THEN UNCHANGED <<seen, run>>
       ELSE /\ seen' = seen \cup {version.decidedAt}
            /\ run' = IF version.plan = <<>> THEN run
                      ELSE [NotRunning EXCEPT !.pc = "execute",
                                              !.at = version.decidedAt,
                                              !.plan = version.plan]
    /\ UNCHANGED <<object, world, calls>>

\* One step of the Compose.
Execute(life) ==
    /\ run.pc = "execute"
    /\ LET i == Len(run.outcomes) + 1 IN
       \E result \in Act(run.plan[i], world, "outage" \in Faults) :
          LET outcomes == Append(run.outcomes, result.outcome) IN
          /\ world' = result.world
          /\ run' = [run EXCEPT !.outcomes = outcomes,
                                !.pc = IF Continues(run.plan, outcomes)
                                       THEN "execute" ELSE "persist"]
          /\ calls' = Append(calls, [life |-> life, at |-> run.at, index |-> i,
                                     step |-> run.plan[i], outcome |-> result.outcome])
    /\ UNCHANGED <<watch, seen>>

\* persist_outcome: the rows of the audit table, which nothing here reads, and
\* whose failure is only logged.  The loop takes no version until it is over.
Persist ==
    /\ run.pc = "persist"
    /\ run' = NotRunning
    /\ UNCHANGED <<watch, seen, world, calls>>

\* What the process keeps in memory is gone.
DispatcherRestarts ==
    /\ seen' = {}
    /\ run' = NotRunning
    /\ UNCHANGED <<world, calls>>

DispatcherNext(life) == Handle \/ Execute(life) \/ Persist
=============================================================================
