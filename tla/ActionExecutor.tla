--------------------------- MODULE ActionExecutor ----------------------------
(***************************************************************************)
(* ActionExecutor::execute of reconciler-engine: what one step of a plan   *)
(* does to the systems behind the reconcilers, and what it reports.        *)
(*                                                                         *)
(* A spec is the set of its JSON fields ("transition.kind" is the tag of   *)
(* the CartorioTransition).  The world is the set of effects in force.     *)
(***************************************************************************)
EXTENDS SecurityGate, Sequences

CONSTANTS
    SpecFields(_),  \* the fields of the spec a step of a reconciler carries
    FlagEnabled,    \* flag_enabled of a HarborMirror spec
    DryRun          \* FLUX_COMMIT_DRY_RUN

StepOutcome == {"applied", "already-converged", "flag-gated", "failed"}

\* Mutant: a step whose effect was there already stops the Compose.
AppliedOrGated == {"applied", "flag-gated"}

\* is_terminal_success, which lets a Compose go on.
TerminalSuccess == {"applied", "already-converged", "flag-gated"}

\* with_defaults: the reconcilers the engine has a handler for.
Registered == {"CartorioAdmit", "GhcrTagRevoke", "HarborMirror"}

\* The fields serde requires of a reconciler's Spec.
RequiredFields(reconciler) ==
    CASE reconciler = "CartorioAdmit" ->
            {"transition.kind", "transition.artifact_id", "transition.body"}
      [] reconciler = "GhcrTagRevoke" -> {"repository", "reference"}
      [] reconciler = "HarborMirror" ->
            {"source_repo", "source_digest", "target_project", "preserve_digest",
             "flag_enabled"}

\* dispatch finds a handler and act_erased can deserialize the spec.
Accepted(step) ==
    \/ step.reconciler = "FluxCommit"
    \/ /\ step.reconciler \in Registered
       /\ RequiredFields(step.reconciler) \subseteq SpecFields(step.reconciler)

\* What a step does outside: an artifact is revoked and a release tag deleted
\* once per digest, whatever the finding; a mirror and a commit are their own.
Effect(step) ==
    IF step.reconciler \in {"CartorioAdmit", "GhcrTagRevoke"}
    THEN [step EXCEPT !.subject = @[1]] ELSE step

\* Every FluxCommit of the gate patches the same keys of one file.
After(world, step) ==
    {e \in world : ~(step.reconciler = "FluxCommit" /\ e.reconciler = "FluxCommit")}
        \cup {Effect(step)}

Result(outcome, world) == [outcome |-> outcome, world |-> world]

\* A handler that reports an effect that was there as already-converged: 409 of
\* Cartorio, 404 of the registry, an unchanged file.  HarborMirror copies again.
Idempotent == {"CartorioAdmit", "GhcrTagRevoke", "FluxCommit"}

\* act, when its service answers.
Answered(step, world) ==
    IF step.reconciler \in Idempotent /\ Effect(step) \in world
    THEN Result("already-converged", world)
    ELSE IF step.reconciler = "FluxCommit" /\ DryRun
    THEN Result("applied", world)
    ELSE Result("applied", After(world, step))

\* act, when the call times out or is refused: it may have landed.
Unanswered(step, world) ==
    {Result("failed", world), Result("failed", Answered(step, world).world)}

\* Everything execute can make of a step.
Act(step, world, outage) ==
    IF ~Accepted(step) THEN {Result("failed", world)}
    ELSE IF step.reconciler = "HarborMirror" /\ ~FlagEnabled
    THEN {Result("flag-gated", world)}
    ELSE {Answered(step, world)}
            \cup (IF outage THEN Unanswered(step, world) ELSE {})

\* A Compose stops after its last step or its first that is no success.
\* Mutant: it only stops after the last.
ContinuesAnyway(plan, outcomes) == Len(outcomes) < Len(plan)

Continues(plan, outcomes) ==
    /\ Len(outcomes) < Len(plan)
    /\ outcomes[Len(outcomes)] \in TerminalSuccess
=============================================================================
