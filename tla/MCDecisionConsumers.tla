------------------------- MODULE MCDecisionConsumers -------------------------
(* Values for the constants of DecisionConsumers that a cfg cannot write: the *)
(* plans of the gate for one image, and the specs their steps carry, as the    *)
(* gate emits them and as the reconcilers require them.                        *)
EXTENDS DecisionConsumers

CONSTANTS image, cve

\* decide's order for one critical CVE.
RevokeFor(c) ==
    << Step("CartorioAdmit", <<image, c>>), Step("GhcrTagRevoke", <<image, c>>),
       Step("FluxCommit", <<image, c>>) >>

\* The forwarding of the promessa's clean digest.
Mirror == << Step("HarborMirror", image) >>

Revoke         == {RevokeFor(cve)}
RevokeOrMirror == {RevokeFor(cve), Mirror}

\* The reconciler specs' own fields.
WellFormed(reconciler) == RequiredFields(reconciler)

\* The fields decide writes.
AsEmitted(reconciler) ==
    CASE reconciler = "CartorioAdmit" -> {"digest", "transition", "reason"}
      [] reconciler = "GhcrTagRevoke" -> {"repo", "tag", "reason"}
      [] reconciler = "HarborMirror" ->
            {"source_repo", "source_digest", "target_registry", "target_project",
             "preserve_digest"}
=============================================================================
