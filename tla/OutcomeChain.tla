---------------------------- MODULE OutcomeChain -----------------------------
(***************************************************************************)
(* The OutcomeChainAppender loop: a receipt for a terminal validation,     *)
(* built from the object version of the event and patched onto the object  *)
(* as it is by then.                                                       *)
(*                                                                         *)
(*   signing  the receipt about to be patched (the decidedAt it is of), 0  *)
(*            between two events                                           *)
(*   warned   a patch has failed, which is only logged                     *)
(***************************************************************************)
EXTENDS DecisionWatch

VARIABLES signing, warned

chain == <<signing, warned>>

ChainInit == signing = 0 /\ warned = FALSE

\* Terminal (the gate writes phase and decision together) and not yet signed,
\* in the version the event carries.
\* Mutant: already_signed the wrong way round.
SignsAgain(version) == version.decidedAt # 0 /\ version.receipt # 0

Signs(version) == version.decidedAt # 0 /\ version.receipt = 0

ChainHandle ==
    /\ signing = 0
    /\ Receive("chain")
    /\ LET version == NextOf("chain").version IN
       signing' = IF Signs(version) THEN version.decidedAt ELSE 0
    /\ UNCHANGED <<object, warned>>

ChainPatch ==
    /\ signing # 0
    /\ signing' = 0
    /\ \/ Publish([object EXCEPT !.receipt = signing]) /\ UNCHANGED warned
       \/ "patch" \in Faults /\ warned' = TRUE /\ UNCHANGED watch

ChainRestarts == signing' = 0 /\ UNCHANGED warned

ChainNext == ChainHandle \/ ChainPatch
=============================================================================
