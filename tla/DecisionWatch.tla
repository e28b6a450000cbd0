---------------------------- MODULE DecisionWatch ----------------------------
(***************************************************************************)
(* The part of a validation's status that the two watcher loops consume,   *)
(* as it is on the API server, and the watch stream of each loop: the      *)
(* object versions it has yet to handle.                                   *)
(*                                                                         *)
(*   decidedAt  gateDecision.decided_at as a counter, 0 before the gate    *)
(*   plan       gateDecision.action: the steps of its Compose, <<>> if {}  *)
(*   receipt    the decidedAt outcomeReceiptRef was built from, 0 if none  *)
(***************************************************************************)
EXTENDS SecurityGate, Sequences

CONSTANTS
    Plan,          \* the Composes the gate may emit
    MaxDecisions,  \* bound: decisions on one validation
    Faults         \* the kinds of fault this instance is exposed to

FaultKind == {"relist", "outage", "patch"}

\* The steps of all plans.
PlanSteps == UNION {{plan[i] : i \in DOMAIN plan} : plan \in Plan}

ASSUME WatchAssumption ==
    /\ \A plan \in Plan : plan \in Seq(PlanSteps)
    /\ MaxDecisions \in Nat
    /\ Faults \subseteq FaultKind

Consumer == {"dispatcher", "chain"}

VARIABLES object, feed

watch == <<object, feed>>

Version == [decidedAt : 0 .. MaxDecisions, plan : Plan \cup {<<>>},
            receipt : 0 .. MaxDecisions]

WatchInit ==
    /\ object = [decidedAt |-> 0, plan |-> <<>>, receipt |-> 0]
    /\ feed = [c \in Consumer |-> <<object>>]

\* A write to the object; the API server sends it to every watch.
Publish(version) ==
    /\ object' = version
    /\ feed' = [c \in Consumer |-> Append(feed[c], version)]

\* handle_gating's patch.  A merge patch with the action {} leaves the keys of
\* the previous action in place.
GateDecides(plan) ==
    /\ object.decidedAt < MaxDecisions
    /\ Publish([object EXCEPT !.decidedAt = @ + 1,
                              !.plan = IF plan = <<>> THEN @ ELSE plan])

\* Mutant: a loop handles the newest version of its stream first.
NewestFirst(c) == [version |-> feed[c][Len(feed[c])],
                   rest    |-> SubSeq(feed[c], 1, Len(feed[c]) - 1)]

\* stream.next() of consumer c: the version it handles, and what is left.
NextOf(c) == [version |-> Head(feed[c]), rest |-> Tail(feed[c])]

Receive(c) ==
    /\ feed[c] # <<>>
    /\ feed' = [feed EXCEPT ![c] = NextOf(c).rest]

\* A watch that lost its place lists anew: what it had yet to deliver is
\* replaced by the object as it is now.
Relist(c) ==
    /\ "relist" \in Faults
    /\ feed[c] # <<object>>
    /\ feed' = [feed EXCEPT ![c] = <<object>>]
    /\ UNCHANGED object
=============================================================================
