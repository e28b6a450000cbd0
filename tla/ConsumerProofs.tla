--------------------------- MODULE ConsumerProofs ---------------------------
(***************************************************************************)
(* What holds of the execution of gate decisions for every set of plans,   *)
(* of faults, and every number of decisions and restarts.                  *)
(*                                                                         *)
(* The order of executions rests on the order of the dispatcher's stream:  *)
(* whatever is redelivered, its versions are of ever later decisions, and  *)
(* none is of a decision before the one executed last.                     *)
(***************************************************************************)
EXTENDS DecisionConsumers, SequenceTheorems, TLAPS

Stream == feed["dispatcher"]

\* The versions of a stream are in the order of their decisions, none after decision m.
Sorted(q, m) ==
    /\ \A i, j \in 1 .. Len(q) : i < j => q[i].decidedAt <= q[j].decidedAt
    /\ \A i \in 1 .. Len(q) : q[i].decidedAt <= m

\* Nothing the dispatcher has yet to see is of a decision before n.
NotBefore(n, q) == \A i \in 1 .. Len(q) : n <= q[i].decidedAt

\* The decision executed, and those executed before it, are behind the stream.
StreamIsAhead ==
    /\ Sorted(Stream, object.decidedAt)
    /\ run.pc # "idle" => NotBefore(run.at, Stream) /\ run.at <= object.decidedAt
    /\ \A n \in 1 .. Len(calls) : /\ NotBefore(calls[n].at, Stream)
                                  /\ calls[n].at <= object.decidedAt
                                  /\ run.pc # "idle" => calls[n].at <= run.at

\* What this process has executed is among what it has seen, and of the decision it executes
\* only the steps that have an outcome.
SeenCovers ==
    \A n \in 1 .. Len(calls) :
        /\ calls[n].life <= life
        /\ calls[n].life = life => calls[n].at \in seen
        /\ calls[n].life = life /\ run.pc # "idle" /\ calls[n].at = run.at =>
              calls[n].index <= Len(run.outcomes)

\* While a plan goes on, the last call is its last step, and that succeeded.
LastStep ==
    run.pc = "execute" /\ Len(run.outcomes) > 0 =>
        /\ Len(calls) > 0
        /\ LET last == calls[Len(calls)]
           IN  /\ last.life = life /\ last.at = run.at
               /\ last.index = Len(run.outcomes) /\ last.outcome \in TerminalSuccess

ConsumersInv ==
    /\ TypeOK
    /\ StreamIsAhead
    /\ SeenCovers
    /\ LastStep
    /\ StepsFollowSuccess
    /\ OncePerProcess
    /\ DecisionsInOrder

-----------------------------------------------------------------------------
(* Sequences of versions *)

LEMMA TailIsSorted ==
    ASSUME NEW q \in Seq(Version), q # <<>>, NEW m \in Nat, Sorted(q, m)
    PROVE  /\ Sorted(Tail(q), m)
           /\ NotBefore(Head(q).decidedAt, Tail(q))
           /\ Head(q) \in Version /\ Head(q).decidedAt <= m
           /\ Tail(q) \in Seq(Version)
           /\ \A n \in Nat : NotBefore(n, q) => NotBefore(n, Tail(q)) /\ n <= Head(q).decidedAt
<1>1. /\ Tail(q) \in Seq(Version) /\ Len(Tail(q)) = Len(q) - 1 /\ Len(q) \in Nat \ {0}
      /\ \A i \in 1 .. Len(Tail(q)) : Tail(q)[i] = q[i + 1]
      /\ Head(q) = q[1] /\ q[1] \in Version
    OBVIOUS
<1> QED
    BY <1>1 DEF Sorted, NotBefore

LEMMA AppendIsSorted ==
    ASSUME NEW q \in Seq(Version), NEW v \in Version, NEW m \in Nat, Sorted(q, m),
           m <= v.decidedAt
    PROVE  /\ Append(q, v) \in Seq(Version)
           /\ Sorted(Append(q, v), v.decidedAt)
           /\ \A n \in Nat : NotBefore(n, q) /\ n <= m => NotBefore(n, Append(q, v))
<1>0. q \in Seq(Version) /\ Version # {} /\ \A w \in Version : w.decidedAt \in Nat
    BY DEF Version
<1>1. /\ Append(q, v) \in Seq(Version) /\ Len(Append(q, v)) = Len(q) + 1 /\ Len(q) \in Nat
      /\ \A i \in 1 .. Len(q) : Append(q, v)[i] = q[i]
      /\ Append(q, v)[Len(q) + 1] = v
      /\ \A i \in 1 .. Len(q) : q[i] \in Version
    OBVIOUS
<1>2. Sorted(Append(q, v), v.decidedAt)
    <2> DEFINE L == Len(q)
               A == Append(q, v)
    <2>1. \A i \in 1 .. L : q[i].decidedAt <= v.decidedAt /\ q[i].decidedAt \in Nat
        BY <1>0, <1>1 DEF Sorted
    <2>2. \A i \in 1 .. L + 1 : A[i].decidedAt <= v.decidedAt
        BY <1>0, <1>1, <2>1
    <2>3. ASSUME NEW i \in 1 .. L + 1, NEW j \in 1 .. L + 1, i < j
          PROVE  A[i].decidedAt <= A[j].decidedAt
        <3>1. CASE j \in 1 .. L
            BY <1>1, <2>3, <3>1 DEF Sorted
        <3>2. CASE j = L + 1
            BY <1>1, <2>2, <3>2
        <3> QED
            BY <1>1, <3>1, <3>2
    <2> QED
        BY <1>1, <2>2, <2>3 DEF Sorted
<1>3. ASSUME NEW n \in Nat, NotBefore(n, q), n <= m PROVE NotBefore(n, Append(q, v))
    BY <1>0, <1>1, <1>3 DEF NotBefore
<1> QED
    BY <1>1, <1>2, <1>3

LEMMA OneIsSorted ==
    ASSUME NEW v \in Version
    PROVE  /\ <<v>> \in Seq(Version)
           /\ Sorted(<<v>>, v.decidedAt)
           /\ \A n \in Nat : n <= v.decidedAt => NotBefore(n, <<v>>)
    BY DEF Sorted, NotBefore, Version

-----------------------------------------------------------------------------
(* Types *)

\* An outcome the executor reports is one of the four, for every step.
LEMMA ActReports ==
    ASSUME NEW step, NEW w, NEW outage, NEW result \in Act(step, w, outage)
    PROVE  result.outcome \in StepOutcome
    BY DEF Act, Answered, Unanswered, Result, StepOutcome

\* Between two versions no plan is executed.
LEMMA NotRunningIsIdle == NotRunning \in Handling /\ NotRunning.pc = "idle"
    BY WatchAssumption DEF NotRunning, Handling

\* What the types say of the numbers.
LEMMA Numbers ==
    ASSUME TypeOK
    PROVE  /\ object \in Version /\ object.decidedAt \in Nat /\ run.at \in Nat /\ life \in Nat
           /\ Len(calls) \in Nat /\ DOMAIN calls = 1 .. Len(calls)
           /\ \A n \in 1 .. Len(calls) : /\ calls[n] \in Calls
                                         /\ calls[n].at \in Nat /\ calls[n].life \in Nat
                                         /\ calls[n].index \in Nat
<1>1. object \in Version /\ object.decidedAt \in Nat
    BY WatchAssumption DEF TypeOK, Version
<1>2. run.at \in Nat /\ life \in Nat
    BY WatchAssumption, RestartAssumption DEF TypeOK, Handling
<1>3. /\ Len(calls) \in Nat /\ DOMAIN calls = 1 .. Len(calls)
      /\ \A n \in 1 .. Len(calls) : calls[n] \in Calls
    BY DEF TypeOK
<1>4. \A c \in Calls : c.at \in Nat /\ c.life \in Nat /\ c.index \in Nat
    BY WatchAssumption DEF Calls
<1> QED
    BY <1>1, <1>2, <1>3, <1>4

LEMMA HandleTypes == ASSUME TypeOK, Handle, UNCHANGED <<chain, life>> PROVE TypeOK'
<1> DEFINE q == feed["dispatcher"]
<1>1. q \in Seq(Version) /\ q # <<>>
    BY DEF TypeOK, Handle, Receive, Consumer
<1>2. Head(q) \in Version /\ Tail(q) \in Seq(Version)
    BY <1>1
<1>3. feed' = [feed EXCEPT !["dispatcher"] = Tail(q)] /\ UNCHANGED <<object, calls>>
    BY DEF Handle, Receive, NextOf
<1>4. feed' \in [Consumer -> Seq(Version)]
    BY <1>2, <1>3 DEF TypeOK
<1>5. CASE UNCHANGED <<seen, run>>
    BY <1>3, <1>4, <1>5 DEF TypeOK, chain
<1>6. CASE TakesUp(Head(q)) /\ seen' = seen \cup {Head(q).decidedAt}
           /\ run' = IF Head(q).plan = <<>> THEN run
                     ELSE [NotRunning EXCEPT !.pc = "execute", !.at = Head(q).decidedAt,
                                             !.plan = Head(q).plan]
    <2>1. seen' \subseteq 1 .. MaxDecisions /\ Head(q).decidedAt \in seen'
          /\ Head(q).plan \in Plan \cup {<<>>} /\ Head(q).decidedAt \in 0 .. MaxDecisions
        BY <1>2, <1>6, WatchAssumption DEF TypeOK, TakesUp, Version
    <2>2. CASE Head(q).plan = <<>>
        <3>1. run' = run /\ run.pc = "idle"
            BY <1>6, <2>2 DEF Handle
        <3> QED
            BY <1>3, <1>4, <2>1, <3>1 DEF TypeOK, chain
    <2>3. CASE Head(q).plan # <<>>
        <3>1. run' = [pc |-> "execute", at |-> Head(q).decidedAt, plan |-> Head(q).plan,
                      outcomes |-> <<>>]
            BY <1>6, <2>3 DEF NotRunning
        <3>2. Len(run'.plan) > 0 /\ run'.plan \in Plan
            BY <2>1, <2>3, <3>1, WatchAssumption
        <3>3. run' \in Handling
            BY <2>1, <3>1 DEF Handling
        <3>4. Len(run'.outcomes) = 0
            BY <3>1
        <3> QED
            BY <1>3, <1>4, <2>1, <3>1, <3>2, <3>3, <3>4 DEF TypeOK, chain
    <2> QED
        BY <2>2, <2>3
<1> QED
    BY <1>5, <1>6 DEF Handle, NextOf

LEMMA ExecuteTypes ==
    ASSUME TypeOK, Execute(life), UNCHANGED <<chain, life>> PROVE TypeOK'
<1> DEFINE i == Len(run.outcomes) + 1
<1>1. PICK result \in Act(run.plan[i], world, "outage" \in Faults) :
          /\ run' = [run EXCEPT !.outcomes = Append(run.outcomes, result.outcome),
                                !.pc = IF Continues(run.plan, Append(run.outcomes, result.outcome))
                                       THEN "execute" ELSE "persist"]
          /\ calls' = Append(calls, [life |-> life, at |-> run.at, index |-> i,
                                     step |-> run.plan[i], outcome |-> result.outcome])
    BY DEF Execute
<1>2. result.outcome \in StepOutcome
    BY <1>1, ActReports
<1>3. /\ run \in Handling /\ run.plan \in Plan /\ run.at \in seen
      /\ Len(run.outcomes) \in Nat /\ Len(run.outcomes) < Len(run.plan)
    BY DEF TypeOK, Execute, Handling
<1>4. run.plan[i] \in PlanSteps
    BY <1>3, WatchAssumption
<1>5. /\ run' \in Handling /\ run'.plan = run.plan /\ run'.at = run.at
      /\ run'.outcomes = Append(run.outcomes, result.outcome)
      /\ run'.pc = "execute" => Continues(run.plan, run'.outcomes)
    <2> DEFINE outcomes == Append(run.outcomes, result.outcome)
               goes == Continues(run.plan, outcomes)
               pc == IF goes THEN "execute" ELSE "persist"
    <2>1. outcomes \in Seq(StepOutcome)
        BY <1>2, <1>3 DEF Handling
    <2>2. pc \in {"execute", "persist"} /\ (pc = "execute" => goes)
        OBVIOUS
    <2>3. run' = [run EXCEPT !.outcomes = outcomes, !.pc = pc]
        BY <1>1
    <2> HIDE DEF outcomes, goes, pc
    <2>4. /\ run' \in Handling /\ run'.plan = run.plan /\ run'.at = run.at
          /\ run'.outcomes = outcomes /\ run'.pc = pc
        BY <1>3, <2>1, <2>2, <2>3 DEF Handling
    <2> QED
        BY <2>2, <2>4 DEF outcomes, goes
<1>6. calls' \in Seq(Calls)
    <2>1. [life |-> life, at |-> run.at, index |-> i, step |-> run.plan[i],
           outcome |-> result.outcome] \in Calls
        BY <1>2, <1>3, <1>4, RestartAssumption DEF Calls, TypeOK, Handling
    <2> QED
        BY <1>1, <2>1 DEF TypeOK
<1>7. run'.pc = "execute" => Len(run'.outcomes) < Len(run'.plan)
    BY <1>5 DEF Continues
<1>8. run'.at \in seen' /\ run'.plan \in Plan
    BY <1>3, <1>5 DEF Execute
<1> QED
    BY <1>5, <1>6, <1>7, <1>8 DEF TypeOK, Execute, watch, chain

LEMMA PublishTypes ==
    ASSUME TypeOK, NEW v \in Version, Publish(v)
    PROVE  object' \in Version /\ feed' \in [Consumer -> Seq(Version)]
<1>1. \A c \in Consumer : Append(feed[c], v) \in Seq(Version)
    <2>1. \A c \in Consumer : feed[c] \in Seq(Version)
        BY DEF TypeOK
    <2> QED
        BY <2>1
<1> QED
    BY <1>1 DEF Publish

LEMMA TypeStep == ASSUME TypeOK, [Next]_consumers PROVE TypeOK'
<1>1. CASE UNCHANGED consumers
    BY <1>1 DEF consumers, watch, dispatcher, chain, TypeOK
<1>2. CASE Dispatcher
    <2>1. CASE Persist
        BY <1>2, <2>1, NotRunningIsIdle DEF Dispatcher, Persist, TypeOK, watch, chain
    <2> QED
        BY <1>2, <2>1, HandleTypes, ExecuteTypes DEF Dispatcher, DispatcherNext, chain
<1>3. CASE Chain
    <2>1. CASE ChainHandle
        <3>1. Head(feed["chain"]) \in Version /\ Tail(feed["chain"]) \in Seq(Version)
            BY <2>1 DEF ChainHandle, Receive, TypeOK, Consumer
        <3>2. feed' = [feed EXCEPT !["chain"] = Tail(feed["chain"])]
              /\ signing' \in 0 .. MaxDecisions
            BY <2>1, <3>1, WatchAssumption DEF ChainHandle, Receive, NextOf, Version
        <3>3. feed' \in [Consumer -> Seq(Version)]
            BY <3>1, <3>2 DEF TypeOK
        <3> QED
            BY <1>3, <2>1, <3>2, <3>3 DEF Chain, ChainHandle, dispatcher, TypeOK
    <2>2. CASE ChainPatch
        <3>1. [object EXCEPT !.receipt = signing] \in Version
            BY DEF TypeOK, Version
        <3>2. object' \in Version /\ feed' \in [Consumer -> Seq(Version)]
            BY <2>2, <3>1, PublishTypes DEF ChainPatch, watch, TypeOK
        <3>3. signing' = 0 /\ warned' \in BOOLEAN
            BY <2>2 DEF ChainPatch, TypeOK
        <3> QED
            BY <1>3, <3>2, <3>3, WatchAssumption DEF Chain, dispatcher, TypeOK
    <2> QED
        BY <1>3, <2>1, <2>2 DEF Chain, ChainNext
<1>4. CASE Gating
    <2>1. PICK plan \in Plan \cup {<<>>} : GateDecides(plan)
        BY <1>4 DEF Gating
    <2>2. [object EXCEPT !.decidedAt = @ + 1, !.plan = IF plan = <<>> THEN @ ELSE plan] \in Version
        <3>1. object.decidedAt + 1 \in 0 .. MaxDecisions
            BY <2>1, WatchAssumption DEF GateDecides, TypeOK, Version
        <3>2. (IF plan = <<>> THEN object.plan ELSE plan) \in Plan \cup {<<>>}
            BY <2>1 DEF TypeOK, Version
        <3> HIDE <2>1
        <3> QED
            BY <3>1, <3>2 DEF TypeOK, Version
    <2>3. object' \in Version /\ feed' \in [Consumer -> Seq(Version)]
        BY <2>1, <2>2, PublishTypes DEF GateDecides
    <2> QED
        BY <1>4, <2>3 DEF Gating, dispatcher, chain, TypeOK
<1>5. CASE WatchBreaks
    BY <1>5 DEF WatchBreaks, Relist, dispatcher, chain, TypeOK, Consumer
<1>6. CASE Restart
    <2>1. run' \in Handling /\ run'.pc = "idle" /\ signing' \in 0 .. MaxDecisions
          /\ life' \in 0 .. MaxRestarts
        BY <1>6, NotRunningIsIdle, WatchAssumption, RestartAssumption
        DEF Restart, DispatcherRestarts, ChainRestarts, TypeOK
    <2> QED
        BY <1>6, <2>1 DEF Restart, DispatcherRestarts, ChainRestarts, TypeOK, Consumer
<1> QED
    BY <1>1, <1>2, <1>3, <1>4, <1>5, <1>6 DEF Next

-----------------------------------------------------------------------------
(* The invariant, action by action *)

\* A stream that only moves on, under a dispatcher that does nothing, disturbs nothing.
LEMMA StreamMovesOn ==
    ASSUME ConsumersInv, TypeOK', UNCHANGED <<run, seen, calls, life>>,
           object.decidedAt <= object'.decidedAt,
           Sorted(Stream', object'.decidedAt),
           \A n \in Nat : n <= object.decidedAt /\ NotBefore(n, Stream) => NotBefore(n, Stream')
    PROVE  ConsumersInv'
<1>1. object.decidedAt \in Nat /\ object'.decidedAt \in Nat /\ run.at \in Nat
      /\ \A n \in 1 .. Len(calls) : calls[n].at \in Nat
    <2>1. object'.decidedAt \in Nat
        BY WatchAssumption DEF TypeOK, Version
    <2> QED
        BY <2>1, Numbers DEF ConsumersInv
<1>2. StreamIsAhead'
    <2>1. run'.pc # "idle" => NotBefore(run'.at, Stream') /\ run'.at <= object'.decidedAt
        BY <1>1 DEF ConsumersInv, StreamIsAhead
    <2>2. ASSUME NEW n \in 1 .. Len(calls)
          PROVE  /\ NotBefore(calls[n].at, Stream') /\ calls[n].at <= object'.decidedAt
                 /\ run.pc # "idle" => calls[n].at <= run.at
        BY <1>1, <2>2 DEF ConsumersInv, StreamIsAhead
    <2> QED
        BY <2>1, <2>2 DEF StreamIsAhead
<1>3. /\ SeenCovers' /\ LastStep' /\ StepsFollowSuccess' /\ OncePerProcess' /\ DecisionsInOrder'
    BY DEF ConsumersInv, SeenCovers, LastStep, StepsFollowSuccess, OncePerProcess, DecisionsInOrder
<1> QED
    BY <1>2, <1>3 DEF ConsumersInv

\* A publication puts a version of the last decision, or of a later one, at the end.
LEMMA PublishKeeps ==
    ASSUME ConsumersInv, TypeOK', Stream' = Append(Stream, object'),
           object.decidedAt <= object'.decidedAt, UNCHANGED <<run, seen, calls, life>>
    PROVE  ConsumersInv'
<1>1. Stream \in Seq(Version) /\ Sorted(Stream, object.decidedAt)
    BY DEF ConsumersInv, TypeOK, Consumer, Stream, StreamIsAhead
<1>2. object.decidedAt \in Nat /\ object' \in Version
    BY Numbers DEF ConsumersInv, TypeOK
<1>3. Sorted(Stream', object'.decidedAt)
    BY <1>1, <1>2, AppendIsSorted
<1>4. \A n \in Nat : n <= object.decidedAt /\ NotBefore(n, Stream) => NotBefore(n, Stream')
    BY <1>1, <1>2, AppendIsSorted
<1> QED
    BY <1>3, <1>4, StreamMovesOn

\* A list replaces the stream by the object as it is.
LEMMA ListKeeps ==
    ASSUME ConsumersInv, TypeOK', Stream' = <<object>>, UNCHANGED <<object, run, seen, calls, life>>
    PROVE  ConsumersInv'
<1>1. object \in Version /\ object.decidedAt \in Nat
    BY WatchAssumption DEF ConsumersInv, TypeOK, Version
<1>2. Sorted(Stream', object'.decidedAt)
    BY <1>1, OneIsSorted
<1>3. \A n \in Nat : n <= object.decidedAt /\ NotBefore(n, Stream) => NotBefore(n, Stream')
    BY <1>1, OneIsSorted
<1> QED
    BY <1>1, <1>2, <1>3, StreamMovesOn

\* The next version is of no decision before the last one executed; if it is taken up, no call
\* of this process is of its decision.
LEMMA HandleKeeps == ASSUME ConsumersInv, TypeOK', Handle, UNCHANGED life PROVE ConsumersInv'
<1> DEFINE v == Head(Stream)
<1>1. /\ Stream \in Seq(Version) /\ Stream # <<>> /\ Stream' = Tail(Stream)
      /\ UNCHANGED <<object, calls, life>> /\ run.pc = "idle"
      /\ object.decidedAt \in Nat /\ Sorted(Stream, object.decidedAt)
    BY WatchAssumption DEF ConsumersInv, TypeOK, Handle, Receive, NextOf, Consumer, Stream, Version, StreamIsAhead
<1>2. /\ Sorted(Stream', object.decidedAt)
      /\ NotBefore(v.decidedAt, Stream') /\ v \in Version /\ v.decidedAt <= object.decidedAt
      /\ \A n \in Nat : NotBefore(n, Stream) => NotBefore(n, Stream') /\ n <= v.decidedAt
    BY <1>1, TailIsSorted
<1>3. CASE UNCHANGED <<seen, run>>
    BY <1>1, <1>2, <1>3, StreamMovesOn
<1>4. CASE /\ v.decidedAt \notin seen /\ seen' = seen \cup {v.decidedAt}
           /\ run' = IF v.plan = <<>> THEN run
                     ELSE [NotRunning EXCEPT !.pc = "execute", !.at = v.decidedAt, !.plan = v.plan]
    <2>1. \A n \in 1 .. Len(calls) : calls[n].at \in Nat /\ calls[n].life \in Nat
        BY Numbers DEF ConsumersInv
    <2>2. run'.pc # "idle" => run'.at = v.decidedAt /\ run'.outcomes = <<>>
        BY <1>1, <1>4 DEF NotRunning
    <2>3. StreamIsAhead'
        <3>1. ASSUME NEW n \in 1 .. Len(calls)
              PROVE  /\ NotBefore(calls[n].at, Stream') /\ calls[n].at <= object.decidedAt
                     /\ calls[n].at <= v.decidedAt
            BY <1>2, <2>1, <3>1 DEF ConsumersInv, StreamIsAhead
        <3> QED
            BY <1>1, <1>2, <2>2, <3>1 DEF StreamIsAhead
    <2>4. SeenCovers'
        <3>1. ASSUME NEW n \in 1 .. Len(calls)
              PROVE  /\ calls[n].life <= life
                     /\ calls[n].life = life => calls[n].at \in seen' /\ calls[n].at # v.decidedAt
            BY <1>4, <3>1 DEF ConsumersInv, SeenCovers
        <3> QED
            BY <1>1, <2>2, <3>1 DEF SeenCovers
    <2>5. LastStep'
        BY <2>2 DEF LastStep
    <2>6. StepsFollowSuccess' /\ OncePerProcess' /\ DecisionsInOrder'
        BY <1>1 DEF ConsumersInv, StepsFollowSuccess, OncePerProcess, DecisionsInOrder
    <2> QED
        BY <2>3, <2>4, <2>5, <2>6 DEF ConsumersInv
<1> QED
    BY <1>3, <1>4 DEF Handle, NextOf, TakesUp, Stream

\* The step executed is the one after the last that has an outcome.
LEMMA ExecuteKeeps ==
    ASSUME ConsumersInv, TypeOK', Execute(life), UNCHANGED life PROVE ConsumersInv'
<1> DEFINE i == Len(run.outcomes) + 1
           N == Len(calls)
<1>1. PICK result \in Act(run.plan[i], world, "outage" \in Faults) :
          /\ run' = [run EXCEPT !.outcomes = Append(run.outcomes, result.outcome),
                                !.pc = IF Continues(run.plan, Append(run.outcomes, result.outcome))
                                       THEN "execute" ELSE "persist"]
          /\ calls' = Append(calls, [life |-> life, at |-> run.at, index |-> i,
                                     step |-> run.plan[i], outcome |-> result.outcome])
    BY DEF Execute
<1>2. result.outcome \in StepOutcome
    BY <1>1, ActReports
<1>3. /\ run \in Handling /\ run.at \in seen /\ run.at \in Nat /\ run.pc = "execute"
      /\ run.outcomes \in Seq(StepOutcome) /\ Len(run.outcomes) \in Nat /\ life \in Nat
      /\ calls \in Seq(Calls) /\ N \in Nat
      /\ UNCHANGED <<object, Stream, seen, life>>
    BY WatchAssumption, RestartAssumption DEF ConsumersInv, TypeOK, Execute, Handling, watch, Stream
<1>4. /\ run'.at = run.at /\ run'.pc # "idle" /\ Len(run'.outcomes) = i
      /\ run'.pc = "execute" => result.outcome \in TerminalSuccess
    <2>1. run'.at = run.at /\ run'.outcomes = Append(run.outcomes, result.outcome)
          /\ run'.pc # "idle" /\ (run'.pc = "execute" => Continues(run.plan, run'.outcomes))
        BY <1>1, <1>3 DEF Handling
    <2>2. Len(run'.outcomes) = i /\ run'.outcomes[i] = result.outcome
        BY <1>2, <1>3, <2>1
    <2> QED
        BY <2>1, <2>2 DEF Continues
<1>5. /\ Len(calls') = N + 1 /\ \A n \in 1 .. N : calls'[n] = calls[n]
      /\ \A n \in 1 .. N : calls[n] \in Calls
      /\ calls'[N + 1] = [life |-> life, at |-> run.at, index |-> i,
                          step |-> run.plan[i], outcome |-> result.outcome]
      /\ DOMAIN calls' = 1 .. N + 1 /\ DOMAIN calls = 1 .. N
    <2>1. [life |-> life, at |-> run.at, index |-> i, step |-> run.plan[i],
           outcome |-> result.outcome] \in Calls
        <3>1. calls' \in Seq(Calls) /\ Len(calls') = N + 1
              /\ calls'[N + 1] = [life |-> life, at |-> run.at, index |-> i,
                                  step |-> run.plan[i], outcome |-> result.outcome]
            BY <1>1, <1>3 DEF TypeOK
        <3> QED
            BY <1>3, <3>1
    <2> QED
        BY <1>1, <1>3, <2>1
<1> HIDE DEF N
<1>6. StreamIsAhead'
    BY <1>3, <1>4, <1>5 DEF ConsumersInv, StreamIsAhead, N
<1>7. SeenCovers'
    <2>1. ASSUME NEW n \in 1 .. N
          PROVE  /\ calls'[n].life <= life
                 /\ calls'[n].life = life => calls'[n].at \in seen'
                 /\ calls'[n].life = life /\ calls'[n].at = run.at => calls'[n].index <= i
        <3>1. calls[n].index \in Nat
            BY <1>5 DEF Calls
        <3> QED
            BY <1>3, <1>5, <2>1, <3>1 DEF ConsumersInv, SeenCovers, N
    <2> QED
        BY <1>3, <1>4, <1>5, <2>1 DEF SeenCovers
<1>8. LastStep'
    BY <1>3, <1>4, <1>5 DEF LastStep
<1>9. StepsFollowSuccess'
    <2> SUFFICES ASSUME NEW n \in 1 .. N + 1, calls'[n].index > 1
                 PROVE  /\ n > 1
                        /\ calls'[n - 1].life = calls'[n].life
                        /\ calls'[n - 1].at = calls'[n].at
                        /\ calls'[n - 1].index = calls'[n].index - 1
                        /\ calls'[n - 1].outcome \in TerminalSuccess
        BY <1>5 DEF StepsFollowSuccess, TerminalSuccess
    <2>1. CASE n \in 1 .. N
        BY <1>3, <1>5, <2>1 DEF ConsumersInv, StepsFollowSuccess, TerminalSuccess
    <2>2. CASE n = N + 1
        <3>1. Len(run.outcomes) > 0
            BY <1>3, <1>5, <2>2
        <3>2. /\ N > 0 /\ calls[N].life = life /\ calls[N].at = run.at
              /\ calls[N].index = Len(run.outcomes) /\ calls[N].outcome \in TerminalSuccess
            BY <1>3, <3>1 DEF ConsumersInv, LastStep, N
        <3> QED
            BY <1>3, <1>5, <2>2, <3>2
    <2> QED
        BY <1>3, <2>1, <2>2
<1>10. OncePerProcess'
    <2> SUFFICES ASSUME NEW m \in 1 .. N + 1, NEW n \in 1 .. N + 1, m < n
                 PROVE  <<calls'[m].life, calls'[m].at, calls'[m].index>>
                           # <<calls'[n].life, calls'[n].at, calls'[n].index>>
        BY <1>5 DEF OncePerProcess
    <2>1. CASE n \in 1 .. N
        <3>1. m \in 1 .. N /\ calls'[m] = calls[m] /\ calls'[n] = calls[n]
            BY <1>3, <1>5, <2>1
        <3>2. <<calls[m].life, calls[m].at, calls[m].index>>
                 # <<calls[n].life, calls[n].at, calls[n].index>>
            BY <1>5, <2>1, <3>1 DEF ConsumersInv, OncePerProcess
        <3> QED
            BY <3>1, <3>2
    <2>2. CASE n = N + 1
        <3>1. m \in 1 .. N /\ calls[m].index \in Nat
            BY <1>3, <1>5, <2>2 DEF Calls
        <3> QED
            BY <1>3, <1>5, <2>2, <3>1 DEF ConsumersInv, SeenCovers, N
    <2> QED
        BY <1>3, <2>1, <2>2
<1>11. DecisionsInOrder'
    <2> SUFFICES ASSUME NEW m \in 1 .. N + 1, NEW n \in 1 .. N + 1, m < n
                 PROVE  calls'[m].at <= calls'[n].at
        BY <1>5 DEF DecisionsInOrder
    <2>1. CASE n \in 1 .. N
        BY <1>3, <1>5, <2>1 DEF ConsumersInv, DecisionsInOrder, N
    <2>2. CASE n = N + 1
        BY <1>3, <1>5, <2>2 DEF ConsumersInv, StreamIsAhead, N
    <2> QED
        BY <1>3, <2>1, <2>2
<1> QED
    BY <1>6, <1>7, <1>8, <1>9, <1>10, <1>11 DEF ConsumersInv

\* A process that rests or starts anew has nothing in progress, and nothing to be behind of.
LEMMA RestKeeps ==
    ASSUME ConsumersInv, TypeOK', run' = NotRunning, UNCHANGED <<object, calls>>,
           \/ Stream' = Stream /\ UNCHANGED <<seen, life>>
           \/ Stream' = <<object>> /\ life' = life + 1
    PROVE  ConsumersInv'
<1>1. /\ object \in Version /\ object.decidedAt \in Nat /\ life \in Nat
      /\ \A n \in 1 .. Len(calls) : calls[n].at \in Nat /\ calls[n].life \in Nat
    BY Numbers DEF ConsumersInv
<1>2. StreamIsAhead'
    <2>1. CASE Stream' = Stream
        BY <2>1, NotRunningIsIdle DEF ConsumersInv, StreamIsAhead
    <2>2. CASE Stream' = <<object>>
        BY <1>1, <2>2, NotRunningIsIdle, OneIsSorted DEF ConsumersInv, StreamIsAhead
    <2> QED
        BY <2>1, <2>2
<1>3. SeenCovers'
    BY <1>1, NotRunningIsIdle DEF ConsumersInv, SeenCovers
<1>4. LastStep' /\ StepsFollowSuccess' /\ OncePerProcess' /\ DecisionsInOrder'
    BY NotRunningIsIdle
    DEF ConsumersInv, LastStep, StepsFollowSuccess, OncePerProcess, DecisionsInOrder
<1> QED
    BY <1>2, <1>3, <1>4 DEF ConsumersInv

LEMMA Start == Init => ConsumersInv
<1> SUFFICES ASSUME Init PROVE ConsumersInv
    OBVIOUS
<1>1. object \in Version /\ object.decidedAt = 0
    BY WatchAssumption DEF Init, WatchInit, Version
<1>2. feed = [c \in Consumer |-> <<object>>] /\ Stream = <<object>>
    BY DEF Init, WatchInit, Stream, Consumer
<1>3. calls = <<>> /\ run = NotRunning
    BY DEF Init, DispatcherInit
<1>4. TypeOK
    <2>1. feed \in [Consumer -> Seq(Version)]
        BY <1>1, <1>2, OneIsSorted
    <2>2. calls \in Seq(Calls) /\ run \in Handling /\ run.pc = "idle"
        BY <1>3, NotRunningIsIdle
    <2>3. seen \subseteq 1 .. MaxDecisions /\ signing \in 0 .. MaxDecisions /\ life \in 0 .. MaxRestarts
        BY WatchAssumption, RestartAssumption DEF Init, DispatcherInit, ChainInit
    <2>4. warned \in BOOLEAN
        BY Zenon DEF Init, ChainInit
    <2> QED
        BY <1>1, <2>1, <2>2, <2>3, <2>4 DEF TypeOK
<1>5. Sorted(Stream, object.decidedAt)
    BY <1>1, <1>2, OneIsSorted
<1>6. Len(calls) = 0 /\ DOMAIN calls = {} /\ run.pc = "idle"
    BY <1>3, NotRunningIsIdle
<1> QED
    BY <1>4, <1>5, <1>6
    DEF ConsumersInv, StreamIsAhead, SeenCovers, LastStep, StepsFollowSuccess, OncePerProcess,
        DecisionsInOrder

LEMMA ConsumersStep == ASSUME ConsumersInv, [Next]_consumers PROVE ConsumersInv'
<1>0. TypeOK'
    BY TypeStep DEF ConsumersInv
<1>1. CASE UNCHANGED consumers
    BY <1>1
    DEF consumers, watch, dispatcher, ConsumersInv, TypeOK, chain, StreamIsAhead, Sorted, NotBefore,
        Stream, SeenCovers, LastStep, StepsFollowSuccess, OncePerProcess, DecisionsInOrder
<1>2. CASE Dispatcher
    <2>1. CASE Persist
        BY <1>0, <1>2, <2>1, RestKeeps DEF Dispatcher, Persist, watch, Stream
    <2> QED
        BY <1>0, <1>2, <2>1, HandleKeeps, ExecuteKeeps DEF Dispatcher, DispatcherNext
<1>3. CASE Chain
    <2>1. CASE ChainPatch /\ Publish([object EXCEPT !.receipt = signing])
        <3>1. object'.decidedAt = object.decidedAt /\ object.decidedAt \in Nat
            BY <2>1, Numbers DEF Publish, ConsumersInv, TypeOK, Version
        <3>2. Stream' = Append(Stream, object')
            BY <2>1 DEF Publish, Stream, Consumer
        <3> QED
            BY <1>0, <1>3, <3>1, <3>2, PublishKeeps DEF Chain, dispatcher
    <2>2. CASE UNCHANGED <<object, Stream>>
        <3>1. object.decidedAt \in Nat
            BY WatchAssumption DEF ConsumersInv, TypeOK, Version
        <3> QED
            BY <1>0, <1>3, <2>2, <3>1, StreamMovesOn DEF Chain, dispatcher, ConsumersInv, StreamIsAhead
    <2> QED
        BY <1>3, <2>1, <2>2
        DEF Chain, ChainNext, ChainHandle, Receive, ChainPatch, watch, Stream, ConsumersInv, TypeOK,
            Consumer
<1>4. CASE Gating
    <2>1. PICK plan \in Plan \cup {<<>>} : GateDecides(plan)
        BY <1>4 DEF Gating
    <2>2. object'.decidedAt = object.decidedAt + 1 /\ object.decidedAt \in Nat
        BY <2>1, Numbers DEF GateDecides, Publish, ConsumersInv, TypeOK, Version
    <2>3. Stream' = Append(Stream, object')
        BY <2>1 DEF GateDecides, Publish, Stream, Consumer
    <2>4. object.decidedAt <= object'.decidedAt
        BY <2>2
    <2> QED
        BY <1>0, <1>4, <2>3, <2>4, PublishKeeps DEF Gating, dispatcher
<1>5. CASE WatchBreaks
    <2>1. Stream' = Stream \/ Stream' = <<object>>
        BY <1>5 DEF WatchBreaks, Relist, Stream, ConsumersInv, TypeOK, Consumer
    <2>2. UNCHANGED <<object, run, seen, calls, life>>
        BY <1>5 DEF WatchBreaks, Relist, dispatcher
    <2>3. object.decidedAt \in Nat
        BY WatchAssumption DEF ConsumersInv, TypeOK, Version
    <2>4. CASE Stream' = Stream
        BY <1>0, <2>2, <2>3, <2>4, StreamMovesOn DEF ConsumersInv, StreamIsAhead
    <2> QED
        BY <1>0, <2>1, <2>2, <2>4, ListKeeps
<1>6. CASE Restart
    BY <1>0, <1>6, RestKeeps DEF Restart, DispatcherRestarts, Stream, Consumer
<1> QED
    BY <1>1, <1>2, <1>3, <1>4, <1>5, <1>6 DEF Next

-----------------------------------------------------------------------------
(* The receipts *)

Unsigned == feed["chain"]

\* Of what the chain has yet to see, no version that wants a receipt is of a decision before the
\* one the object has a receipt of, nor is any of a decision before the one being signed.
ReceiptsAhead ==
    /\ Sorted(Unsigned, object.decidedAt)
    /\ \A i \in 1 .. Len(Unsigned) : Signs(Unsigned[i]) => object.receipt <= Unsigned[i].decidedAt
    /\ signing # 0 => /\ object.receipt <= signing /\ signing <= object.decidedAt
                      /\ NotBefore(signing, Unsigned)

\* What the types say of the chain's stream.
LEMMA UnsignedTypes ==
    ASSUME TypeOK
    PROVE  /\ Unsigned \in Seq(Version) /\ Len(Unsigned) \in Nat
           /\ \A i \in 1 .. Len(Unsigned) : Unsigned[i] \in Version
           /\ object \in Version /\ signing \in Nat
           /\ \A v \in Version : v.decidedAt \in Nat /\ v.receipt \in Nat
<1>1. Unsigned \in Seq(Version)
    BY DEF TypeOK, Unsigned, Consumer
<1>2. \A v \in Version : v.decidedAt \in Nat /\ v.receipt \in Nat
    BY WatchAssumption DEF Version
<1>3. object \in Version /\ signing \in Nat
    BY WatchAssumption DEF TypeOK
<1> QED
    BY <1>1, <1>2, <1>3

\* The version received is signed with the decision it carries.
LEMMA ReceivingKeepsReceipts ==
    ASSUME TypeOK, ReceiptsAhead, ChainHandle
    PROVE  ReceiptsAhead' /\ UNCHANGED object
<1>1. Unsigned # <<>> /\ Unsigned' = Tail(Unsigned) /\ UNCHANGED object
    BY DEF ChainHandle, Receive, NextOf, Unsigned, TypeOK, Consumer
<1>2. PICK v \in Version : v = Head(Unsigned) /\ v = Unsigned[1]
    BY <1>1, UnsignedTypes
<1>3. signing' = IF Signs(v) THEN v.decidedAt ELSE 0
    BY <1>2 DEF ChainHandle, NextOf, Unsigned
<1>4. /\ Sorted(Tail(Unsigned), object.decidedAt) /\ NotBefore(v.decidedAt, Tail(Unsigned))
      /\ v.decidedAt <= object.decidedAt
    BY <1>1, <1>2, UnsignedTypes, TailIsSorted DEF ReceiptsAhead
<1>5. \A i \in 1 .. Len(Tail(Unsigned)) :
          Tail(Unsigned)[i] = Unsigned[i + 1] /\ i + 1 \in 1 .. Len(Unsigned)
    BY <1>1, UnsignedTypes
<1>6. Signs(v) => object.receipt <= v.decidedAt
    BY <1>1, <1>2, UnsignedTypes DEF ReceiptsAhead
<1>7. ASSUME NEW i \in 1 .. Len(Unsigned'), Signs(Unsigned'[i])
      PROVE  object.receipt <= Unsigned'[i].decidedAt
    BY <1>1, <1>5, <1>7 DEF ReceiptsAhead
<1>8. Sorted(Unsigned', object'.decidedAt)
    BY <1>1, <1>4
<1>9. signing' # 0 => /\ object.receipt <= signing' /\ signing' <= object.decidedAt
                     /\ NotBefore(signing', Unsigned')
    BY <1>1, <1>3, <1>4, <1>6
<1> QED
    BY <1>1, <1>7, <1>8, <1>9 DEF ReceiptsAhead

\* A write of a later decision, or of a receipt of no earlier one, is seen after all the others.
LEMMA PublishingKeepsReceipts ==
    ASSUME TypeOK, ReceiptsAhead, NEW v \in Version, Publish(v), signing' \in {0, signing},
           object.decidedAt <= v.decidedAt,
           \/ v.receipt = object.receipt
           \/ v.receipt = signing /\ signing # 0 /\ signing' = 0
    PROVE  ReceiptsAhead' /\ object'.receipt >= object.receipt
<1>1. /\ object' = v /\ Unsigned' = Append(Unsigned, v)
      /\ Unsigned \in Seq(Version) /\ Len(Unsigned) \in Nat
      /\ object.decidedAt \in Nat /\ object.receipt \in Nat /\ signing \in Nat
      /\ v.decidedAt \in Nat /\ v.receipt \in Nat
    BY UnsignedTypes DEF Publish, Unsigned, Consumer
<1>2. /\ Sorted(Append(Unsigned, v), v.decidedAt)
      /\ \A n \in Nat : NotBefore(n, Unsigned) /\ n <= object.decidedAt
                            => NotBefore(n, Append(Unsigned, v))
    BY <1>1, AppendIsSorted DEF ReceiptsAhead
<1>3. signing' # 0 => signing' = signing /\ v.receipt = object.receipt
    OBVIOUS
<1>4. object.receipt <= v.receipt
    BY <1>1 DEF ReceiptsAhead
<1>5. ASSUME NEW i \in 1 .. Len(Unsigned'), Signs(Unsigned'[i])
      PROVE  v.receipt <= Unsigned'[i].decidedAt
    <2>1. CASE i = Len(Unsigned) + 1
        <3>1. Unsigned'[i] = v
            BY <1>1, <2>1
        <3> QED
            BY <1>1, <1>5, <3>1 DEF Signs
    <2>2. CASE i \in 1 .. Len(Unsigned)
        <3>1. Unsigned'[i] = Unsigned[i]
            BY <1>1, <2>2
        <3>2. CASE v.receipt = object.receipt
            BY <1>5, <2>2, <3>1, <3>2 DEF ReceiptsAhead
        <3>3. CASE v.receipt = signing /\ signing # 0
            BY <2>2, <3>1, <3>3 DEF ReceiptsAhead, NotBefore
        <3> QED
            BY <3>2, <3>3
    <2> QED
        BY <1>1, <1>5, <2>1, <2>2
<1>6. signing' # 0 => /\ v.receipt <= signing' /\ signing' <= v.decidedAt
                     /\ NotBefore(signing', Unsigned')
    BY <1>1, <1>2, <1>3 DEF ReceiptsAhead
<1> QED
    BY <1>1, <1>2, <1>4, <1>5, <1>6 DEF ReceiptsAhead

\* A fresh list has the object as it is, and it wants a receipt only if it has none.
LEMMA ListingKeepsReceipts ==
    ASSUME TypeOK, ReceiptsAhead, UNCHANGED object, Unsigned' = <<object>>,
           signing' \in {0, signing}
    PROVE  ReceiptsAhead'
<1>1. /\ object \in Version /\ object.decidedAt \in Nat /\ object.receipt \in Nat
      /\ signing \in Nat
    BY UnsignedTypes
<1>2. /\ Sorted(<<object>>, object.decidedAt)
      /\ \A n \in Nat : n <= object.decidedAt => NotBefore(n, <<object>>)
    BY <1>1, OneIsSorted
<1>3. ASSUME NEW i \in 1 .. Len(Unsigned'), Signs(Unsigned'[i])
      PROVE  object.receipt <= Unsigned'[i].decidedAt
    <2>1. Unsigned'[i] = object
        BY <1>3
    <2> QED
        BY <1>1, <1>3, <2>1 DEF Signs
<1>4. signing' # 0 => /\ object.receipt <= signing' /\ signing' <= object.decidedAt
                     /\ NotBefore(signing', Unsigned')
    BY <1>1, <1>2 DEF ReceiptsAhead
<1> QED
    BY <1>2, <1>3, <1>4 DEF ReceiptsAhead

LEMMA ReceiptsStep ==
    ASSUME TypeOK, ReceiptsAhead, [Next]_consumers
    PROVE  ReceiptsAhead' /\ object'.receipt >= object.receipt
<1>0. object \in Version /\ object.receipt \in Nat /\ object.decidedAt \in Nat
    BY UnsignedTypes
<1>1. CASE UNCHANGED <<object, Unsigned, signing>>
    BY <1>0, <1>1 DEF ReceiptsAhead, Sorted, NotBefore, Signs
<1>2. CASE Dispatcher
    <2>1. UNCHANGED <<object, signing>>
        BY <1>2 DEF Dispatcher, DispatcherNext, Handle, Execute, Persist, watch, chain
    <2>2. Unsigned' = Unsigned
        BY <1>2
        DEF Dispatcher, DispatcherNext, Handle, Receive, Execute, Persist, watch, Unsigned, TypeOK,
            Consumer
    <2> QED
        BY <1>1, <2>1, <2>2
<1>3. CASE ChainHandle
    BY <1>0, <1>3, ReceivingKeepsReceipts
<1>4. CASE ChainPatch
    <2>1. CASE Publish([object EXCEPT !.receipt = signing])
        <3> DEFINE v == [object EXCEPT !.receipt = signing]
        <3>1. v \in Version /\ v.decidedAt = object.decidedAt /\ v.receipt = signing
            BY DEF TypeOK, Version
        <3>2. signing # 0 /\ signing' = 0
            BY <1>4 DEF ChainPatch
        <3>3. Publish(v)
            BY <2>1
        <3> HIDE DEF v
        <3> QED
            BY <1>0, <3>1, <3>2, <3>3, PublishingKeepsReceipts
    <2>2. CASE UNCHANGED watch
        <3>1. object' = object /\ Unsigned' = Unsigned /\ signing' = 0
            BY <1>4, <2>2 DEF ChainPatch, watch, Unsigned
        <3>2. Sorted(Unsigned', object'.decidedAt)
            BY <3>1 DEF ReceiptsAhead
        <3> QED
            BY <1>0, <3>1, <3>2 DEF ReceiptsAhead
    <2> QED
        BY <1>4, <2>1, <2>2 DEF ChainPatch
<1>5. CASE Gating
    <2>1. PICK plan \in Plan \cup {<<>>} : GateDecides(plan)
        BY <1>5 DEF Gating
    <2> DEFINE v == [object EXCEPT !.decidedAt = @ + 1,
                                   !.plan = IF plan = <<>> THEN @ ELSE plan]
    <2>2. Publish(v) /\ signing' = signing
        BY <1>5, <2>1 DEF GateDecides, Gating, chain
    <2>3. v.decidedAt = object.decidedAt + 1 /\ v.receipt = object.receipt
        BY <1>0 DEF Version
    <2>4. v \in Version
        <3>1. TypeOK'
            BY TypeStep
        <3>2. object' = v
            BY <2>2 DEF Publish
        <3> QED
            BY <3>1, <3>2 DEF TypeOK
    <2> HIDE DEF v
    <2> QED
        BY <1>0, <2>2, <2>3, <2>4, PublishingKeepsReceipts
<1>6. CASE WatchBreaks
    <2>1. UNCHANGED <<object, signing>> /\ Unsigned' \in {Unsigned, <<object>>}
        BY <1>6 DEF WatchBreaks, Relist, chain, Unsigned, TypeOK, Consumer
    <2>2. CASE Unsigned' = Unsigned
        BY <1>1, <2>1, <2>2
    <2>3. CASE Unsigned' = <<object>>
        BY <1>0, <2>1, <2>3, ListingKeepsReceipts
    <2> QED
        BY <2>1, <2>2, <2>3
<1>7. CASE Restart
    <2>1. UNCHANGED object /\ Unsigned' = <<object>> /\ signing' = 0
        BY <1>7 DEF Restart, ChainRestarts, Unsigned, Consumer
    <2> QED
        BY <1>0, <2>1, ListingKeepsReceipts
<1>8. CASE UNCHANGED consumers
    BY <1>1, <1>8 DEF consumers, watch, chain, Unsigned
<1> QED
    BY <1>2, <1>3, <1>4, <1>5, <1>6, <1>7, <1>8 DEF Next, Chain, ChainNext

-----------------------------------------------------------------------------
(* The theorems *)

\* Streams stay ordered and ahead of what was executed, and what a process has executed stays
\* among what it has seen, whatever is redelivered and however often it starts anew.
THEOREM ConsumersInvariance == Spec => []ConsumersInv
<1>1. Init => ConsumersInv
    BY Start
<1>2. ConsumersInv /\ [Next]_consumers => ConsumersInv'
    BY ConsumersStep
<1> QED
    BY <1>1, <1>2, PTL DEF Spec

\* act_atomic: within a plan each step follows the success of the one before it.
THEOREM PlansRunInOrder == Spec => []StepsFollowSuccess
<1>1. ConsumersInv => StepsFollowSuccess
    BY DEF ConsumersInv
<1> QED
    BY <1>1, ConsumersInvariance, PTL

\* DedupeSet: no process executes a step of a decision twice.
THEOREM NoProcessRepeats == Spec => []OncePerProcess
<1>1. ConsumersInv => OncePerProcess
    BY DEF ConsumersInv
<1> QED
    BY <1>1, ConsumersInvariance, PTL

\* No redelivery, relist or restart brings back a decision after a later one was executed.
THEOREM NoDecisionComesBack == Spec => []DecisionsInOrder
<1>1. ConsumersInv => DecisionsInOrder
    BY DEF ConsumersInv
<1> QED
    BY <1>1, ConsumersInvariance, PTL

\* The receipt is patched onto an object that later decisions have changed meanwhile, from a
\* version that relists and restarts redeliver, and never replaces a receipt of a later decision.
THEOREM ReceiptsNeverGoBack == Spec => ReceiptsMoveForward
<1>1. Init => ReceiptsAhead
    <2> SUFFICES ASSUME Init PROVE ReceiptsAhead
        OBVIOUS
    <2>1. Unsigned = <<object>> /\ signing = 0
        BY DEF Init, WatchInit, ChainInit, Unsigned, Consumer
    <2>2. object \in Version /\ object.decidedAt = 0 /\ ~Signs(object)
        BY WatchAssumption DEF Init, WatchInit, Version, Signs
    <2>3. Sorted(Unsigned, object.decidedAt) /\ \A i \in 1 .. Len(Unsigned) : ~Signs(Unsigned[i])
        BY <2>1, <2>2, OneIsSorted
    <2> QED
        BY <2>1, <2>3 DEF ReceiptsAhead
<1>2. ConsumersInv /\ ReceiptsAhead /\ [Next]_consumers
          => ReceiptsAhead' /\ object'.receipt >= object.receipt
    BY ReceiptsStep DEF ConsumersInv
<1> QED
    BY <1>1, <1>2, ConsumersInvariance, PTL DEF Spec, ReceiptsMoveForward
-----------------------------------------------------------------------------
(***************************************************************************)
(* Where the loops meet the gate: DecisionProofs shows that the decision   *)
(* on a validation takes no step but those of GateDecisions, and every     *)
(* such step is a Gating step here.                                        *)
(***************************************************************************)

Announced == INSTANCE GateDecisions
            WITH Action <- Plan, NoAction <- <<>>,
                 decidedAt <- object.decidedAt, action <- object.plan

\* A decision on the object that leaves its receipt alone and is sent to every watch is one
\* the loops are checked with, up to the bound on decisions.
LEMMA EveryDecisionIsTaken ==
    ASSUME object \in Version, object' \in Version, object.decidedAt < MaxDecisions,
           Announced!Next, object'.receipt = object.receipt, Publish(object'),
           UNCHANGED <<dispatcher, chain, life>>
    PROVE  Gating
<1>1. PICK plan \in Plan \cup {<<>>} : Announced!Decide(plan)
    BY DEF Announced!Next
<1> DEFINE next == [object EXCEPT !.decidedAt = @ + 1, !.plan = IF plan = <<>> THEN @ ELSE plan]
<1>2. object' = next
    BY <1>1 DEF Announced!Decide, Version
<1>3. GateDecides(plan)
    BY <1>2 DEF GateDecides, Publish
<1> QED
    BY <1>3 DEF Gating

=============================================================================
