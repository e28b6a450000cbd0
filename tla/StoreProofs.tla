----------------------------- MODULE StoreProofs -----------------------------
(***************************************************************************)
(* What the audit database keeps, for every number of callers, runs and    *)
(* observations, although every write follows a read without a transaction.*)
(***************************************************************************)
EXTENDS ValidationStore, FiniteSetTheorems, TLAPS

\* A call that has not returned yet.
InCall(w) == call[w] # Idle

CallRecords == [pc : {"find", "write"}, row : Tables, what : Phases \cup Commits \cup {None},
                now : Time, found : RunRow \cup ProvRow \cup {None}]

\* What a call holds is of the table it writes.
CallTypes(w) ==
    /\ call[w] \in CallRecords
    /\ call[w].row = "provenance" => /\ call[w].what \in Commits \cup {None}
                                     /\ call[w].found \in ProvRow \cup {None}
    /\ call[w].row # "provenance" => /\ call[w].what \in Phases
                                     /\ call[w].found \in RunRow \cup {None}

\* A row that was found is still there, and is as it was found unless calls overlapped on it.
FoundHolds(w) ==
    call[w].pc = "write" =>
        /\ call[w].found # None => Row(call[w].row) # None
        /\ call[w].row \notin lapped => call[w].found = Row(call[w].row)

\* A run that is terminal says since when.
Stamped == \A u \in Uids : run[u] # None /\ IsTerminalPhase(run[u].phase) => run[u].terminal # None

StoreInv ==
    /\ TypeOK
    /\ Stamped
    /\ DOMAIN call = Callers
    /\ \A w \in Callers : InCall(w) => CallTypes(w) /\ FoundHolds(w)
    /\ \A v, w \in Callers : v # w /\ InCall(v) /\ InCall(w) /\ call[v].row = call[w].row
                                => call[v].row \in lapped

\* No call record is the idle one.
LEMMA RecordsAreCalls == ASSUME NEW r \in CallRecords PROVE r # Idle
BY DEF CallRecords, Idle

\* The database starts empty.
LEMMA Start == Init => StoreInv
<1> SUFFICES ASSUME Init PROVE StoreInv
    OBVIOUS
<1>1. TypeOK
    BY StoreAssumption DEF Init, TypeOK, Time
<1> QED
    BY <1>1 DEF Init, StoreInv, Stamped, InCall

\* A call begins; if it meets another on its row, the row counts as lapped.
LEMMA Begins ==
    ASSUME StoreInv, NEW w \in Callers, UpsertValidationRun(w) \/ ObserveDigestProvenance(w)
    PROVE  StoreInv'
<1>1. PICK t \in Tables, what \in Phases \cup Commits \cup {None} :
          /\ Called(w, t, what)
          /\ t = "provenance" => what \in Commits \cup {None}
          /\ t # "provenance" => what \in Phases
    BY StoreAssumption DEF UpsertValidationRun, ObserveDigestProvenance, Tables
<1> DEFINE record == [pc |-> "find", row |-> t, what |-> what, now |-> clock + 1, found |-> None]
<1>2. /\ call' = [call EXCEPT ![w] = record]
      /\ UNCHANGED <<run, provenance, findings>>
      /\ lapped' = IF \E v \in Callers : call[v] # Idle /\ call[v].row = t
                   THEN lapped \cup {t} ELSE lapped
    BY <1>1 DEF Called, tables
<1>3. clock' \in Time /\ clock + 1 \in Time
    BY <1>1, StoreAssumption DEF Called, Tick, StoreInv, TypeOK, Time
<1>4. TypeOK'
    BY <1>2, <1>3 DEF StoreInv, TypeOK
<1>5. record \in CallRecords
    BY <1>3 DEF CallRecords
<1>6. call'[w] = record /\ \A v \in Callers \ {w} : call'[v] = call[v]
    BY <1>2 DEF StoreInv
<1>7. lapped \subseteq lapped' /\ \A u \in Tables : Row(u)' = Row(u)
    BY <1>2 DEF Row
<1>8. CallTypes(w)' /\ FoundHolds(w)'
    BY <1>1, <1>5, <1>6 DEF CallTypes, FoundHolds
<1>9. ASSUME NEW v \in Callers, v # w, InCall(v)' PROVE CallTypes(v)' /\ FoundHolds(v)'
    <2>1. call'[v] = call[v] /\ InCall(v)
        BY <1>6, <1>9 DEF InCall
    <2>2. CallTypes(v) /\ FoundHolds(v)
        BY <2>1 DEF StoreInv
    <2>3. call[v].row \in Tables
        BY <2>2 DEF CallTypes, CallRecords
    <2> QED
        BY <1>7, <2>1, <2>2, <2>3 DEF CallTypes, FoundHolds
<1>10. ASSUME NEW u \in Callers, NEW v \in Callers, u # v, InCall(u)', InCall(v)',
              call'[u].row = call'[v].row
       PROVE  call'[u].row \in lapped'
    <2>1. CASE u # w /\ v # w
        BY <1>6, <1>7, <1>10, <2>1 DEF StoreInv, InCall
    <2>2. CASE u = w
        <3>1. v # w /\ call[v] # Idle /\ call[v].row = t /\ call'[u].row = t
            BY <1>6, <1>10, <2>2 DEF InCall
        <3> QED
            BY <1>2, <3>1
    <2>3. CASE v = w
        <3>1. u # w /\ call[u] # Idle /\ call[u].row = t /\ call'[u].row = t
            BY <1>6, <1>10, <2>3 DEF InCall
        <3> QED
            BY <1>2, <3>1
    <2> QED
        BY <2>1, <2>2, <2>3
<1>11. Stamped'
    BY <1>2 DEF StoreInv, Stamped
<1> QED
    BY <1>2, <1>4, <1>8, <1>9, <1>10, <1>11 DEF StoreInv

\* A call reads its row.
LEMMA Reads ==
    ASSUME StoreInv, NEW w \in Callers, Find(w)
    PROVE  StoreInv'
<1>1. CallTypes(w)
    <2>1. InCall(w)
        BY DEF Find, InCall, Idle
    <2> QED
        BY <2>1 DEF StoreInv
<1> DEFINE record == [call[w] EXCEPT !.pc = "write", !.found = Row(call[w].row)]
<1>2. /\ call' = [call EXCEPT ![w] = record]
      /\ UNCHANGED <<run, provenance, findings, clock, lapped>>
    BY DEF Find, tables
<1>3. call'[w] = record /\ \A v \in Callers \ {w} : call'[v] = call[v]
    BY <1>2 DEF StoreInv
<1>4. /\ call[w].row = "provenance" => Row(call[w].row) \in ProvRow \cup {None}
      /\ call[w].row # "provenance" => Row(call[w].row) \in RunRow \cup {None}
    BY <1>1 DEF StoreInv, TypeOK, Row, CallTypes, CallRecords, Tables
<1>5. CallTypes(w)'
    BY <1>1, <1>3, <1>4 DEF CallTypes, CallRecords
<1>6. FoundHolds(w)'
    <2>1. call'[w].row = call[w].row /\ call'[w].found = Row(call[w].row)
        BY <1>1, <1>3 DEF CallTypes, CallRecords
    <2>2. Row(call[w].row)' = IF call'[w].row = "provenance" THEN provenance ELSE run[call'[w].row]
        BY <1>2 DEF Row
    <2> QED
        BY <2>1, <2>2 DEF FoundHolds, Row
<1>7. \A v \in Callers : InCall(v)' => InCall(v) /\ call'[v].row = call[v].row
    BY <1>1, <1>3, RecordsAreCalls DEF InCall, CallTypes, CallRecords
<1>8. ASSUME NEW v \in Callers, v # w, InCall(v)' PROVE CallTypes(v)' /\ FoundHolds(v)'
    <2>1. call'[v] = call[v] /\ CallTypes(v) /\ FoundHolds(v)
        BY <1>3, <1>7, <1>8 DEF StoreInv
    <2>2. Row(call[v].row)' = Row(call[v].row) /\ lapped' = lapped
        BY <1>2, <2>1 DEF Row
    <2> QED
        BY <2>1, <2>2 DEF CallTypes, FoundHolds
<1>9. TypeOK' /\ Stamped'
    BY <1>2 DEF StoreInv, TypeOK, Stamped
<1> QED
    BY <1>2, <1>5, <1>6, <1>7, <1>8, <1>9 DEF StoreInv

\* What a write leaves in the tables, whichever write it is: rows of their type, none gone, and
\* only the row of the call other than it was.
WritesOneRow(t) ==
    /\ run' \in [Uids -> RunRow \cup {None}] /\ provenance' \in ProvRow \cup {None}
    /\ \A u \in Tables : Row(u) # None => Row(u)' # None
    /\ \A u \in Tables \ {t} : Row(u)' = Row(u)

\* A call ends: the calls left hold what they held, for a row that two calls share is lapped.
LEMMA Returns ==
    ASSUME StoreInv, NEW w \in Callers, InCall(w),
           call' = [call EXCEPT ![w] = Idle], UNCHANGED <<lapped, findings>>, clock' \in Time,
           WritesOneRow(call[w].row), Stamped'
    PROVE  StoreInv'
<1>1. call'[w] = Idle /\ \A v \in Callers \ {w} : call'[v] = call[v]
    BY DEF StoreInv
<1>2. ASSUME NEW v \in Callers, InCall(v)' PROVE v # w /\ InCall(v) /\ call'[v] = call[v]
    BY <1>1, <1>2 DEF InCall
<1>3. ASSUME NEW v \in Callers, InCall(v)' PROVE CallTypes(v)' /\ FoundHolds(v)'
    <2>1. v # w /\ InCall(v) /\ call'[v] = call[v] /\ CallTypes(v) /\ FoundHolds(v)
        BY <1>2, <1>3 DEF StoreInv
    <2>2. call[v].row \in Tables
        BY <2>1 DEF CallTypes, CallRecords
    <2>3. call[v].row = call[w].row => call[v].row \in lapped
        BY <2>1 DEF StoreInv
    <2>4. /\ Row(call[v].row) # None => Row(call[v].row)' # None
          /\ call[v].row \notin lapped => Row(call[v].row)' = Row(call[v].row)
        <3>1. \A u \in Tables : Row(u) # None => Row(u)' # None
            BY DEF WritesOneRow
        <3>2. \A u \in Tables \ {call[w].row} : Row(u)' = Row(u)
            BY DEF WritesOneRow
        <3> QED
            BY <2>1, <2>2, <2>3, <3>1, <3>2 DEF Row
    <2> QED
        BY <2>1, <2>4 DEF CallTypes, FoundHolds, Row
<1>4. TypeOK'
    BY DEF StoreInv, TypeOK, WritesOneRow
<1>5. DOMAIN call' = Callers
    BY DEF StoreInv
<1>6. \A u, v \in Callers : u # v /\ InCall(u)' /\ InCall(v)' /\ call'[u].row = call'[v].row
                                => call'[u].row \in lapped'
    BY <1>2 DEF StoreInv
<1> QED
    BY <1>3, <1>4, <1>5, <1>6 DEF StoreInv

\* An insert writes where there is nothing; another caller's row is left alone.
LEMMA Inserts ==
    ASSUME StoreInv, NEW w \in Callers, Insert(w)
    PROVE  StoreInv'
<1> DEFINE c == call[w]
<1>1. InCall(w) /\ CallTypes(w)
    BY DEF StoreInv, Insert, InCall, Idle
<1>2. call' = [call EXCEPT ![w] = Idle] /\ UNCHANGED <<lapped, clock, findings>>
    BY DEF Insert
<1>3. run \in [Uids -> RunRow \cup {None}] /\ provenance \in ProvRow \cup {None} /\ clock \in Time
    BY DEF StoreInv, TypeOK
<1>4. c.row \in Tables /\ c.now \in Time
    BY <1>1 DEF CallTypes, CallRecords
<1>5. CASE UNCHANGED <<run, provenance>>
    <2>1. WritesOneRow(c.row)
        BY <1>3, <1>5 DEF WritesOneRow, Row
    <2>2. Stamped'
        BY <1>5 DEF StoreInv, Stamped
    <2> QED
        BY <1>1, <1>2, <1>3, <2>1, <2>2, Returns
<1>6. CASE c.row = "provenance" /\ provenance = None
           /\ provenance' = InsertedProvenance(c.what, c.now) /\ UNCHANGED run
    <2>1. provenance' \in ProvRow
        BY <1>1, <1>4, <1>6 DEF CallTypes, InsertedProvenance, ProvRow
    <2>2. WritesOneRow(c.row)
        BY <1>3, <1>6, <2>1, StoreAssumption DEF WritesOneRow, Row, Tables
    <2>3. Stamped'
        BY <1>6 DEF StoreInv, Stamped
    <2> QED
        BY <1>1, <1>2, <1>3, <2>2, <2>3, Returns
<1>7. CASE c.row # "provenance" /\ run[c.row] = None
           /\ run' = [run EXCEPT ![c.row] = InsertedRun(c.what, c.now)] /\ UNCHANGED provenance
    <2> DEFINE row == InsertedRun(c.what, c.now)
    <2>1. c.row \in Uids
        BY <1>4, <1>7 DEF Tables
    <2>2. row \in RunRow /\ (IsTerminalPhase(row.phase) => row.terminal # None)
        BY <1>1, <1>4, <1>7, StoreAssumption DEF CallTypes, InsertedRun, RunRow, Time
    <2>3. run'[c.row] = row /\ \A u \in Uids \ {c.row} : run'[u] = run[u]
        BY <1>3, <1>7, <2>1
    <2>4. run' \in [Uids -> RunRow \cup {None}]
        BY <1>3, <1>7, <2>2
    <2>5. WritesOneRow(c.row)
        BY <1>3, <1>7, <2>2, <2>3, <2>4, StoreAssumption DEF WritesOneRow, Row, Tables
    <2>6. Stamped'
        BY <2>2, <2>3 DEF StoreInv, Stamped
    <2> QED
        BY <1>1, <1>2, <1>3, <2>5, <2>6, Returns
<1> QED
    BY <1>5, <1>6, <1>7 DEF Insert, Row

\* An update keeps what the row has in the columns it does not set.
LEMMA UpdateKeeps ==
    ASSUME StoreInv, NEW w \in Callers, Update(w)
    PROVE  LET c == call[w] IN
           /\ InCall(w) /\ CallTypes(w) /\ c.row \in Tables /\ c.now \in Time
           /\ c.found # None /\ Row(c.row) # None
           /\ c.row = "provenance" =>
                 /\ UNCHANGED run /\ provenance' = UpdatedProvenance(provenance, c.what, c.now)
                 /\ provenance \in ProvRow /\ provenance' \in ProvRow
                 /\ provenance'.first = provenance.first
                 /\ provenance.commit # None => provenance'.commit # None
           /\ c.row # "provenance" =>
                 /\ UNCHANGED provenance /\ c.row \in Uids
                 /\ run[c.row] \in RunRow /\ run'[c.row] \in RunRow
                 /\ \A u \in Uids \ {c.row} : run'[u] = run[u]
                 /\ run' \in [Uids -> RunRow \cup {None}]
                 /\ run'[c.row].started = run[c.row].started
                 /\ IsTerminalPhase(run'[c.row].phase) => run'[c.row].terminal # None
                 /\ c.row \notin lapped /\ run[c.row].terminal # None
                       => run'[c.row].terminal = run[c.row].terminal
<1> DEFINE c == call[w]
<1>1. InCall(w) /\ CallTypes(w) /\ FoundHolds(w) /\ c.pc = "write" /\ c.found # None
    BY DEF StoreInv, Update, InCall, Idle
<1>2. c.row \in Tables /\ c.now \in Time /\ Row(c.row) # None
    BY <1>1 DEF CallTypes, CallRecords, FoundHolds
<1>3. run \in [Uids -> RunRow \cup {None}] /\ provenance \in ProvRow \cup {None}
    BY DEF StoreInv, TypeOK
<1>4. ASSUME c.row = "provenance"
      PROVE  /\ UNCHANGED run /\ provenance' = UpdatedProvenance(provenance, c.what, c.now)
             /\ provenance \in ProvRow /\ provenance' \in ProvRow
             /\ provenance'.first = provenance.first
             /\ provenance.commit # None => provenance'.commit # None
    <2>1. UNCHANGED run /\ provenance' = UpdatedProvenance(provenance, c.what, c.now)
        BY <1>4 DEF Update
    <2>2. provenance \in ProvRow
        BY <1>2, <1>3, <1>4 DEF Row
    <2>3. c.what \in Commits \cup {None}
        BY <1>1, <1>4 DEF CallTypes
    <2> QED
        BY <1>2, <2>1, <2>2, <2>3 DEF UpdatedProvenance, ProvRow
<1>5. ASSUME c.row # "provenance"
      PROVE  /\ UNCHANGED provenance /\ c.row \in Uids
             /\ run[c.row] \in RunRow /\ run'[c.row] \in RunRow
             /\ \A u \in Uids \ {c.row} : run'[u] = run[u]
             /\ run' \in [Uids -> RunRow \cup {None}]
             /\ run'[c.row].started = run[c.row].started
             /\ IsTerminalPhase(run'[c.row].phase) => run'[c.row].terminal # None
             /\ c.row \notin lapped /\ run[c.row].terminal # None
                   => run'[c.row].terminal = run[c.row].terminal
    <2> DEFINE old == run[c.row]
               new == UpdatedRun(old, c.found, c.what, c.now)
    <2>1. UNCHANGED provenance /\ c.row \in Uids /\ run' = [run EXCEPT ![c.row] = new]
        BY <1>2, <1>5 DEF Update, Tables
    <2>2. old \in RunRow /\ (c.row \notin lapped => c.found = old)
        BY <1>1, <1>2, <1>3, <1>5, <2>1 DEF Row, FoundHolds
    <2>3. c.what \in Phases /\ c.found \in RunRow
        BY <1>1, <1>5 DEF CallTypes
    <2>4. /\ new \in RunRow /\ new.started = old.started /\ new.phase = c.what
          /\ new.terminal = IF c.found.terminal = None /\ IsTerminalPhase(c.what)
                            THEN c.now ELSE c.found.terminal
        BY <1>2, <2>2, <2>3 DEF UpdatedRun, RunRow
    <2>5. c.now # None
        BY <1>2, StoreAssumption DEF Time
    <2> HIDE DEF new
    <2>6. run'[c.row] = new /\ \A u \in Uids \ {c.row} : run'[u] = run[u]
        BY <1>3, <2>1
    <2>7. run' \in [Uids -> RunRow \cup {None}]
        BY <1>3, <2>1, <2>4
    <2> QED
        BY <2>1, <2>2, <2>4, <2>5, <2>6, <2>7
<1> QED
    BY <1>1, <1>2, <1>4, <1>5

LEMMA Updates ==
    ASSUME StoreInv, NEW w \in Callers, Update(w)
    PROVE  StoreInv'
<1> DEFINE c == call[w]
<1>1. call' = [call EXCEPT ![w] = Idle] /\ UNCHANGED <<lapped, clock, findings>>
    BY DEF Update
<1>2. run \in [Uids -> RunRow \cup {None}] /\ provenance \in ProvRow \cup {None} /\ clock \in Time
    BY DEF StoreInv, TypeOK
<1>3. InCall(w)
    BY UpdateKeeps
<1>4. CASE c.row = "provenance"
    <2>1. UNCHANGED run /\ provenance' \in ProvRow
        BY <1>4, UpdateKeeps
    <2>2. WritesOneRow(c.row)
        BY <1>2, <1>4, <2>1, StoreAssumption DEF WritesOneRow, Row, Tables
    <2>3. Stamped'
        BY <2>1 DEF StoreInv, Stamped
    <2> QED
        BY <1>1, <1>2, <1>3, <2>2, <2>3, Returns
<1>5. CASE c.row # "provenance"
    <2>1. /\ UNCHANGED provenance /\ c.row \in Uids /\ run'[c.row] \in RunRow
          /\ \A u \in Uids \ {c.row} : run'[u] = run[u]
          /\ run' \in [Uids -> RunRow \cup {None}]
          /\ IsTerminalPhase(run'[c.row].phase) => run'[c.row].terminal # None
        BY <1>5, UpdateKeeps
    <2>2. WritesOneRow(c.row)
        BY <1>2, <2>1, StoreAssumption DEF WritesOneRow, Row, Tables
    <2>3. Stamped'
        BY <2>1 DEF StoreInv, Stamped
    <2> QED
        BY <1>1, <1>2, <1>3, <2>2, <2>3, Returns
<1> QED
    BY <1>4, <1>5

\* A call that fails has written nothing.
LEMMA FailureKeeps ==
    ASSUME StoreInv, NEW w \in Callers, Fails(w)
    PROVE  StoreInv'
<1>1. /\ call' = [call EXCEPT ![w] = Idle] /\ InCall(w)
      /\ UNCHANGED <<run, provenance, findings, lapped, clock>>
    BY DEF Fails, InCall, tables
<1>2. WritesOneRow(call[w].row)
    BY <1>1 DEF WritesOneRow, Row, StoreInv, TypeOK
<1>3. clock' \in Time /\ Stamped'
    BY <1>1 DEF StoreInv, TypeOK, Stamped
<1> QED
    BY <1>1, <1>2, <1>3, Returns

\* New findings are of the type of a row, and no part of the rest of the invariant.
LEMMA AppendKeeps ==
    ASSUME StoreInv, NEW w \in Callers, AppendScanFindings(w)
    PROVE  StoreInv'
<1>1. UNCHANGED <<run, provenance, call, lapped>> /\ clock + 1 \in Time /\ clock' = clock + 1
    BY StoreAssumption DEF AppendScanFindings, Tick, StoreInv, TypeOK, Time
<1>2. PICK u \in Uids, s \in Severities :
          findings' = Append(findings, [run |-> u, severity |-> s, recorded |-> clock + 1])
    BY DEF AppendScanFindings
<1>3. findings' \in Seq(FindRow)
    <2>1. [run |-> u, severity |-> s, recorded |-> clock + 1] \in FindRow
        BY <1>1 DEF FindRow
    <2> QED
        BY <1>2, <2>1 DEF StoreInv, TypeOK
<1> QED
    BY <1>1, <1>3 DEF StoreInv, TypeOK, Stamped, InCall, CallTypes, FoundHolds, Row

LEMMA Step == StoreInv /\ [Next]_vars => StoreInv'
<1> SUFFICES ASSUME StoreInv, [Next]_vars PROVE StoreInv'
    OBVIOUS
<1>1. CASE UNCHANGED vars
    BY <1>1 DEF vars, tables, StoreInv, TypeOK, Stamped, InCall, CallTypes, FoundHolds, Row
<1>2. CASE Next
    BY <1>2, Begins, Reads, Inserts, Updates, FailureKeeps, AppendKeeps DEF Next
<1> QED
    BY <1>1, <1>2

\* However reads and writes of concurrent upserts interleave, rows keep their types, none
\* disappears, and a found row is the row as long as no two calls overlap on it.
THEOREM StoreInvariance == Spec => []StoreInv
<1>1. Init => StoreInv
    BY Start
<1>2. StoreInv /\ [Next]_vars => StoreInv'
    BY Step
<1> QED
    BY <1>1, <1>2, PTL DEF Spec

\* A run recorded as terminal says since when it is, even where a late observation of an early
\* phase overtakes.
THEOREM TerminalRunsAreStamped == Spec => []Stamped
<1>1. StoreInv => Stamped
    BY DEF StoreInv
<1> QED
    BY <1>1, StoreInvariance, PTL

\* What was recorded once stays: no step restarts a run, forgets a known source, or moves the
\* end of a run whose upserts do not overlap.
THEOREM RecordsStay == Spec => RecordedOnce
<1> DEFINE Stays ==
       /\ \A u \in Uids : run[u] # None =>
             /\ run'[u] # None /\ run'[u].started = run[u].started
             /\ u \notin lapped => Kept(run[u].terminal, run'[u].terminal)
       /\ provenance # None =>
             /\ provenance' # None /\ provenance'.first = provenance.first
             /\ provenance.commit # None => provenance'.commit # None
<1>1. StoreInv /\ [Next]_vars => [Stays]_vars
    <2> SUFFICES ASSUME StoreInv, Next PROVE Stays
        BY DEF Stays
    <2>1. CASE UNCHANGED <<run, provenance>>
        BY <2>1 DEF Kept
    <2>2. ASSUME NEW w \in Callers, Insert(w) PROVE Stays
        BY <2>2 DEF Insert, Row, StoreInv, TypeOK, Kept
    <2>3. ASSUME NEW w \in Callers, Update(w) PROVE Stays
        <3>1. CASE call[w].row = "provenance"
            BY <2>3, <3>1, UpdateKeeps, StoreAssumption DEF Kept
        <3>2. CASE call[w].row # "provenance"
            BY <2>3, <3>2, UpdateKeeps, StoreAssumption DEF Kept
        <3> QED
            BY <3>1, <3>2
    <2> QED
        BY <2>1, <2>2, <2>3
        DEF Next, UpsertValidationRun, ObserveDigestProvenance, Called, Find, Fails,
            AppendScanFindings, tables
<1> QED
    BY <1>1, StoreInvariance, PTL DEF Spec, RecordedOnce

\* The services read the tables differently and agree.  A list by phase, cut to a namespace or a
\* length or not, names runs a reader of one run finds in that phase, stamped if it is terminal;
\* uncut, as many as the summary counts; and the findings of a run are the findings of its severities.
THEOREM AuditsAgree == Spec => []AuditReadsAgree
<1>1. ASSUME StoreInv PROVE AuditReadsAgree
    <2>1. ASSUME NEW p \in Phases, NEW ns, NEW limit, NEW A \in ListValidations(p, ns, limit)
          PROVE  A \subseteq {u \in Uids : run[u] # None /\ run[u].phase = p}
        BY <2>1, StoreAssumption DEF ListValidations, TakeNewest, ValidationRunsByPhase
    <2>2. ASSUME NEW p \in Phases, NEW ns, NEW limit, NEW A \in ListValidations(p, ns, limit),
                 NEW u \in A
          PROVE  GetValidation(u) = run[u] /\ (IsTerminalPhase(p) => run[u].terminal # None)
        <3>1. u \in Uids /\ run[u] # None /\ run[u].phase = p
            BY <2>1, <2>2
        <3> QED
            BY <1>1, <3>1 DEF StoreInv, Stamped, GetValidation
    <2>3. ASSUME NEW p \in Phases, NEW A \in ListValidations(p, None, None)
          PROVE  Cardinality(A) = IF p \in DOMAIN GetSummary THEN GetSummary[p] ELSE 0
        <3> DEFINE runs == {u \in Uids : run[u] # None}
        <3>0. A = {u \in Uids : run[u] # None /\ run[u].phase = p}
            BY <2>3, StoreAssumption DEF ListValidations, TakeNewest, ValidationRunsByPhase
        <3>1. /\ DOMAIN GetSummary = {run[u].phase : u \in runs}
              /\ p \in DOMAIN GetSummary =>
                    GetSummary[p] = Cardinality({u \in runs : run[u].phase = p})
            BY DEF GetSummary
        <3>2. {u \in runs : run[u].phase = p} = A
            BY <3>0
        <3>3. CASE p \in DOMAIN GetSummary
            BY <3>1, <3>2, <3>3
        <3>4. CASE p \notin DOMAIN GetSummary
            <4>1. A = {}
                BY <3>0, <3>1, <3>4
            <4> QED
                BY <3>4, <4>1, FS_EmptySet
        <3> QED
            BY <3>3, <3>4
    <2>4. ASSUME NEW u \in Uids
          PROVE  ListFindings(u, None) = UNION {ListFindings(u, s) : s \in Severities}
        <3>1. \A n \in DOMAIN findings : findings[n].severity \in Severities
            <4>1. findings \in Seq(FindRow)
                BY <1>1 DEF StoreInv, TypeOK
            <4>2. \A n \in DOMAIN findings : findings[n] \in FindRow
                BY <4>1
            <4> QED
                BY <4>2 DEF FindRow
        <3>2. ListFindings(u, None) = {n \in DOMAIN findings : findings[n].run = u}
            BY DEF ListFindings, FindingsByRun
        <3>3. \A s \in Severities : ListFindings(u, s) =
                  {n \in DOMAIN findings : findings[n].run = u /\ findings[n].severity = s}
            BY StoreAssumption DEF ListFindings, FindingsByRunAndSeverity
        <3> QED
            BY <3>1, <3>2, <3>3
    <2> QED
        BY <2>2, <2>3, <2>4 DEF AuditReadsAgree
<1> QED
    BY <1>1, StoreInvariance, PTL
=============================================================================
