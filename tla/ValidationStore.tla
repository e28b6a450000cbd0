--------------------------- MODULE ValidationStore ---------------------------
(***************************************************************************)
(* The audit database (validation-store) and the gRPC services that read   *)
(* it.  A caller of upsert_validation_run or observe_digest_provenance     *)
(* reads the clock, then the row, then inserts or updates: three steps     *)
(* without a transaction, which other callers' steps may come between.     *)
(* Rows of findings are appended by a single statement.                    *)
(*                                                                         *)
(* An update names the columns it sets.  The others keep what the row has  *)
(* by then, which need not be what the caller read.                        *)
(***************************************************************************)
EXTENDS Naturals, Sequences, FiniteSets

CONSTANTS
    Callers,     \* the tasks and processes that share the database
    Uids,        \* the validations
    Namespaces,  \* where they live
    NamespaceOf, \* NamespaceOf[u]: where u does
    Limits,      \* how many rows a caller may ask for
    Observed,    \* the phases they are observed in
    Commits,     \* what cartorio may know of the source of the digest
    Severities,  \* what a finding can be
    None,        \* NULL, or no row
    MaxClock     \* bound: readings of the clock

\* serialize_phase, parse_phase: the column holds the name of the variant.
Phases == {"Pending", "Provisioning", "Scanning", "Aggregating", "Attesting", "Gating",
           "Passed", "Failed", "Quarantined"}

IsTerminalPhase(p) == p \in {"Passed", "Failed", "Quarantined"}

Time    == 0 .. MaxClock
RunRow  == [phase : Phases, started : Time, seen : Time, terminal : Time \cup {None}]
ProvRow == [commit : Commits \cup {None}, first : Time, last : Time]
FindRow == [run : Uids, severity : Severities, recorded : Time]
Tables  == Uids \cup {"provenance"}

ASSUME StoreAssumption ==
    /\ Observed \subseteq Phases
    /\ NamespaceOf \in [Uids -> Namespaces]
    /\ Limits \subseteq Nat
    /\ None \notin Namespaces /\ None \notin Phases /\ None \notin Severities
    /\ None \notin Commits /\ None \notin Nat /\ None \notin RunRow /\ None \notin ProvRow
    /\ "provenance" \notin Uids
    /\ MaxClock \in Nat

VARIABLES
    run,         \* run[u]: the row of u in validation_runs
    provenance,  \* the row of the digest in digest_provenance
    findings,    \* scan_findings, in the order of their insertion
    clock,
    call,        \* call[w]: the call caller w is in
    lapped       \* history: the rows that two calls wrote at the same time

tables == <<run, provenance, findings>>
vars   == <<tables, clock, call, lapped>>

Idle == [pc |-> "idle"]

Row(t) == IF t = "provenance" THEN provenance ELSE run[t]

Init ==
    /\ run = [u \in Uids |-> None]
    /\ provenance = None
    /\ findings = <<>>
    /\ clock = 0
    /\ call = [w \in Callers |-> Idle]
    /\ lapped = {}

Tick == clock < MaxClock /\ clock' = clock + 1

-----------------------------------------------------------------------------
(* upsert_validation_run and observe_digest_provenance *)

\* The call's time is taken first; what it writes is known from the start.
Called(w, t, what) ==
    /\ call[w] = Idle /\ Tick
    /\ call' = [call EXCEPT ![w] = [pc |-> "find", row |-> t, what |-> what, now |-> clock + 1,
                                      found |-> None]]
    /\ lapped' = IF \E v \in Callers : call[v] # Idle /\ call[v].row = t
                 THEN lapped \cup {t} ELSE lapped
    /\ UNCHANGED tables

UpsertValidationRun(w) == \E u \in Uids, p \in Observed : Called(w, u, p)

ObserveDigestProvenance(w) == \E c \in Commits \cup {None} : Called(w, "provenance", c)

\* find_by_id(..).one(db).
Find(w) ==
    /\ call[w].pc = "find"
    /\ call' = [call EXCEPT ![w] = [@ EXCEPT !.pc = "write", !.found = Row(call[w].row)]]
    /\ UNCHANGED <<tables, clock, lapped>>

InsertedRun(phase, now) ==
    [phase |-> phase, started |-> now, seen |-> now,
     terminal |-> IF IsTerminalPhase(phase) THEN now ELSE None]

InsertedProvenance(commit, now) == [commit |-> commit, first |-> now, last |-> now]

\* Mutants: terminal_at is set when it is new only; it is stamped anew.
UpdatedRunNewStamp(row, found, phase, now) ==
    [row EXCEPT !.phase = phase, !.seen = now,
                !.terminal = IF found.terminal = None
                             THEN IF IsTerminalPhase(phase) THEN now ELSE None ELSE @]

UpdatedRunRestamped(row, found, phase, now) ==
    [row EXCEPT !.phase = phase, !.seen = now,
                !.terminal = IF IsTerminalPhase(phase) THEN now ELSE found.terminal]

\* The columns set, terminal_at among them: as it was read, unless it is time to stamp it.
UpdatedRun(row, found, phase, now) ==
    [row EXCEPT !.phase = phase, !.seen = now,
                !.terminal = IF found.terminal = None /\ IsTerminalPhase(phase)
                             THEN now ELSE found.terminal]

\* What is not newly known is not set.
UpdatedProvenance(row, commit, now) ==
    [row EXCEPT !.commit = IF commit = None THEN @ ELSE commit, !.last = now]

\* insert: refused when another caller's insert of the same key came first.
Insert(w) ==
    LET c == call[w] IN
    /\ c.pc = "write" /\ c.found = None
    /\ IF Row(c.row) # None THEN UNCHANGED <<run, provenance>>
       ELSE IF c.row = "provenance"
            THEN provenance' = InsertedProvenance(c.what, c.now) /\ UNCHANGED run
            ELSE run' = [run EXCEPT ![c.row] = InsertedRun(c.what, c.now)] /\ UNCHANGED provenance
    /\ call' = [call EXCEPT ![w] = Idle]
    /\ UNCHANGED <<findings, clock, lapped>>

Update(w) ==
    LET c == call[w] IN
    /\ c.pc = "write" /\ c.found # None
    /\ IF c.row = "provenance"
       THEN provenance' = UpdatedProvenance(provenance, c.what, c.now) /\ UNCHANGED run
       ELSE /\ run' = [run EXCEPT ![c.row] = UpdatedRun(@, c.found, c.what, c.now)]
            /\ UNCHANGED provenance
    /\ call' = [call EXCEPT ![w] = Idle]
    /\ UNCHANGED <<findings, clock, lapped>>

\* A statement fails, or the caller dies.
Fails(w) ==
    /\ call[w] # Idle
    /\ call' = [call EXCEPT ![w] = Idle]
    /\ UNCHANGED <<tables, clock, lapped>>

-----------------------------------------------------------------------------
(* append_scan_findings: all rows of one call or none, never any update.  No *)
(* row has to exist for the run they name.                                   *)

AppendScanFindings(w) ==
    /\ call[w] = Idle /\ Tick
    /\ \E u \in Uids, s \in Severities :
          findings' = Append(findings, [run |-> u, severity |-> s, recorded |-> clock + 1])
    /\ UNCHANGED <<run, provenance, call, lapped>>

Next == \E w \in Callers : \/ UpsertValidationRun(w) \/ ObserveDigestProvenance(w)
                           \/ Find(w) \/ Insert(w) \/ Update(w) \/ Fails(w)
                           \/ AppendScanFindings(w)

Spec == Init /\ [][Next]_vars

-----------------------------------------------------------------------------
(* The queries and the gRPC faces over them *)

ValidationRunsByPhase(p) == {u \in Uids : run[u] # None /\ run[u].phase = p}

\* The rows themselves, whatever order they come in.
FindingsByRun(u) == {n \in DOMAIN findings : findings[n].run = u}

FindingsByRunAndSeverity(u, s) ==
    {n \in DOMAIN findings : findings[n].run = u /\ findings[n].severity = s}

\* As many of the rows, the last seen first, as the limit allows: a set, for each choice
\* among rows that were seen at the same time.
TakeNewest(rows, limit) ==
    {A \in SUBSET rows :
        /\ limit = None \/ Cardinality(rows) <= limit => A = rows
        /\ limit # None /\ limit < Cardinality(rows) => Cardinality(A) = limit
        /\ \A u \in A, v \in rows \ A : run[v].seen <= run[u].seen}

\* What ListValidations may answer.  It refuses a request without a phase; the rows of the
\* phase come newest first, are filtered by namespace, then cut to the limit.
ListValidations(p, ns, limit) ==
    IF p = None THEN {"invalid_argument"}
    ELSE TakeNewest({u \in ValidationRunsByPhase(p) : ns \in {None, NamespaceOf[u]}}, limit)

GetValidation(u) == IF run[u] = None THEN "not_found" ELSE run[u]

ListFindings(u, s) == IF s = None THEN FindingsByRun(u) ELSE FindingsByRunAndSeverity(u, s)

GetSummary ==
    LET runs == {u \in Uids : run[u] # None}
    IN  [p \in {run[u].phase : u \in runs} |-> Cardinality({u \in runs : run[u].phase = p})]

-----------------------------------------------------------------------------
(* Properties *)

TypeOK ==
    /\ run \in [Uids -> RunRow \cup {None}]
    /\ provenance \in ProvRow \cup {None}
    /\ findings \in Seq(FindRow)
    /\ clock \in Time
    /\ lapped \subseteq Tables

\* A run that is read as terminal says when it became so, in whatever order concurrent
\* upserts of a late and an early observation read and write its row; and the services agree
\* on what there is: as a list, of whatever namespace and length, one by one and as a count.
AuditReadsAgree ==
    /\ \A p \in Phases :
          /\ \A ns \in Namespaces \cup {None}, limit \in Limits \cup {None} :
                \A A \in ListValidations(p, ns, limit) : \A u \in A :
                   /\ GetValidation(u) = run[u]
                   /\ IsTerminalPhase(p) => run[u].terminal # None
          /\ \A A \in ListValidations(p, None, None) :
                Cardinality(A) = IF p \in DOMAIN GetSummary THEN GetSummary[p] ELSE 0
    /\ \A u \in Uids :
          ListFindings(u, None) = UNION {ListFindings(u, s) : s \in Severities}

Kept(old, new) == old # None => new = old

\* What is recorded once stays: the time a row began, what is known of the source of a digest,
\* and the time a run ended as long as no two upserts of it overlap.  (When they do, the later
\* write takes the earlier stamp back or replaces it.)
RecordedOnce ==
    [][/\ \A u \in Uids : run[u] # None =>
             /\ run'[u] # None /\ run'[u].started = run[u].started
             /\ u \notin lapped => Kept(run[u].terminal, run'[u].terminal)
       /\ provenance # None =>
             /\ provenance' # None /\ provenance'.first = provenance.first
             /\ provenance.commit # None => provenance'.commit # None]_vars
=============================================================================
