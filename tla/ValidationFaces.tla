--------------------------- MODULE ValidationFaces ---------------------------
(***************************************************************************)
(* The read faces of validation-api, as functions of a snapshot of the     *)
(* projection: REST (rest.rs, scanners.rs), GraphQL (graphql.rs), the      *)
(* hello frame of the WebSocket (ws.rs) and the tools of MCP (mcp_http.rs, *)
(* mcp.rs).                                                                *)
(*                                                                         *)
(* A snapshot holds, per kind, the values of a BTreeMap in key order.  An  *)
(* object is a record of what a face reads of it:                          *)
(*   validation  ns, name, service, promessa, digest, phase, gate,         *)
(*               evidence, receipt, scan_jobs (by the name of each child,  *)
(*               the findings_count the validation has copied of it)       *)
(*   scan job    ns, name, scanner, class, parent, phase, findings (a set  *)
(*               of [id, severity]), findings_count                        *)
(*   tenant      ns, name, phase                                           *)
(* phase is "Unknown", gate, evidence and receipt are Absent when the      *)
(* status does not have them.                                              *)
(***************************************************************************)
EXTENDS Naturals, Sequences, FiniteSets, Functions

CONSTANTS NotGiven, \* a filter or an argument that is not given
          Absent    \* a field the object does not have; a JSON null

\* The items that are wanted, in the order they come in.
Where(items, wanted) ==
    LET kept == {i \in DOMAIN items : items[i] \in wanted}
    IN  [n \in 1 .. Cardinality(kept) |->
            items[CHOOSE i \in kept : Cardinality({j \in kept : j <= i}) = n]]

\* How many of the items f groups under each value it takes on them.
Histogram(items, f) ==
    [x \in {f[i] : i \in DOMAIN items} |-> Cardinality({i \in DOMAIN items : f[i] = x})]

PhasesOf(items) == [i \in DOMAIN items |-> items[i].phase]

\* An object without a phase matches no phase, whatever the filter says.
HasPhase(o, phase) == phase = NotGiven \/ (o.phase # "Unknown" /\ o.phase = phase)

NotFound == [status |-> 404, body |-> {}]
Ok(body) == [status |-> 200, body |-> body]

(***************************************************************************)
(* REST                                                                    *)
(***************************************************************************)
ListValidations(snap, q) ==
    Where(snap.validations, {v \in Range(snap.validations) :
                                /\ HasPhase(v, q.phase)
                                /\ q.service \in {NotGiven, v.service}
                                /\ q.promessa \in {NotGiven, v.promessa}})

\* get_validation, get_tenant, get_scan_job of the projection: the map at a key.
Get(items, ns, name) == {o \in Range(items) : o.ns = ns /\ o.name = name}

GetObject(items, ns, name) ==
    IF Get(items, ns, name) = {} THEN NotFound ELSE Ok(Get(items, ns, name))

\* get_evidence, get_gate, get_outcome_chain: one field of the status, or null.
GetEvidence(snap, ns, name) ==
    IF Get(snap.validations, ns, name) = {} THEN NotFound
    ELSE Ok({v.evidence : v \in Get(snap.validations, ns, name)})

GetGate(snap, ns, name) ==
    IF Get(snap.validations, ns, name) = {} THEN NotFound
    ELSE Ok({v.gate : v \in Get(snap.validations, ns, name)})

GetOutcomeChain(snap, ns, name) ==
    IF Get(snap.validations, ns, name) = {} THEN NotFound
    ELSE Ok({v.receipt : v \in Get(snap.validations, ns, name)})

\* The findings of every scan job whose parent has that name: a parent is named without
\* its namespace.
ChildFindings(items, ns, name) ==
    UNION {{j} \X j.findings : j \in {k \in Range(items) : k.parent = name}}

\* get_findings reads the projection twice.
GetFindings(first, second, ns, name) ==
    IF Get(first.validations, ns, name) = {} THEN NotFound
    ELSE Ok(ChildFindings(second.scan_jobs, ns, name))

ListScanJobs(snap, q) ==
    Where(snap.scan_jobs, {j \in Range(snap.scan_jobs) :
                              /\ HasPhase(j, q.phase)
                              /\ q.scanner \in {NotGiven, j.scanner}
                              /\ q.class \in {NotGiven, j.class}})

Blocks(v) == v.gate # Absent /\ v.gate.verdict \in {"Failed", "Quarantined"}

\* Mutant: the severity of a later validation replaces a Critical.
WorseAlways(state, v) ==
    IF Blocks(v) THEN "Critical"
    ELSE IF v.gate # Absent /\ v.gate.severity = "Functional" THEN "Functional"
         ELSE state

Worse(state, v) ==
    IF Blocks(v) THEN "Critical"
    ELSE IF state = "Cosmetic" /\ v.gate # Absent /\ v.gate.severity = "Functional"
         THEN "Functional"
         ELSE state

\* One validation after the other, from Cosmetic.
StateOf(items) ==
    LET upTo[n \in Nat] == IF n = 0 THEN "Cosmetic" ELSE Worse(upTo[n - 1], items[n])
    IN  upTo[Len(items)]

VerdictsOf(items) ==
    LET gated == Where(items, {v \in Range(items) : v.gate # Absent})
    IN  Histogram(gated, [i \in DOMAIN gated |-> gated[i].gate.verdict])

ComplianceSummary(snap) ==
    [total      |-> Len(snap.validations),
     by_phase   |-> Histogram(snap.validations, PhasesOf(snap.validations)),
     by_verdict |-> VerdictsOf(snap.validations),
     state      |-> StateOf(snap.validations),
     blocking   |-> LET b == Where(snap.validations, {v \in Range(snap.validations) : Blocks(v)})
                    IN  [i \in DOMAIN b |-> b[i].digest]]

ComplianceByService(snap) ==
    LET V == snap.validations
        Of(s) == Where(V, {v \in Range(V) : v.service = s})
    IN  [s \in {V[i].service : i \in DOMAIN V} |-> Histogram(Of(s), PhasesOf(Of(s)))]

(***************************************************************************)
(* GraphQL and the WebSocket                                               *)
(***************************************************************************)

\* The sum of the numbers h holds.
Total(h) == Cardinality(UNION {{x} \X (1 .. h[x]) : x \in DOMAIN h})

\* Mutant: the scan jobs are counted, and not their findings.
CopiedJobs(v) == Cardinality(DOMAIN v.scan_jobs)

\* What a validation's own status says of its children, and not what they say.
CopiedCount(v) == Total(v.scan_jobs)

ValidationView(v) ==
    [ns |-> v.ns, name |-> v.name, service |-> v.service, digest |-> v.digest,
     promessa |-> v.promessa, phase |-> v.phase,
     severity |-> IF v.gate = Absent THEN Absent ELSE v.gate.severity,
     verdict  |-> IF v.gate = Absent THEN Absent ELSE v.gate.verdict,
     findings_count |-> CopiedCount(v)]

ScanJobView(j) ==
    [ns |-> j.ns, name |-> j.name, scanner |-> j.scanner, class |-> j.class,
     parent |-> j.parent, phase |-> j.phase, findings_count |-> j.findings_count]

\* The resolver returns at the first Critical; it reads the severity, not the verdict.
ComplianceState(snap) ==
    LET severities == {v.gate.severity : v \in {w \in Range(snap.validations) : w.gate # Absent}}
    IN  IF "Critical" \in severities THEN "Critical"
        ELSE IF "Functional" \in severities THEN "Functional" ELSE "Cosmetic"

\* Every client gets one Hello, and nothing after it.
Hello(snap) == [c \in DOMAIN snap |-> Len(snap[c])]

(***************************************************************************)
(* MCP: a request is [id, version, method, tool, args], where args[a] is   *)
(* NotGiven when it does not give a; a response has the id and a result or an   *)
(* error.                                                                  *)
(***************************************************************************)
McpOk(id, result) == [id |-> id, result |-> result, error |-> 0]
McpErr(id, code)  == [id |-> id, result |-> Absent, error |-> code]

\* The tools of the catalog, with the arguments they require.
McpToolCatalog ==
    [list_validations   |-> {},
     get_validation     |-> {"namespace", "name"},
     query_findings     |-> {},
     trigger_rescan     |-> {"namespace", "name"},
     compliance_summary |-> {},
     list_blocked       |-> {}]

ListBlocked(snap) ==
    Where(snap.validations, {v \in Range(snap.validations) :
                                v.gate # Absent /\ v.gate.verdict \in {"Failed", "Quarantined"}})

QueryFindings(snap, severity) ==
    UNION {{j} \X {f \in j.findings : severity \in {NotGiven, f.severity}} : j \in Range(snap.scan_jobs)}

Unusable(tool, args) == \/ tool \notin DOMAIN McpToolCatalog
                        \/ \E a \in McpToolCatalog[tool] : args[a] = NotGiven

ToolsCall(id, tool, args, snap) ==
    IF Unusable(tool, args) THEN McpErr(id, 32602)
    ELSE CASE tool = "list_validations"   -> McpOk(id, ListValidations(snap, args))
           [] tool = "get_validation"     ->
                  LET found == Get(snap.validations, args.namespace, args.name)
                  IN  IF found = {} THEN McpErr(id, 32004) ELSE McpOk(id, found)
           [] tool = "query_findings"     -> McpOk(id, QueryFindings(snap, args.severity))
           [] tool = "compliance_summary" ->
                  McpOk(id, [x \in {"total", "by_phase", "by_verdict"}
                                |-> ComplianceSummary(snap)[x]])
           [] tool = "list_blocked"       -> McpOk(id, ListBlocked(snap))
           [] tool = "trigger_rescan"     -> McpOk(id, "acknowledged")

\* Who may call: the token of the environment, or anyone when there is none and the
\* environment says so.
Authorized(cfg, bearer) ==
    IF cfg.token # Absent THEN bearer = cfg.token ELSE cfg.anonymous

\* handler, with its HTTP status.
McpHandler(cfg, bearer, req, snap) ==
    IF ~Authorized(cfg, bearer) THEN [status |-> 401, body |-> McpErr(Absent, 32001)]
    ELSE Ok(IF req.version # "2.0" THEN McpErr(req.id, 32600)
            ELSE CASE req.method = "initialize" -> McpOk(req.id, "serverInfo")
                   [] req.method = "tools/list" -> McpOk(req.id, McpToolCatalog)
                   [] req.method = "tools/call" -> ToolsCall(req.id, req.tool, req.args, snap)
                   [] OTHER -> McpErr(req.id, 32601))
=============================================================================
