---------------------------- MODULE ValidationApi ----------------------------
(***************************************************************************)
(* validation-api: `serve`, which answers every face from the projection,  *)
(* and `mcp-proxy`, which bridges the lines of its stdin to `/v1/mcp` and  *)
(* prints one answer per line, while the API restarts under it.            *)
(***************************************************************************)
EXTENDS ValidationProjection, ValidationFaces

CONSTANTS
    Order,     \* Order[c]: Keys[c] as the BTreeMap orders them
    Lines,     \* the lines of stdin: [blank, parses, request, id]
    Configs,   \* the environments a rollout may give the API: [token, anonymous]
    Bearer     \* the token the bridge was started with

ASSUME ApiAssumption ==
    /\ \A c \in Kinds : /\ Order[c] \in Seq(Keys[c])
                        /\ IsInjective(Order[c]) /\ Range(Order[c]) = Keys[c]
    /\ {"validations", "scan_jobs"} \subseteq Kinds
    /\ Lines \in Seq(Range(Lines))
    \* The bridge and the API read the same id in the same line.
    /\ \A l \in Range(Lines) : l.request # Absent => l.parses /\ l.request.id = l.id

-----------------------------------------------------------------------------
(* The objects, as the controllers write them *)

\* Mutant: the number of the findings is not written with them.
RecordedCountOfOld(job, findings) == job.findings_count

\* patch_phase: one patch for the phase and, when there is a result, its findings and how many
\* there are.
RecordedCount(job, findings) ==
    IF findings = NotGiven THEN job.findings_count ELSE Cardinality(findings)

PatchPhase(job, phase, findings) ==
    [job EXCEPT !.phase = phase,
                !.findings = IF findings = NotGiven THEN @ ELSE findings,
                !.findings_count = RecordedCount(job, findings)]

\* handle_scanning: what a validation copies of the children it lists.
Summaries(children) ==
    [n \in {j.name : j \in children} |->
        (CHOOSE j \in children : j.name = n).findings_count]

\* What the faces rely on: an object is kept under its own key; the gate writes the verdict that
\* goes with its severity; a filter that is not given is no phase; the findings of a scan job
\* are those of the patch its findings_count is from.
ASSUME ObjectsAssumption ==
    /\ \A k \in Keys["validations"] : \A v \in Values["validations"][k] :
          /\ k = <<v.ns, v.name>> /\ v.phase # NotGiven
          /\ v.gate # Absent =>
                /\ v.gate.verdict # Absent
                /\ (v.gate.severity = "Critical" <=> v.gate.verdict \in {"Failed", "Quarantined"})
    /\ \A k \in Keys["scan_jobs"] : \A j \in Values["scan_jobs"][k] :
          /\ k = <<j.ns, j.name>>
          /\ j.findings # NotGiven /\ IsFiniteSet(j.findings)
          /\ j.findings_count = RecordedCount(j, j.findings)

VARIABLES
    cfg,       \* AuthConfig, from the environment of the process
    bridge,    \* "read": awaits a line; "sent": awaits the answer to one; "ended"
    next,      \* how many lines it has read
    answers    \* what it has printed

bridgeVars == <<bridge, next, answers>>
vars       == <<projVars, cfg, bridgeVars>>

\* One read lock over all maps.
Snapshot ==
    [c \in Kinds |->
        LET shown == Where(Order[c], {k \in Keys[c] : inner[c][k] # Nothing})
        IN  [i \in DOMAIN shown |-> inner[c][shown[i]]]]

Init ==
    /\ ProjInit
    /\ cfg \in Configs
    /\ bridge = "read" /\ next = 0 /\ answers = <<>>

\* The line whose answer the bridge awaits.
Line == Lines[next]

-----------------------------------------------------------------------------
(* The bridge *)

ReadLine ==
    /\ bridge = "read" /\ next < Len(Lines)
    /\ next' = next + 1
    /\ bridge' = IF Lines[next + 1].blank THEN "read" ELSE "sent"
    /\ UNCHANGED <<projVars, cfg, answers>>

\* The id is read from whatever of the line parses.
IdOf(line) == IF line.parses THEN line.id ELSE Absent

MakeProxyError(line) == McpErr(IdOf(line), 32099)

\* POST /v1/mcp: a body that is no request never reaches the handler.
Post(line) ==
    IF line.parses /\ line.request # Absent
    THEN McpHandler(cfg, Bearer, line.request, Snapshot)
    ELSE [status |-> 400, body |-> McpErr(Absent, 0)]

\* Mutant: the status is not looked at.
ForwardedWhatever(line) == Post(line).body

Forwarded(line) ==
    IF Post(line).status = 200 THEN Post(line).body ELSE MakeProxyError(line)

Prints(answer) ==
    /\ answers' = Append(answers, answer)
    /\ bridge' = "read"
    /\ UNCHANGED <<projVars, cfg, next>>

Answer == bridge = "sent" /\ Prints(Forwarded(Line))

\* Mutant: an error of forward is returned by run.
TimeOutEnds ==
    /\ bridge = "sent"
    /\ bridge' = "ended"
    /\ UNCHANGED <<projVars, cfg, next, answers>>

\* The API is away, does not answer in time, or its answer is lost.
TimeOut == bridge = "sent" /\ Prints(MakeProxyError(Line))

-----------------------------------------------------------------------------
(* The API *)

ApiRestarts ==
    /\ Restart
    /\ cfg' \in Configs
    /\ UNCHANGED bridgeVars

ApiRuns ==
    /\ ProjRuns
    /\ UNCHANGED <<cfg, bridgeVars>>

Next == ApiRestarts \/ ApiRuns \/ ReadLine \/ Answer \/ TimeOut

\* The bridge gives every request a deadline; the API server answers a list that is asked
\* for often enough, and its watches deliver.
Fairness ==
    /\ WF_vars(ReadLine \/ Answer \/ TimeOut)
    /\ \A c \in Kinds :
         /\ WF_vars(/\ ListStarts(c) \/ InitApply(c) \/ InitDone(c) \/ Watched(c) \/ ListFails(c)
                    /\ UNCHANGED <<cfg, bridgeVars>>)
         /\ SF_vars(Listed(c) /\ UNCHANGED <<cfg, bridgeVars>>)

Spec == Init /\ [][Next]_vars /\ Fairness

-----------------------------------------------------------------------------
(* Properties *)

\* A query without filters.
Everything == [phase |-> NotGiven, service |-> NotGiven, promessa |-> NotGiven,
               severity |-> NotGiven, namespace |-> NotGiven, name |-> NotGiven,
               scanner |-> NotGiven, class |-> NotGiven]

\* The validation's copy is of the scan jobs shown with it, which are all in its namespace.
CopyIsCurrent(v, items) ==
    LET children == {j \in Range(items) : j.parent = v.name}
    IN  (\A j \in children : j.ns = v.ns) /\ v.scan_jobs = Summaries(children)

\* The faces tell the same story of one snapshot, although each computes it from other fields
\* and in another order: what blocks, whether anything is critical, how many validations there
\* are of what, what a single object is, and how many findings there are.  GraphQL reads the last
\* from counters, REST and MCP from the findings themselves.  The counter of a validation is a
\* copy, which may trail the scan jobs in the same snapshot: it has to agree only while it is a
\* copy of what is shown.
FacesAgree ==
    LET snap == Snapshot
        S    == ComplianceSummary(snap)
        V    == snap.validations
        J    == snap.scan_jobs
        mcp(tool) == ToolsCall(1, tool, Everything, snap).result
    IN  /\ S.state = ComplianceState(snap)
        /\ S.state = "Critical" <=> Len(S.blocking) > 0
        /\ S.blocking = [i \in DOMAIN mcp("list_blocked") |-> mcp("list_blocked")[i].digest]
        /\ mcp("compliance_summary").by_phase = S.by_phase
        /\ ListValidations(snap, Everything) = mcp("list_validations")
        /\ Total(S.by_phase) = S.total /\ S.total = Hello(snap).validations
        /\ \A p \in DOMAIN S.by_phase \ {"Unknown"} :
              Len(ListValidations(snap, [Everything EXCEPT !.phase = p])) = S.by_phase[p]
        /\ LET bySvc == ComplianceByService(snap)
           IN  \A p \in DOMAIN S.by_phase :
                  S.by_phase[p] = Total([s \in {t \in DOMAIN bySvc : p \in DOMAIN bySvc[t]}
                                            |-> bySvc[s][p]])
        /\ \A x \in DOMAIN S.by_verdict :
              S.by_verdict[x] = Cardinality({i \in DOMAIN V : ValidationView(V[i]).verdict = x})
        /\ \A j \in Range(J) :
              ScanJobView(j).findings_count
                 = Cardinality({f \in mcp("query_findings") : f[1] = j})
        /\ \A v \in Range(V) :
              /\ GetObject(V, v.ns, v.name) = Ok({v})
              /\ GetGate(snap, v.ns, v.name) = Ok({v.gate})
              /\ GetFindings(snap, snap, v.ns, v.name).body \subseteq mcp("query_findings")
              /\ \A j \in Range(J) : j.ns = v.ns /\ j.parent = v.name =>
                    {j} \X j.findings \subseteq GetFindings(snap, snap, v.ns, v.name).body
              /\ CopyIsCurrent(v, J) =>
                    ValidationView(v).findings_count
                        = Cardinality(GetFindings(snap, snap, v.ns, v.name).body)

\* The lines among the first n that want an answer, and how many lines are dealt with.
Asked(n) == {k \in 1 .. n : ~Lines[k].blank}
Dealt    == IF bridge = "sent" THEN next - 1 ELSE next

\* Answers come in the order of the lines, one per line that is not blank, each under the id
\* of its line, whatever the API makes of the line and however often it is away.
AnswersPairUp ==
    /\ Len(answers) = Cardinality(Asked(Dealt))
    /\ \A k \in Asked(Dealt) : answers[Cardinality(Asked(k))].id = IdOf(Lines[k])

\* The projection catches up with the cluster and stays with it once it is left alone.
CatchesUp == <>[](\A c \in Kinds : inner[c] = Cluster(c))

\* Every line is read and answered.
EveryLineIsAnswered == <>(next = Len(Lines) /\ bridge = "read")
=============================================================================
