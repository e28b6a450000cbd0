-------------------------- MODULE MCValidationApi --------------------------
(***************************************************************************)
(* Two validations and a scan job for TLC, with the decisions the gate     *)
(* takes on a digest that is clean, has an aged High or a Critical CVE.    *)
(* v1 is shown with a copy of its scan job that is current or trails it,   *)
(* v2 with a copy of one that has been deleted.                            *)
(***************************************************************************)
EXTENDS ValidationApi, TLC

CONSTANTS ns, v1, v2, job, gone

Security == INSTANCE SecurityGate

Cve(severity, age) == [cve |-> TRUE, severity |-> severity, age |-> age, excepted |-> FALSE]

Scanned(findings) == [status |-> "Active", findings |-> findings,
                      attestations |-> {}, reported |-> {}]

Decision(findings) ==
    LET g == Security!Gate(Security!SecuritySpec({}, {}, FALSE), "d" :> Scanned(findings))
    IN  [severity |-> g.severity, verdict |-> g.verdict]

Validation(name, service, phase, gate, copied) ==
    [ns |-> ns, name |-> name, service |-> service, promessa |-> "p", digest |-> name,
     phase |-> phase, gate |-> gate, evidence |-> Absent, receipt |-> Absent,
     scan_jobs |-> copied]

Undecided(name, service) == Validation(name, service, "Unknown", Absent, <<>>)

Decided(name, service, findings, copied) ==
    LET d == Decision(findings)
    IN  Validation(name, service, IF d.verdict = "Failed" THEN "Failed" ELSE "Passed", d, copied)

\* A scan job while it runs, and with its result.
Created  == [ns |-> ns, name |-> job, scanner |-> "Trivy", class |-> "Cve", parent |-> v1,
             phase |-> "Unknown", findings |-> {}, findings_count |-> 0]
Running  == PatchPhase(Created, "Running", NotGiven)
Attested == PatchPhase(Running, "Attested", [id : {1, 2}, severity : {"Critical"}])
Jobs     == {Running, Attested}

FirstValues  == {Decided(v1, "auth", {Cve("Critical", 0)}, Summaries({Attested})),
                 Decided(v1, "auth", {}, Summaries({Running}))}
SecondValues == {Decided(v2, "uam", {Cve("High", 20)}, gone :> 1), Undecided(v2, "uam")}

MCKeys   == [validations |-> {<<ns, v1>>, <<ns, v2>>}, scan_jobs |-> {<<ns, job>>}]
MCOrder  == [validations |-> <<<<ns, v1>>, <<ns, v2>>>>, scan_jobs |-> <<<<ns, job>>>>]
MCValues == [validations |-> (<<ns, v1>> :> FirstValues @@ <<ns, v2>> :> SecondValues),
             scan_jobs   |-> <<ns, job>> :> Jobs]
MCInitially == [c \in Kinds |-> {[k \in Keys[c] |-> Nothing]}]
MCMaxWrites == [validations |-> 2, scan_jobs |-> 1]

Call(id, method, tool) == [id |-> id, version |-> "2.0", method |-> method, tool |-> tool,
                           args |-> Everything]

Request(id, method, tool) == [blank |-> FALSE, parses |-> TRUE, id |-> id,
                              request |-> Call(id, method, tool)]

\* A request, a blank line, and a line that is JSON with an id but no request.
MCLines == << Request(1, "tools/list", NotGiven),
              [blank |-> TRUE, parses |-> FALSE, id |-> Absent, request |-> Absent],
              [blank |-> FALSE, parses |-> TRUE, id |-> 2, request |-> Absent] >>

MCConfigs == {[token |-> "t1", anonymous |-> FALSE], [token |-> "t2", anonymous |-> FALSE]}
=============================================================================
