-------------------------- MODULE ProjectionProofs --------------------------
(***************************************************************************)
(* What a reader of the projection may see, for every number of kinds,     *)
(* objects and writes: the informers never mix two states of the cluster,  *)
(* and no two faces of the API contradict each other about what they show. *)
(* And what the bridge prints, for every input and every API: one answer   *)
(* per line that wants one, in order and under its id.                     *)
(***************************************************************************)
EXTENDS ValidationApi, FiniteSetTheorems, TLAPS

\* The state of one informer is of its type.
InformerTypes(c) ==
    /\ revisions[c] \in Seq(Collection(c)) /\ Len(revisions[c]) > 0
    /\ inner[c] \in [Keys[c] -> (UNION {Values[c][k] : k \in Keys[c]}) \cup {Nothing}]
    /\ watcher[c] \in {"empty", "list", "page", "watch"}
    /\ at[c] \in 1 .. Len(revisions[c])
    /\ page[c] \subseteq Keys[c]

\* The map shows no object but as one state of the cluster has it.
ShowsOneState(c) ==
    \E n \in DOMAIN revisions[c] : \A k \in Keys[c] : inner[c][k] \in {Nothing, revisions[c][n][k]}

\* The map is empty from Init until the list is there, is the list less what has not been
\* handed out while it is handed out, and is the state at which the watch is from then on.
InformerInv(c) ==
    /\ InformerTypes(c)
    /\ watcher[c] = "empty" => ShowsOneState(c)
    /\ watcher[c] = "list"  => inner[c] = NothingOf(c)
    /\ watcher[c] = "page"  => \A k \in Keys[c] :
          inner[c][k] = IF k \in page[c] THEN Nothing ELSE revisions[c][at[c]][k]
    /\ watcher[c] = "watch" => inner[c] = revisions[c][at[c]]

ProjInv ==
    /\ DOMAIN revisions = Kinds /\ DOMAIN inner = Kinds /\ DOMAIN watcher = Kinds
    /\ DOMAIN at = Kinds /\ DOMAIN page = Kinds
    /\ \A c \in Kinds : InformerInv(c)

\* The invariant is what a reader is promised: every phase of an informer shows one state.
LEMMA InvIsReaders == ProjInv => ReadersSeeOneState
<1> SUFFICES ASSUME ProjInv, NEW c \in Kinds
             PROVE  /\ ShowsOneState(c)
                    /\ watcher[c] = "watch" /\ at[c] = Len(revisions[c]) => inner[c] = Cluster(c)
    BY DEF ReadersSeeOneState, ShowsOneState
<1>1. InformerInv(c) /\ InformerTypes(c)
    BY DEF ProjInv, InformerInv
<1>2. at[c] \in DOMAIN revisions[c] /\ 1 \in DOMAIN revisions[c]
    BY <1>1 DEF InformerTypes
<1>3. CASE watcher[c] = "empty"
    BY <1>1, <1>3 DEF InformerInv
<1>4. CASE watcher[c] = "list"
    BY <1>1, <1>2, <1>4 DEF InformerInv, ShowsOneState, NothingOf
<1>5. CASE watcher[c] = "page"
    BY <1>1, <1>2, <1>5 DEF InformerInv, ShowsOneState
<1>6. CASE watcher[c] = "watch"
    BY <1>1, <1>2, <1>6 DEF InformerInv, ShowsOneState, Cluster
<1> QED
    BY <1>1, <1>3, <1>4, <1>5, <1>6 DEF InformerTypes

\* A step of one informer leaves the others as they are.
LEMMA Frame ==
    ASSUME ProjInv, NEW d \in Kinds,
           revisions'[d] = revisions[d], inner'[d] = inner[d], watcher'[d] = watcher[d],
           at'[d] = at[d], page'[d] = page[d]
    PROVE  InformerInv(d)'
<1>1. InformerInv(d)
    BY DEF ProjInv
<1> QED
    BY <1>1 DEF InformerInv, InformerTypes, ShowsOneState, NothingOf

\* The initial projection is empty, next to some first state of the cluster.
LEMMA Start == ProjInit => ProjInv
<1> SUFFICES ASSUME ProjInit PROVE ProjInv
    OBVIOUS
<1> DEFINE first == UNION {{<<m>> : m \in Initially[c]} : c \in Kinds}
<1>1. revisions \in [Kinds -> first]
    BY DEF ProjInit
<1>2. /\ DOMAIN revisions = Kinds /\ DOMAIN inner = Kinds /\ DOMAIN watcher = Kinds
      /\ DOMAIN at = Kinds /\ DOMAIN page = Kinds
    <2> HIDE DEF first
    <2> QED
        BY <1>1 DEF ProjInit
<1>3. ASSUME NEW c \in Kinds PROVE InformerInv(c)
    <2>1. revisions[c] \in first
        <3> HIDE DEF first
        <3> QED
            BY <1>1, <1>3
    <2>2. PICK m : revisions[c] = <<m>>
        BY <2>1
    <2>3. m \in Initially[c]
        <3>1. Cluster(c) \in Initially[c]
            BY <1>3 DEF ProjInit
        <3> QED
            BY <2>2, <3>1 DEF Cluster
    <2>4. m \in Collection(c)
        BY <2>3, <1>3, ProjectionAssumption
    <2>5. /\ inner[c] = NothingOf(c) /\ watcher[c] = "empty" /\ at[c] = 1 /\ page[c] = {}
        BY <1>3 DEF ProjInit
    <2>6. Len(revisions[c]) = 1 /\ revisions[c] \in Seq(Collection(c))
        BY <2>2, <2>4
    <2>7. ShowsOneState(c)
        <3>1. 1 \in DOMAIN revisions[c] /\ \A k \in Keys[c] : inner[c][k] = Nothing
            BY <2>5, <2>6 DEF NothingOf
        <3> QED
            BY <3>1 DEF ShowsOneState
    <2>8. InformerTypes(c)
        BY <2>5, <2>6 DEF InformerTypes, NothingOf
    <2> QED
        BY <2>5, <2>7, <2>8 DEF InformerInv
<1> QED
    BY <1>2, <1>3 DEF ProjInv

\* A write adds a state of the cluster; what an informer has read of it stays.
LEMMA Writes ==
    ASSUME ProjInv, NEW c \in Kinds, Write(c)
    PROVE  ProjInv'
<1>1. InformerInv(c) /\ InformerTypes(c)
    BY DEF ProjInv, InformerInv
<1>2. PICK k \in Keys[c] : \E v \in Values[c][k] \cup {Nothing} :
          revisions' = [revisions EXCEPT ![c] = Append(@, [Cluster(c) EXCEPT ![k] = v])]
    BY DEF Write
<1>a. PICK v \in Values[c][k] \cup {Nothing} :
          revisions' = [revisions EXCEPT ![c] = Append(@, [Cluster(c) EXCEPT ![k] = v])]
    BY <1>2
<1> DEFINE written == [Cluster(c) EXCEPT ![k] = v]
<1>3. Cluster(c) \in Collection(c)
    BY <1>1 DEF InformerTypes, Cluster
<1>4. written \in Collection(c)
    <2>1. written \in [Keys[c] -> (UNION {Values[c][j] : j \in Keys[c]}) \cup {Nothing}]
        BY <1>3 DEF Collection
    <2>2. \A j \in Keys[c] : written[j] \in Values[c][j] \cup {Nothing}
        BY <1>3 DEF Collection
    <2> QED
        BY <2>1, <2>2 DEF Collection
<1>5. revisions'[c] = Append(revisions[c], written)
    BY <1>a DEF ProjInv
<1>6. /\ revisions'[c] \in Seq(Collection(c))
      /\ Len(revisions'[c]) = Len(revisions[c]) + 1
      /\ \A n \in DOMAIN revisions[c] :
            n \in DOMAIN revisions'[c] /\ revisions'[c][n] = revisions[c][n]
    BY <1>1, <1>4, <1>5 DEF InformerTypes
<1>7. InformerTypes(c)'
    BY <1>1, <1>6 DEF Write, InformerTypes, Collection
<1>8. ShowsOneState(c) => ShowsOneState(c)'
    BY <1>6 DEF ShowsOneState, Write
<1>9. InformerInv(c)'
    BY <1>1, <1>6, <1>7, <1>8 DEF Write, InformerInv, InformerTypes, NothingOf
<1>10. ASSUME NEW d \in Kinds, d # c PROVE InformerInv(d)'
    BY <1>a, <1>10, Frame DEF Write, ProjInv
<1> QED
    BY <1>a, <1>9, <1>10 DEF Write, ProjInv

\* Init empties the map.
LEMMA Relists ==
    ASSUME ProjInv, NEW c \in Kinds, ListStarts(c)
    PROVE  ProjInv'
<1>1. InformerInv(c) /\ InformerTypes(c)
    BY DEF ProjInv, InformerInv
<1>2. inner'[c] = NothingOf(c) /\ watcher'[c] = "list"
    BY DEF ListStarts, ProjInv
<1>3. InformerInv(c)'
    BY <1>1, <1>2 DEF ListStarts, InformerInv, InformerTypes, NothingOf, Collection
<1>4. ASSUME NEW d \in Kinds, d # c PROVE InformerInv(d)'
    BY <1>4, Frame DEF ListStarts, ProjInv
<1> QED
    BY <1>3, <1>4 DEF ListStarts, ProjInv

\* The list is the head of the cluster's history, all of it still to be handed out.
LEMMA Lists ==
    ASSUME ProjInv, NEW c \in Kinds, Listed(c)
    PROVE  ProjInv'
<1>1. InformerInv(c) /\ InformerTypes(c)
    BY DEF ProjInv, InformerInv
<1>2. /\ at'[c] = Len(revisions[c]) /\ watcher'[c] = "page"
      /\ page'[c] = {k \in Keys[c] : Cluster(c)[k] # Nothing}
      /\ inner'[c] = NothingOf(c)
    BY <1>1 DEF Listed, ProjInv, InformerInv
<1>3. InformerTypes(c)'
    BY <1>1, <1>2 DEF Listed, InformerTypes, Collection
<1>4. \A k \in Keys[c] :
          inner'[c][k] = IF k \in page'[c] THEN Nothing ELSE revisions'[c][at'[c]][k]
    BY <1>2 DEF Listed, NothingOf, Cluster
<1>5. InformerInv(c)'
    BY <1>2, <1>3, <1>4 DEF InformerInv
<1>6. ASSUME NEW d \in Kinds, d # c PROVE InformerInv(d)'
    BY <1>6, Frame DEF Listed, ProjInv
<1> QED
    BY <1>5, <1>6 DEF Listed, ProjInv

\* InitApply puts one object where it belongs.
LEMMA Applies ==
    ASSUME ProjInv, NEW c \in Kinds, InitApply(c)
    PROVE  ProjInv'
<1>1. InformerInv(c) /\ InformerTypes(c)
    BY DEF ProjInv, InformerInv
<1>2. PICK k \in page[c] : /\ inner' = [inner EXCEPT ![c][k] = revisions[c][at[c]][k]]
                           /\ page' = [page EXCEPT ![c] = @ \ {k}]
    BY DEF InitApply
<1>3. /\ inner'[c] = [inner[c] EXCEPT ![k] = revisions[c][at[c]][k]]
      /\ page'[c] = page[c] \ {k}
      /\ k \in Keys[c]
    BY <1>1, <1>2 DEF ProjInv, InformerTypes
<1>4. revisions[c][at[c]] \in Collection(c)
    BY <1>1 DEF InformerTypes
<1>5. InformerTypes(c)'
    BY <1>1, <1>3, <1>4 DEF InitApply, InformerTypes, Collection
<1>6. \A j \in Keys[c] :
          inner'[c][j] = IF j \in page'[c] THEN Nothing ELSE revisions'[c][at'[c]][j]
    BY <1>1, <1>3 DEF InitApply, InformerInv, InformerTypes
<1>7. InformerInv(c)'
    BY <1>5, <1>6 DEF InitApply, InformerInv
<1>8. ASSUME NEW d \in Kinds, d # c PROVE InformerInv(d)'
    BY <1>2, <1>8, Frame DEF InitApply, ProjInv
<1> QED
    BY <1>2, <1>7, <1>8 DEF InitApply, ProjInv

\* When the list is handed out, the map is the state it was read at.
LEMMA ListEnds ==
    ASSUME ProjInv, NEW c \in Kinds, InitDone(c)
    PROVE  ProjInv'
<1>1. InformerInv(c) /\ InformerTypes(c)
    BY DEF ProjInv, InformerInv
<1>2. watcher'[c] = "watch"
    BY DEF InitDone, ProjInv
<1>3. revisions[c][at[c]] \in Collection(c)
    BY <1>1 DEF InformerTypes
<1>4. \A k \in Keys[c] : inner[c][k] = revisions[c][at[c]][k]
    BY <1>1 DEF InitDone, InformerInv
<1>5. inner[c] = revisions[c][at[c]]
    BY <1>1, <1>3, <1>4 DEF InformerTypes, Collection
<1>6. InformerInv(c)'
    BY <1>1, <1>2, <1>5 DEF InitDone, InformerInv, InformerTypes, Collection
<1>7. ASSUME NEW d \in Kinds, d # c PROVE InformerInv(d)'
    BY <1>7, Frame DEF InitDone, ProjInv
<1> QED
    BY <1>6, <1>7 DEF InitDone, ProjInv

\* A watch event brings the map from one state of the cluster to the next.
LEMMA Follows ==
    ASSUME ProjInv, NEW c \in Kinds, Watched(c)
    PROVE  ProjInv'
<1>1. InformerInv(c) /\ InformerTypes(c)
    BY DEF ProjInv, InformerInv
<1> DEFINE was == revisions[c][at[c]]
           is  == revisions[c][at[c] + 1]
<1>2. /\ inner'[c] = [k \in Keys[c] |-> IF is[k] = was[k] THEN inner[c][k] ELSE is[k]]
      /\ at'[c] = at[c] + 1
    BY DEF Watched, ProjInv
<1>3. at[c] + 1 \in 1 .. Len(revisions[c]) /\ inner[c] = was
    BY <1>1 DEF Watched, InformerInv, InformerTypes
<1>4. is \in Collection(c)
    BY <1>1, <1>3 DEF InformerTypes
<1>5. inner'[c] = is
    BY <1>2, <1>3, <1>4 DEF Collection
<1>6. InformerInv(c)'
    BY <1>1, <1>2, <1>3, <1>4, <1>5 DEF Watched, InformerInv, InformerTypes, Collection
<1>7. ASSUME NEW d \in Kinds, d # c PROVE InformerInv(d)'
    BY <1>7, Frame DEF Watched, ProjInv
<1> QED
    BY <1>6, <1>7 DEF Watched, ProjInv

\* A failed list and an expired watch change where the watcher is, not the map.
LEMMA Loses ==
    ASSUME ProjInv, NEW c \in Kinds, ListFails(c) \/ WatchExpires(c)
    PROVE  ProjInv'
<1>1. InformerInv(c) /\ InformerTypes(c) /\ ShowsOneState(c)
    BY InvIsReaders DEF ProjInv, InformerInv, ReadersSeeOneState, ShowsOneState
<1>2. watcher'[c] = "empty"
    BY DEF ListFails, WatchExpires, ProjInv
<1>3. InformerInv(c)'
    BY <1>1, <1>2
    DEF ListFails, WatchExpires, InformerInv, InformerTypes, ShowsOneState, Collection
<1>4. ASSUME NEW d \in Kinds, d # c PROVE InformerInv(d)'
    BY <1>4, Frame DEF ListFails, WatchExpires, ProjInv
<1> QED
    BY <1>3, <1>4 DEF ListFails, WatchExpires, ProjInv

\* A new process starts from nothing.
LEMMA Restarts ==
    ASSUME ProjInv, Restart
    PROVE  ProjInv'
<1> SUFFICES ASSUME NEW c \in Kinds PROVE InformerInv(c)'
    BY DEF Restart, ProjInv
<1>1. InformerTypes(c)
    BY DEF ProjInv, InformerInv
<1>2. /\ inner'[c] = NothingOf(c) /\ watcher'[c] = "empty" /\ page'[c] = {}
      /\ revisions'[c] = revisions[c] /\ at'[c] = at[c]
    BY DEF Restart
<1>3. ShowsOneState(c)'
    <2>1. 1 \in DOMAIN revisions'[c] /\ \A k \in Keys[c] : inner'[c][k] = Nothing
        BY <1>1, <1>2 DEF InformerTypes, NothingOf
    <2> QED
        BY <2>1 DEF ShowsOneState
<1>4. InformerTypes(c)'
    BY <1>1, <1>2 DEF InformerTypes, NothingOf
<1> QED
    BY <1>2, <1>3, <1>4 DEF InformerInv

\* Every step of the projection, and of the cluster under it, keeps the invariant.
THEOREM ProjectionInvariance == ProjSpec => []ProjInv
<1>1. ProjInit => ProjInv
    BY Start
<1>2. ProjInv /\ [ProjNext]_projVars => ProjInv'
    <2> SUFFICES ASSUME ProjInv, [ProjNext]_projVars PROVE ProjInv'
        OBVIOUS
    <2>1. CASE UNCHANGED projVars
        BY <2>1 DEF projVars, ProjInv, InformerInv, InformerTypes, ShowsOneState, NothingOf,
                    Collection
    <2>2. CASE Restart
        BY <2>2, Restarts
    <2>3. ASSUME NEW c \in Kinds,
                 Write(c) \/ Informer(c) \/ ListFails(c) \/ WatchExpires(c)
          PROVE  ProjInv'
        BY <2>3, Writes, Relists, Lists, Applies, ListEnds, Follows, Loses DEF Informer
    <2> QED
        BY <2>1, <2>2, <2>3 DEF ProjNext, ProjRuns
<1> QED
    BY <1>1, <1>2, PTL DEF ProjSpec

\* A relist empties the map before it refills it and other writes go on meanwhile, and still a
\* reader sees only objects that were in the cluster together, all of them once caught up.
THEOREM ReadersNeverMix == ProjSpec => []ReadersSeeOneState
<1>1. ProjInv => ReadersSeeOneState
    BY InvIsReaders
<1> QED
    BY <1>1, ProjectionInvariance, PTL

-----------------------------------------------------------------------------
(* The API and the bridge *)

\* The bridge awaits the answer to a line that wants one; what it printed pairs up with what
\* it has dealt with.
BridgeInv ==
    /\ next \in 0 .. Len(Lines)
    /\ bridge \in {"read", "sent"}
    /\ bridge = "sent" => next > 0 /\ ~Lines[next].blank
    /\ answers \in Seq(Range(answers))
    /\ AnswersPairUp

\* A line is in the sequence of lines.
LEMMA LineIsARecord ==
    ASSUME NEW k \in 1 .. Len(Lines)
    PROVE  Lines[k] \in Range(Lines)
BY ApiAssumption DEF Range

\* Reading on by a line that is blank asks nothing new, by any other asks for one more.
LEMMA AskedGrows ==
    ASSUME NEW n \in Nat
    PROVE  /\ IsFiniteSet(Asked(n)) /\ Cardinality(Asked(n)) \in Nat
           /\ Lines[n + 1].blank => Asked(n + 1) = Asked(n)
           /\ ~Lines[n + 1].blank => /\ Asked(n + 1) = Asked(n) \cup {n + 1}
                                     /\ Cardinality(Asked(n + 1)) = Cardinality(Asked(n)) + 1
<1>1. IsFiniteSet(Asked(n)) /\ Cardinality(Asked(n)) \in Nat
    <2>1. Asked(n) \in SUBSET Nat /\ \A k \in Asked(n) : k <= n
        BY DEF Asked
    <2> QED
        BY <2>1, FS_BoundedSetOfNaturals, FS_CardinalityType
<1>2. Lines[n + 1].blank => Asked(n + 1) = Asked(n)
    BY DEF Asked
<1>3. ~Lines[n + 1].blank => Asked(n + 1) = Asked(n) \cup {n + 1}
    BY DEF Asked
<1>4. n + 1 \notin Asked(n)
    BY DEF Asked
<1> QED
    BY <1>1, <1>2, <1>3, <1>4, FS_AddElement

\* The first k of the lines that want an answer are among the first n, if k is.
LEMMA AskedIsMonotone ==
    ASSUME NEW n \in Nat, NEW k \in Asked(n)
    PROVE  Cardinality(Asked(k)) \in 1 .. Cardinality(Asked(n))
<1>1. k \in Nat /\ k <= n /\ k \in Asked(k)
    BY DEF Asked
<1>2. Asked(k) \subseteq Asked(n)
    BY <1>1 DEF Asked
<1>3. /\ IsFiniteSet(Asked(n)) /\ Cardinality(Asked(n)) \in Nat
      /\ IsFiniteSet(Asked(k)) /\ Cardinality(Asked(k)) \in Nat
    BY <1>1, AskedGrows
<1>4. Cardinality(Asked(k)) <= Cardinality(Asked(n))
    BY <1>2, <1>3, FS_Subset
<1>5. Cardinality(Asked(k)) # 0
    BY <1>1, <1>3, FS_EmptySet
<1> QED
    BY <1>3, <1>4, <1>5

\* The API answers a request it accepts under the id of the request.
LEMMA HandlerKeepsTheId ==
    ASSUME NEW c, NEW bearer, NEW req, NEW snap,
           McpHandler(c, bearer, req, snap).status = 200
    PROVE  McpHandler(c, bearer, req, snap).body.id = req.id
<1>1. ASSUME NEW tool, NEW args PROVE ToolsCall(req.id, tool, args, snap).id = req.id
    <2>1. CASE Unusable(tool, args)
        BY <2>1 DEF ToolsCall, McpErr
    <2>2. CASE ~Unusable(tool, args)
        <3>1. tool \in {"list_validations", "get_validation", "query_findings",
                        "compliance_summary", "list_blocked", "trigger_rescan"}
            BY <2>2 DEF Unusable, McpToolCatalog
        <3> DEFINE found == Get(snap.validations, args.namespace, args.name)
        <3>2. ToolsCall(req.id, tool, args, snap) \in
                  {McpOk(req.id, ListValidations(snap, args)), McpErr(req.id, 32004),
                   McpOk(req.id, found), McpOk(req.id, QueryFindings(snap, args.severity)),
                   McpOk(req.id, [x \in {"total", "by_phase", "by_verdict"}
                                     |-> ComplianceSummary(snap)[x]]),
                   McpOk(req.id, ListBlocked(snap)), McpOk(req.id, "acknowledged")}
            BY <2>2, <3>1 DEF ToolsCall
        <3>3. \A result : McpOk(req.id, result).id = req.id /\ McpErr(req.id, 32004).id = req.id
            BY DEF McpOk, McpErr
        <3> QED
            BY <3>2, <3>3
    <2> QED
        BY <2>1, <2>2
<1> DEFINE call == ToolsCall(req.id, req.tool, req.args, snap)
<1>2. call.id = req.id
    BY <1>1
<1> HIDE DEF call
<1>3. CASE ~Authorized(c, bearer)
    BY <1>3 DEF McpHandler
<1>4. CASE Authorized(c, bearer)
    <2>1. McpHandler(c, bearer, req, snap).body \in
              {McpErr(req.id, 32600), McpOk(req.id, "serverInfo"), McpOk(req.id, McpToolCatalog),
               call, McpErr(req.id, 32601)}
        BY <1>4 DEF McpHandler, Ok, call
    <2> QED
        BY <1>2, <2>1 DEF McpErr, McpOk
<1> QED
    BY <1>3, <1>4

\* Whatever the API makes of a line, the bridge answers it under the id of the line.
LEMMA ForwardedKeepsTheId ==
    ASSUME NEW k \in 1 .. Len(Lines)
    PROVE  /\ Forwarded(Lines[k]).id = IdOf(Lines[k])
           /\ MakeProxyError(Lines[k]).id = IdOf(Lines[k])
<1> DEFINE line == Lines[k]
<1>1. line \in Range(Lines)
    BY LineIsARecord
<1>2. line.request # Absent => line.parses /\ line.request.id = line.id
    BY <1>1, ApiAssumption
<1>3. MakeProxyError(line).id = IdOf(line)
    BY DEF MakeProxyError, McpErr
<1>4. CASE Post(line).status # 200
    BY <1>3, <1>4 DEF Forwarded
<1>5. CASE Post(line).status = 200
    <2>1. line.parses /\ line.request # Absent
        BY <1>5 DEF Post
    <2>2. Post(line) = McpHandler(cfg, Bearer, line.request, Snapshot)
        BY <2>1 DEF Post
    <2>3. Post(line).body.id = line.request.id
        BY <1>5, <2>2, HandlerKeepsTheId
    <2> QED
        BY <1>2, <1>3, <1>5, <2>1, <2>3 DEF Forwarded, IdOf
<1> QED
    BY <1>3, <1>4, <1>5

\* Reading a line leaves it to be answered, unless it is blank.
LEMMA ReadKeeps ==
    ASSUME BridgeInv, ReadLine
    PROVE  BridgeInv'
<1>1. /\ next \in Nat /\ next' = next + 1 /\ next < Len(Lines) /\ answers' = answers
      /\ Dealt = next
    BY DEF BridgeInv, ReadLine, Dealt
<1>2. CASE Lines[next + 1].blank
    <2>1. Dealt' = next + 1 /\ bridge' = "read" /\ Asked(next + 1) = Asked(next)
        BY <1>1, <1>2, AskedGrows DEF ReadLine, Dealt
    <2> QED
        BY <1>1, <2>1 DEF BridgeInv, AnswersPairUp
<1>3. CASE ~Lines[next + 1].blank
    <2>1. Dealt' = next /\ bridge' = "sent"
        BY <1>1, <1>3 DEF ReadLine, Dealt
    <2> QED
        BY <1>1, <1>3, <2>1 DEF BridgeInv, AnswersPairUp
<1> QED
    BY <1>2, <1>3

\* An answer under the id of its line takes its place behind the earlier ones.
LEMMA PrintKeeps ==
    ASSUME BridgeInv, bridge = "sent", NEW a, a.id = IdOf(Lines[next]), Prints(a)
    PROVE  BridgeInv'
<1>1. /\ next \in Nat \ {0} /\ next <= Len(Lines) /\ ~Lines[next].blank /\ Dealt = next - 1
      /\ answers' = Append(answers, a) /\ bridge' = "read" /\ next' = next /\ Dealt' = next
    BY DEF BridgeInv, Prints, Dealt
<1> DEFINE n == next - 1
           S == Range(answers) \cup {a}
<1>2. n \in Nat /\ n + 1 = next
    BY <1>1
<1>3. /\ Asked(next) = Asked(n) \cup {next}
      /\ Cardinality(Asked(n)) \in Nat
      /\ Cardinality(Asked(next)) = Cardinality(Asked(n)) + 1
    <2> HIDE DEF n
    <2>1. ~Lines[n + 1].blank
        BY <1>1, <1>2
    <2> QED
        BY <1>2, <2>1, AskedGrows
<1>4. answers \in Seq(Range(answers)) /\ Len(answers) = Cardinality(Asked(n))
    BY <1>1 DEF BridgeInv, AnswersPairUp
<1>5. /\ Len(answers') = Len(answers) + 1
      /\ answers'[Len(answers) + 1] = a
      /\ \A i \in 1 .. Len(answers) : answers'[i] = answers[i]
    BY <1>1, <1>4
<1>6. answers' \in Seq(Range(answers'))
    <2>1. answers' \in Seq(S)
        BY <1>1, <1>4
    <2>2. \A i \in 1 .. Len(answers') : answers'[i] \in Range(answers')
        BY <2>1 DEF Range
    <2> QED
        BY <2>1, <2>2
<1>7. ASSUME NEW k \in Asked(next)
      PROVE  answers'[Cardinality(Asked(k))].id = IdOf(Lines[k])
    <2>1. CASE k = next
        BY <1>3, <1>4, <1>5, <2>1
    <2>2. CASE k \in Asked(n)
        <3>1. Cardinality(Asked(k)) \in 1 .. Cardinality(Asked(n))
            BY <1>2, <2>2, AskedIsMonotone
        <3>2. answers[Cardinality(Asked(k))].id = IdOf(Lines[k])
            BY <1>1, <2>2 DEF BridgeInv, AnswersPairUp
        <3> QED
            BY <1>4, <1>5, <3>1, <3>2
    <2> QED
        BY <1>3, <1>7, <2>1, <2>2
<1>8. AnswersPairUp'
    BY <1>1, <1>3, <1>4, <1>5, <1>7 DEF AnswersPairUp
<1> QED
    BY <1>1, <1>6, <1>8 DEF BridgeInv

\* The API, its restarts and the cluster leave the bridge alone, and the bridge leaves them.
LEMMA BridgeStep == BridgeInv /\ [Next]_vars => BridgeInv'
<1> SUFFICES ASSUME BridgeInv, [Next]_vars PROVE BridgeInv'
    OBVIOUS
<1>1. CASE UNCHANGED bridgeVars
    BY <1>1 DEF bridgeVars, BridgeInv, AnswersPairUp, Dealt
<1>2. CASE ReadLine
    BY <1>2, ReadKeeps
<1>3. CASE Answer
    BY <1>3, ForwardedKeepsTheId, PrintKeeps DEF Answer, Line, BridgeInv
<1>4. CASE TimeOut
    BY <1>4, ForwardedKeepsTheId, PrintKeeps DEF TimeOut, Line, BridgeInv
<1> QED
    BY <1>1, <1>2, <1>3, <1>4 DEF Next, ApiRestarts, ApiRuns, vars, bridgeVars

\* mcp-proxy prints one answer for each line that is not blank, in the order of the lines and
\* under the id of the line, for every stdin, whatever the API answers and however often it is
\* away, restarted or started with another token.
THEOREM EveryAnswerPairsUp == Spec => []AnswersPairUp
<1>1. Init => BridgeInv
    <2> SUFFICES ASSUME Init PROVE BridgeInv
        OBVIOUS
    <2>1. bridge = "read" /\ next = 0 /\ answers = <<>> /\ Dealt = 0
        BY DEF Init, Dealt
    <2>2. Asked(0) = {}
        BY DEF Asked
    <2>3. Len(Lines) \in Nat
        BY ApiAssumption
    <2> QED
        BY <2>1, <2>2, <2>3, FS_EmptySet DEF BridgeInv, AnswersPairUp, Range
<1>2. BridgeInv => AnswersPairUp
    BY DEF BridgeInv
<1> QED
    BY <1>1, <1>2, BridgeStep, PTL DEF Spec

\* The API with its bridge is still the projection: no request, answer or change of its
\* environment touches what the informers write.
THEOREM ApiRunsTheProjection == Spec => ProjSpec
<1>1. Init => ProjInit
    BY DEF Init
<1>2. [Next]_vars => [ProjNext]_projVars
    BY DEF Next, vars, ApiRestarts, ApiRuns, ReadLine, Answer, TimeOut, Prints, ProjNext
<1> QED
    BY <1>1, <1>2, PTL DEF Spec, ProjSpec

\* So every request the API serves reads a projection that shows one state of each kind.
THEOREM RequestsReadOneState == Spec => []ReadersSeeOneState
BY ApiRunsTheProjection, ReadersNeverMix, PTL

-----------------------------------------------------------------------------
(* Counting: a projection of a sequence, and the parts of a histogram *)

\* f reaches every element of T from one element of S.
Pairs(f, S, T) ==
    /\ f \in [S -> T]
    /\ \A x, y \in S : f[x] = f[y] => x = y
    /\ \A t \in T : \E x \in S : f[x] = t

\* So T is as large as S.
LEMMA SameSize ==
    ASSUME NEW S, NEW T, NEW f, IsFiniteSet(S), Pairs(f, S, T)
    PROVE  IsFiniteSet(T) /\ Cardinality(T) = Cardinality(S)
<1>1. DOMAIN f = S
    BY DEF Pairs
<1>2. f \in Bijection(S, T)
    BY <1>1 DEF Bijection, Injection, Surjection, IsInjective, Pairs
<1> QED
    BY <1>2, FS_Bijection DEF ExistsBijection

\* Which items are wanted, and how many of them come up to one.
Kept(items, wanted) == {i \in DOMAIN items : items[i] \in wanted}
UpTo(K, i) == {j \in K : j <= i}

\* Finitely many numbers have one first, one second, and so on.
LEMMA Places ==
    ASSUME NEW n \in Nat, NEW K \in SUBSET (1 .. n)
    PROVE  /\ IsFiniteSet(K) /\ Cardinality(K) \in Nat
           /\ \A i \in K : Cardinality(UpTo(K, i)) \in 1 .. Cardinality(K)
           /\ \A i, k \in K : Cardinality(UpTo(K, i)) = Cardinality(UpTo(K, k)) => i = k
           /\ \A m \in 1 .. Cardinality(K) : \E i \in K : Cardinality(UpTo(K, i)) = m
<1>1. IsFiniteSet(K) /\ Cardinality(K) \in Nat
    <2>1. K \in SUBSET Nat /\ \A k \in K : k <= n
        OBVIOUS
    <2> QED
        BY <2>1, FS_BoundedSetOfNaturals, FS_CardinalityType
<1>2. \A i \in K : /\ IsFiniteSet(UpTo(K, i))
                   /\ Cardinality(UpTo(K, i)) \in Nat
                   /\ Cardinality(UpTo(K, i)) \in 1 .. Cardinality(K)
    <2> SUFFICES ASSUME NEW i \in K
                 PROVE  /\ IsFiniteSet(UpTo(K, i))
                        /\ Cardinality(UpTo(K, i)) \in Nat
                        /\ Cardinality(UpTo(K, i)) \in 1 .. Cardinality(K)
        OBVIOUS
    <2>1. UpTo(K, i) \in SUBSET K /\ i \in UpTo(K, i)
        BY DEF UpTo
    <2>2. /\ IsFiniteSet(UpTo(K, i)) /\ Cardinality(UpTo(K, i)) \in Nat
          /\ Cardinality(UpTo(K, i)) <= Cardinality(K)
        BY <1>1, <2>1, FS_Subset, FS_CardinalityType
    <2>3. Cardinality(UpTo(K, i)) # 0
        BY <2>1, <2>2, FS_EmptySet
    <2> QED
        BY <1>1, <2>2, <2>3
<1>3. ASSUME NEW i \in K, NEW k \in K, i < k
      PROVE  Cardinality(UpTo(K, i)) # Cardinality(UpTo(K, k))
    <2>1. \A j \in K : j \in Int
        OBVIOUS
    <2>2. \A j \in K : j <= i => j <= k
        BY <1>3, <2>1
    <2>3. k <= k /\ ~ (k <= i)
        BY <1>3, <2>1
    <2>4. UpTo(K, i) \in SUBSET UpTo(K, k) /\ k \in UpTo(K, k) /\ k \notin UpTo(K, i)
        BY <2>2, <2>3, Zenon DEF UpTo
    <2> QED
        BY <1>2, <2>4, FS_Subset
<1>4. \A i, k \in K : Cardinality(UpTo(K, i)) = Cardinality(UpTo(K, k)) => i = k
    BY <1>3
<1> DEFINE r == [i \in K |-> Cardinality(UpTo(K, i))]
<1>5. r \in Injection(K, 1 .. Cardinality(K))
    <2>1. r \in [K -> 1 .. Cardinality(K)]
        BY <1>2
    <2>2. DOMAIN r = K /\ \A i \in K : r[i] = Cardinality(UpTo(K, i))
        OBVIOUS
    <2> HIDE DEF r
    <2> QED
        BY <1>4, <2>1, <2>2 DEF Injection, IsInjective
<1>6. IsFiniteSet(1 .. Cardinality(K)) /\ Cardinality(1 .. Cardinality(K)) = Cardinality(K)
    BY <1>1, FS_Interval
<1>7. \A i \in K : r[i] = Cardinality(UpTo(K, i))
    OBVIOUS
<1> HIDE DEF r
<1>8. r \in Surjection(K, 1 .. Cardinality(K))
    BY <1>5, <1>6, FS_Injection
<1>9. \A m \in 1 .. Cardinality(K) : \E i \in K : r[i] = m
    BY <1>8 DEF Surjection
<1> QED
    BY <1>1, <1>2, <1>4, <1>7, <1>9

\* The n-th item of Where is the n-th item that is wanted.
Picks(items, wanted, b) ==
    LET K == Kept(items, wanted)
    IN  /\ Pairs(b, 1 .. Cardinality(K), K)
        /\ Where(items, wanted) = [m \in 1 .. Cardinality(K) |-> items[b[m]]]

\* There is such an order, and as many places as items that are wanted.
LEMMA WherePicks ==
    ASSUME NEW V, NEW items \in Seq(V), NEW wanted
    PROVE  /\ IsFiniteSet(Kept(items, wanted)) /\ Cardinality(Kept(items, wanted)) \in Nat
           /\ \E b : Picks(items, wanted, b)
<1> DEFINE K == Kept(items, wanted)
<1>1. Len(items) \in Nat /\ K \in SUBSET (1 .. Len(items))
    BY DEF Kept
<1>2. K = {i \in DOMAIN items : items[i] \in wanted}
    BY DEF Kept
<1> HIDE DEF K
<1> DEFINE c == Cardinality(K)
           b == [m \in 1 .. c |-> CHOOSE i \in K : Cardinality(UpTo(K, i)) = m]
<1>3. /\ IsFiniteSet(K) /\ Cardinality(K) \in Nat
      /\ \A i \in K : Cardinality(UpTo(K, i)) \in 1 .. Cardinality(K)
      /\ \A i, k \in K : Cardinality(UpTo(K, i)) = Cardinality(UpTo(K, k)) => i = k
      /\ \A m \in 1 .. Cardinality(K) : \E i \in K : Cardinality(UpTo(K, i)) = m
    BY <1>1, Places
<1>4. \A m \in 1 .. c : b[m] \in K /\ Cardinality(UpTo(K, b[m])) = m
    BY <1>3
<1>5. b \in [1 .. c -> K]
    BY <1>4
<1>6. Where(items, wanted) = [m \in 1 .. c |-> items[b[m]]]
    BY <1>2 DEF Where, UpTo
<1> HIDE DEF b
<1>7. \A m, n \in 1 .. c : b[m] = b[n] => m = n
    BY <1>4
<1>8. \A i \in K : \E m \in 1 .. c : b[m] = i
    BY <1>3, <1>4
<1>9. Picks(items, wanted, b)
    BY <1>5, <1>6, <1>7, <1>8 DEF Picks, Pairs, K
<1> QED
    BY <1>3, <1>9 DEF K

\* Where is the items that are wanted, all of them and as often as they were there.
LEMMA WhereIs ==
    ASSUME NEW V, NEW items \in Seq(V), NEW wanted
    PROVE  /\ Where(items, wanted) \in Seq(V)
           /\ Len(Where(items, wanted)) = Cardinality(Kept(items, wanted))
           /\ Range(Where(items, wanted)) = Range(items) \cap wanted
<1> DEFINE W == Where(items, wanted)
           K == Kept(items, wanted)
           c == Cardinality(K)
<1>1. PICK b : Picks(items, wanted, b)
    BY WherePicks
<1>2. /\ c \in Nat /\ W = [m \in 1 .. c |-> items[b[m]]] /\ b \in [1 .. c -> K]
      /\ \A i \in K : \E m \in 1 .. c : b[m] = i
    BY <1>1, WherePicks DEF Picks, Pairs
<1>3. \A i \in K : i \in DOMAIN items /\ items[i] \in V /\ items[i] \in wanted
    BY DEF Kept
<1>4. \A i \in DOMAIN items : items[i] \in wanted => i \in K
    BY DEF Kept
<1> HIDE DEF K, W
<1>5. W \in Seq(V) /\ Len(W) = c /\ DOMAIN W = 1 .. c
    BY <1>2, <1>3
<1>6. \A m \in 1 .. c : W[m] = items[b[m]] /\ b[m] \in K
    BY <1>2
<1>7. ASSUME NEW x \in Range(W) PROVE x \in Range(items) \cap wanted
    <2>1. PICK m \in 1 .. c : W[m] = x
        BY <1>5 DEF Range
    <2> QED
        BY <1>3, <1>6, <2>1 DEF Range
<1>8. ASSUME NEW x \in Range(items) \cap wanted PROVE x \in Range(W)
    <2>1. PICK i \in DOMAIN items : items[i] = x
        BY DEF Range
    <2>2. PICK m \in 1 .. c : b[m] = i
        BY <1>2, <1>4, <2>1
    <2> QED
        BY <1>5, <1>6, <2>1, <2>2 DEF Range
<1> QED
    BY <1>5, <1>7, <1>8 DEF K, W

\* Counting in what Where leaves is counting what is wanted twice.
LEMMA WhereCounts ==
    ASSUME NEW V, NEW items \in Seq(V), NEW wanted, NEW U
    PROVE  Cardinality(Kept(Where(items, wanted), U)) = Cardinality(Kept(items, wanted \cap U))
<1> DEFINE W == Where(items, wanted)
           K == Kept(items, wanted)
           c == Cardinality(K)
           A == Kept(W, U)
           B == Kept(items, wanted \cap U)
<1>1. PICK b : Picks(items, wanted, b)
    BY WherePicks
<1>2. /\ c \in Nat /\ W = [m \in 1 .. c |-> items[b[m]]] /\ b \in [1 .. c -> K]
      /\ \A i \in K : \E m \in 1 .. c : b[m] = i
      /\ \A m, n \in 1 .. c : b[m] = b[n] => m = n
    BY <1>1, WherePicks DEF Picks, Pairs
<1>3. /\ K = {i \in DOMAIN items : items[i] \in wanted}
      /\ B = {i \in DOMAIN items : items[i] \in wanted /\ items[i] \in U}
      /\ A = {m \in DOMAIN W : W[m] \in U}
    BY DEF Kept
<1> HIDE DEF K, W
<1>4. DOMAIN W = 1 .. c /\ \A m \in 1 .. c : W[m] = items[b[m]] /\ b[m] \in K
    BY <1>2
<1>5. IsFiniteSet(A)
    <2>1. IsFiniteSet(1 .. c)
        BY <1>2, FS_Interval
    <2>2. A \in SUBSET (1 .. c)
        BY <1>3, <1>4
    <2> QED
        BY <2>1, <2>2, FS_Subset
<1> HIDE DEF A, B, c
<1> DEFINE f == [m \in A |-> b[m]]
<1>6. \A m \in A : m \in 1 .. c /\ f[m] = b[m] /\ b[m] \in B
    BY <1>3, <1>4
<1>7. f \in [A -> B]
    BY <1>6
<1>8. \A x, y \in A : f[x] = f[y] => x = y
    BY <1>2, <1>6
<1>9. ASSUME NEW t \in B PROVE \E x \in A : f[x] = t
    <2>1. PICK m \in 1 .. c : b[m] = t
        BY <1>2, <1>3
    <2>2. m \in A
        BY <1>3, <1>4, <2>1
    <2> QED
        BY <1>6, <2>1, <2>2
<1> HIDE DEF f
<1>10. Pairs(f, A, B)
    BY <1>7, <1>8, <1>9 DEF Pairs
<1>11. Cardinality(B) = Cardinality(A)
    BY <1>5, <1>10, SameSize
<1> QED
    BY <1>11 DEF A, B, W

\* h counts, under each value, the members of I that g gives that value.
Counts(h, I, g) ==
    /\ \A i \in I : g[i] \in DOMAIN h
    /\ \A x \in DOMAIN h : h[x] = Cardinality({i \in I : g[i] = x})

\* The parts of a count make up the whole.
LEMMA TotalOfParts ==
    ASSUME NEW I, NEW g, NEW h, IsFiniteSet(I), Counts(h, I, g)
    PROVE  Total(h) = Cardinality(I)
<1> DEFINE P(x) == {i \in I : g[i] = x}
           b(x) == CHOOSE b : Pairs(b, 1 .. h[x], P(x))
           rank(i) == CHOOSE k \in 1 .. h[g[i]] : b(g[i])[k] = i
           U == UNION {{x} \X (1 .. h[x]) : x \in DOMAIN h}
           f == [i \in I |-> <<g[i], rank(i)>>]
<1>1. ASSUME NEW x \in DOMAIN h PROVE Pairs(b(x), 1 .. h[x], P(x))
    <2>1. IsFiniteSet(P(x)) /\ h[x] = Cardinality(P(x))
        BY <1>1, FS_Subset DEF Counts
    <2> HIDE DEF P
    <2>2. PICK c : c \in Bijection(1 .. h[x], P(x))
        BY <2>1, FS_CardinalityType DEF ExistsBijection
    <2>3. Pairs(c, 1 .. h[x], P(x))
        BY <2>2 DEF Bijection, Injection, Surjection, IsInjective, Pairs
    <2> QED
        BY <2>3
<1>2. ASSUME NEW x \in DOMAIN h, NEW k \in 1 .. h[x]
      PROVE  b(x)[k] \in I /\ g[b(x)[k]] = x
    <2>1. b(x) \in [1 .. h[x] -> P(x)]
        BY <1>1 DEF Pairs
    <2> HIDE DEF b
    <2>2. b(x)[k] \in P(x)
        BY <2>1
    <2> QED
        BY <2>2
<1>3. \A x \in DOMAIN h : \A i \in I : g[i] = x => \E k \in 1 .. h[x] : b(x)[k] = i
    BY <1>1 DEF Pairs
<1>4. \A x \in DOMAIN h : \A k, m \in 1 .. h[x] : b(x)[k] = b(x)[m] => k = m
    BY <1>1 DEF Pairs
<1>5. \A i \in I : g[i] \in DOMAIN h
    BY DEF Counts
<1> HIDE DEF P, b
<1>6. \A i \in I : rank(i) \in 1 .. h[g[i]] /\ b(g[i])[rank(i)] = i
    BY <1>3, <1>5
<1>7. \A i \in I : \A k \in 1 .. h[g[i]] : b(g[i])[k] = i => rank(i) = k
    BY <1>4, <1>5, <1>6
<1> HIDE DEF rank
<1>8. f \in [I -> U]
    BY <1>5, <1>6
<1>9. \A i \in I : f[i] = <<g[i], rank(i)>>
    OBVIOUS
<1>10. ASSUME NEW u \in U
       PROVE  \E x \in DOMAIN h : \E k \in 1 .. h[x] : u = <<x, k>>
    OBVIOUS
<1> HIDE DEF f, U
<1>11. ASSUME NEW i \in I, NEW j \in I, f[i] = f[j] PROVE i = j
    <2>1. g[i] = g[j] /\ rank(i) = rank(j)
        BY <1>9, <1>11
    <2> QED
        BY <1>6, <2>1
<1>12. ASSUME NEW u \in U PROVE \E i \in I : f[i] = u
    <2>1. PICK x \in DOMAIN h : \E k \in 1 .. h[x] : u = <<x, k>>
        BY <1>10
    <2>2. PICK k \in 1 .. h[x] : u = <<x, k>>
        BY <2>1
    <2>3. b(x)[k] \in I /\ g[b(x)[k]] = x
        BY <1>2
    <2>4. rank(b(x)[k]) = k
        BY <1>7, <2>3
    <2> QED
        BY <1>9, <2>2, <2>3, <2>4
<1>13. Pairs(f, I, U)
    BY <1>8, <1>11, <1>12 DEF Pairs
<1>14. Cardinality(U) = Cardinality(I)
    BY <1>13, SameSize
<1> QED
    BY <1>14 DEF Total, U

\* A histogram counts the items under the value they have.
LEMMA HistogramCounts ==
    ASSUME NEW items, NEW f, DOMAIN f = DOMAIN items
    PROVE  Counts(Histogram(items, f), DOMAIN items, f)
BY DEF Counts, Histogram

-----------------------------------------------------------------------------
(* The state of a summary, which is read off one validation after the other *)

\* Induction over the validations, for the recursion of StateOf.
Keep(x, n) == x
Numbers == INSTANCE NatRecursion WITH Base <- 0, Step <- Keep

\* What StateOf makes of the first n items.
Verdict(items, n) ==
    IF \E i \in 1 .. n : Blocks(items[i]) THEN "Critical"
    ELSE IF \E i \in 1 .. n : items[i].gate # Absent /\ items[i].gate.severity = "Functional"
         THEN "Functional" ELSE "Cosmetic"

\* Reading one item after the other, the worst of them decides, wherever it is.
LEMMA WorstDecides ==
    ASSUME NEW items, Len(items) \in Nat
    PROVE  StateOf(items) = Verdict(items, Len(items))
<1> DEFINE Rec(u) == u = [n \in Nat |-> IF n = 0 THEN "Cosmetic" ELSE Worse(u[n - 1], items[n])]
           closed == [n \in Nat |-> Verdict(items, n)]
           upTo   == CHOOSE u : Rec(u)
<1>1. Verdict(items, 0) = "Cosmetic"
    BY DEF Verdict
<1>2. ASSUME NEW n \in Nat \ {0}
      PROVE  Verdict(items, n) = Worse(Verdict(items, n - 1), items[n])
    <2>1. \A i : i \in 1 .. n <=> i \in 1 .. (n - 1) \/ i = n
        OBVIOUS
    <2> DEFINE functional(i) == items[i].gate # Absent /\ items[i].gate.severity = "Functional"
    <2>2. (\E i \in 1 .. n : Blocks(items[i]))
              <=> (\E i \in 1 .. (n - 1) : Blocks(items[i])) \/ Blocks(items[n])
        BY <2>1, Zenon
    <2>3. (\E i \in 1 .. n : functional(i))
              <=> (\E i \in 1 .. (n - 1) : functional(i)) \/ functional(n)
        BY <2>1, Zenon
    <2> QED
        BY <2>2, <2>3 DEF Verdict, Worse
<1>3. Rec(closed)
    <2>1. closed = [n \in Nat |-> IF n = 0 THEN "Cosmetic" ELSE Worse(closed[n - 1], items[n])]
        <3>1. ASSUME NEW n \in Nat
              PROVE  Verdict(items, n) = IF n = 0 THEN "Cosmetic"
                                         ELSE Worse(closed[n - 1], items[n])
            <4>1. CASE n = 0
                BY <1>1, <4>1
            <4>2. CASE n # 0
                <5>1. n - 1 \in Nat
                    BY <4>2
                <5>2. closed[n - 1] = Verdict(items, n - 1)
                    BY <5>1
                <5> QED
                    BY <1>2, <4>2, <5>2
            <4> QED
                BY <4>1, <4>2
        <3> QED
            BY <3>1
    <2> QED
        BY <2>1
<1>4. Rec(upTo)
    <2> HIDE DEF Rec, closed
    <2> QED
        BY <1>3
<1>5. upTo[0] = "Cosmetic" /\ \A n \in Nat \ {0} : upTo[n] = Worse(upTo[n - 1], items[n])
    <2> HIDE DEF upTo
    <2> QED
        BY <1>4
<1>6. StateOf(items) = upTo[Len(items)]
    BY DEF StateOf
<1> HIDE DEF upTo
<1> DEFINE S == {n \in Nat : upTo[n] = Verdict(items, n)}
<1>7. 0 \in S
    BY <1>1, <1>5
<1>8. ASSUME NEW n \in Nat, n \in S PROVE n + 1 \in S
    <2>1. n + 1 \in Nat \ {0} /\ (n + 1) - 1 = n
        OBVIOUS
    <2>2. upTo[n + 1] = Worse(upTo[(n + 1) - 1], items[n + 1])
        BY <1>5, <2>1
    <2>3. Verdict(items, n + 1) = Worse(Verdict(items, (n + 1) - 1), items[n + 1])
        BY <1>2, <2>1
    <2> QED
        BY <1>8, <2>1, <2>2, <2>3
<1> HIDE DEF S
<1>9. \A n \in Nat : n \in S
    BY <1>7, <1>8, Numbers!Induction
<1>10. upTo[Len(items)] = Verdict(items, Len(items))
    BY <1>9 DEF S
<1> QED
    BY <1>6, <1>10

-----------------------------------------------------------------------------
(* What the faces read: a snapshot of sane objects, each from its own key *)

\* What the faces are told of a snapshot: every validation is sane and no two have one key.
Readable(snap) ==
    LET V == snap.validations
        J == snap.scan_jobs
    IN  /\ V \in Seq(Range(V)) /\ J \in Seq(Range(J))
        /\ \A v \in Range(V) :
              /\ v.phase # NotGiven
              /\ v.gate # Absent =>
                    /\ v.gate.verdict # Absent
                    /\ (v.gate.severity = "Critical"
                           <=> v.gate.verdict \in {"Failed", "Quarantined"})
        /\ \A i, k \in DOMAIN V : V[i].ns = V[k].ns /\ V[i].name = V[k].name => i = k
        /\ \A j \in Range(J) : /\ j.findings # NotGiven /\ IsFiniteSet(j.findings)
                              /\ j.findings_count = Cardinality(j.findings)
        /\ \A i, k \in DOMAIN J : J[i].ns = J[k].ns /\ J[i].name = J[k].name => i = k

\* Every object in a snapshot comes from its own key.
LEMMA SnapshotIsKeyed ==
    ASSUME ProjInv, NEW c \in Kinds
    PROVE  LET s == Snapshot[c]
           IN  /\ s \in Seq(Range(s))
               /\ \E key \in [DOMAIN s -> Keys[c]] :
                     /\ \A i, k \in DOMAIN s : key[i] = key[k] => i = k
                     /\ \A i \in DOMAIN s : s[i] \in Values[c][key[i]]
<1> DEFINE wanted == {k \in Keys[c] : inner[c][k] # Nothing}
           key    == Where(Order[c], wanted)
           s      == Snapshot[c]
           K      == Kept(Order[c], wanted)
<1>1. /\ Order[c] \in Seq(Keys[c])
      /\ \A i, k \in DOMAIN Order[c] : Order[c][i] = Order[c][k] => i = k
    BY ApiAssumption DEF IsInjective
<1>2. s = [i \in DOMAIN key |-> inner[c][key[i]]]
    BY DEF Snapshot
<1>3. PICK b : Picks(Order[c], wanted, b)
    BY <1>1, WherePicks
<1> DEFINE m == Cardinality(K)
<1>4. /\ m \in Nat /\ b \in [1 .. m -> K]
      /\ \A i, k \in 1 .. m : b[i] = b[k] => i = k
      /\ key = [i \in 1 .. m |-> Order[c][b[i]]]
    BY <1>1, <1>3, WherePicks DEF Picks, Pairs
<1>5. \A i \in K : i \in DOMAIN Order[c] /\ Order[c][i] \in Keys[c]
                   /\ inner[c][Order[c][i]] # Nothing
    BY <1>1 DEF Kept
<1>6. \A k \in Keys[c] : inner[c][k] # Nothing => inner[c][k] \in Values[c][k]
    <2>1. InformerTypes(c) /\ ShowsOneState(c)
        BY InvIsReaders DEF ProjInv, InformerInv, ReadersSeeOneState, ShowsOneState
    <2>2. PICK n \in DOMAIN revisions[c] :
              \A k \in Keys[c] : inner[c][k] \in {Nothing, revisions[c][n][k]}
        BY <2>1 DEF ShowsOneState
    <2>3. revisions[c][n] \in Collection(c)
        BY <2>1, <2>2 DEF InformerTypes
    <2> QED
        BY <2>2, <2>3 DEF Collection
<1> HIDE DEF K, m, key, s
<1>7. DOMAIN s = 1 .. m /\ \A i \in 1 .. m : s[i] = inner[c][key[i]]
    BY <1>2, <1>4
<1>8. \A i \in 1 .. m : b[i] \in K /\ key[i] = Order[c][b[i]]
    BY <1>4
<1>9. \A i \in 1 .. m : key[i] \in Keys[c] /\ s[i] \in Values[c][key[i]]
    BY <1>5, <1>6, <1>7, <1>8
<1>10. s \in Seq(Range(s))
    <2>1. \A i \in 1 .. m : s[i] \in Range(s)
        BY <1>7 DEF Range
    <2>2. s = [i \in 1 .. m |-> s[i]]
        BY <1>2, <1>7
    <2> QED
        BY <1>4, <2>1, <2>2
<1>11. key \in [DOMAIN s -> Keys[c]]
    BY <1>4, <1>7, <1>9
<1>12. \A i, k \in DOMAIN s : key[i] = key[k] => i = k
    BY <1>1, <1>4, <1>5, <1>7, <1>8
<1> QED
    BY <1>7, <1>9, <1>10, <1>11, <1>12 DEF s

\* A snapshot is readable, whatever the informers are doing.
LEMMA SnapshotIsReadable ==
    ASSUME ProjInv
    PROVE  Readable(Snapshot)
<1> DEFINE V == Snapshot["validations"]
           J == Snapshot["scan_jobs"]
<1>1. "validations" \in Kinds /\ "scan_jobs" \in Kinds
    BY ApiAssumption
<1>2. V \in Seq(Range(V)) /\ J \in Seq(Range(J))
    BY <1>1, SnapshotIsKeyed
<1>3. PICK key \in [DOMAIN V -> Keys["validations"]] :
          /\ \A i, k \in DOMAIN V : key[i] = key[k] => i = k
          /\ \A i \in DOMAIN V : V[i] \in Values["validations"][key[i]]
    BY <1>1, SnapshotIsKeyed
<1>4. PICK jkey \in [DOMAIN J -> Keys["scan_jobs"]] :
          /\ \A i, k \in DOMAIN J : jkey[i] = jkey[k] => i = k
          /\ \A i \in DOMAIN J : J[i] \in Values["scan_jobs"][jkey[i]]
    BY <1>1, SnapshotIsKeyed
<1> HIDE DEF V, J
<1>5. ASSUME NEW i \in DOMAIN V
      PROVE  /\ key[i] = <<V[i].ns, V[i].name>> /\ V[i].phase # NotGiven
             /\ V[i].gate # Absent =>
                   /\ V[i].gate.verdict # Absent
                   /\ (V[i].gate.severity = "Critical"
                          <=> V[i].gate.verdict \in {"Failed", "Quarantined"})
    BY <1>3, ObjectsAssumption
<1>6. ASSUME NEW i \in DOMAIN J
      PROVE  /\ jkey[i] = <<J[i].ns, J[i].name>>
             /\ J[i].findings # NotGiven /\ IsFiniteSet(J[i].findings)
             /\ J[i].findings_count = Cardinality(J[i].findings)
    BY <1>4, ObjectsAssumption DEF RecordedCount
<1>7. \A i, k \in DOMAIN V : V[i].ns = V[k].ns /\ V[i].name = V[k].name => i = k
    BY <1>3, <1>5
<1>8. \A v \in Range(V) :
          /\ v.phase # NotGiven
          /\ v.gate # Absent =>
                /\ v.gate.verdict # Absent
                /\ (v.gate.severity = "Critical"
                       <=> v.gate.verdict \in {"Failed", "Quarantined"})
    BY <1>5 DEF Range
<1>9. \A j \in Range(J) : /\ j.findings # NotGiven /\ IsFiniteSet(j.findings)
                           /\ j.findings_count = Cardinality(j.findings)
    BY <1>6 DEF Range
<1>11. \A i, k \in DOMAIN J : J[i].ns = J[k].ns /\ J[i].name = J[k].name => i = k
    BY <1>4, <1>6
<1>10. Snapshot.validations = V /\ Snapshot.scan_jobs = J
    BY DEF V, J
<1> QED
    BY <1>2, <1>7, <1>8, <1>9, <1>10, <1>11 DEF Readable

-----------------------------------------------------------------------------
(* The faces agree, one subject after the other *)

\* The result of a tool of MCP that needs no arguments.
Mcp(tool, snap) == ToolsCall(1, tool, Everything, snap).result

LEMMA ToolsReturn ==
    ASSUME NEW snap
    PROVE  /\ Mcp("list_validations", snap) = ListValidations(snap, Everything)
           /\ Mcp("query_findings", snap) = QueryFindings(snap, NotGiven)
           /\ Mcp("list_blocked", snap) = ListBlocked(snap)
           /\ Mcp("compliance_summary", snap).by_phase = ComplianceSummary(snap).by_phase
<1>1. \A tool \in {"list_validations", "query_findings", "list_blocked", "compliance_summary"} :
          ~Unusable(tool, Everything)
    BY DEF Unusable, McpToolCatalog
<1>2. Everything.severity = NotGiven
    BY DEF Everything
<1> DEFINE s == [x \in {"total", "by_phase", "by_verdict"} |-> ComplianceSummary(snap)[x]]
<1>3. Mcp("compliance_summary", snap) = s
    BY <1>1 DEF Mcp, ToolsCall, McpOk
<1>4. s.by_phase = ComplianceSummary(snap)["by_phase"]
    OBVIOUS
<1>5. Mcp("list_validations", snap) = ListValidations(snap, Everything)
    BY <1>1 DEF Mcp, ToolsCall, McpOk
<1>6. Mcp("query_findings", snap) = QueryFindings(snap, NotGiven)
    BY <1>1, <1>2 DEF Mcp, ToolsCall, McpOk
<1>7. Mcp("list_blocked", snap) = ListBlocked(snap)
    BY <1>1 DEF Mcp, ToolsCall, McpOk
<1> QED
    BY <1>3, <1>4, <1>5, <1>6, <1>7

\* A sequence has as many places as it is long.
LEMMA SequenceIsCounted ==
    ASSUME NEW V, NEW items \in Seq(V)
    PROVE  IsFiniteSet(DOMAIN items) /\ Cardinality(DOMAIN items) = Len(items)
<1>1. Len(items) \in Nat /\ DOMAIN items = 1 .. Len(items)
    OBVIOUS
<1>2. ASSUME NEW n \in Nat PROVE IsFiniteSet(1 .. n) /\ Cardinality(1 .. n) = n
    BY FS_Interval
<1> QED
    BY <1>1, <1>2

\* A histogram counts what it groups.
LEMMA HistogramIs ==
    ASSUME NEW V, NEW items \in Seq(V), NEW f, DOMAIN f = DOMAIN items
    PROVE  /\ Total(Histogram(items, f)) = Len(items)
           /\ \A x \in DOMAIN Histogram(items, f) :
                 /\ Histogram(items, f)[x] = Cardinality({i \in DOMAIN items : f[i] = x})
                 /\ \E i \in DOMAIN items : f[i] = x
           /\ \A i \in DOMAIN items : f[i] \in DOMAIN Histogram(items, f)
<1>2. IsFiniteSet(DOMAIN items) /\ Cardinality(DOMAIN items) = Len(items)
    BY SequenceIsCounted
<1>3. Counts(Histogram(items, f), DOMAIN items, f)
    BY HistogramCounts
<1>4. Total(Histogram(items, f)) = Len(items)
    BY <1>2, <1>3, TotalOfParts
<1> QED
    BY <1>4 DEF Histogram

\* The state of the summary is the one GraphQL resolves, and it is Critical when it lists a
\* digest as blocking.
LEMMA StatesAgree ==
    ASSUME NEW snap, Readable(snap)
    PROVE  /\ ComplianceSummary(snap).state = ComplianceState(snap)
           /\ ComplianceSummary(snap).state = "Critical"
                 <=> Len(ComplianceSummary(snap).blocking) > 0
<1> DEFINE V == snap.validations
           B == Where(V, {v \in Range(V) : Blocks(v)})
           severities == {v.gate.severity : v \in {w \in Range(V) : w.gate # Absent}}
<1>1. /\ V \in Seq(Range(V)) /\ Len(V) \in Nat /\ DOMAIN V = 1 .. Len(V)
    BY DEF Readable
<1>2. \A i \in DOMAIN V : Blocks(V[i]) <=> V[i].gate # Absent /\ V[i].gate.severity = "Critical"
    BY DEF Readable, Blocks, Range
<1>3. ComplianceSummary(snap).state = Verdict(V, Len(V))
    BY <1>1, WorstDecides DEF ComplianceSummary
<1>4. \A x : x \in severities <=> \E i \in DOMAIN V : V[i].gate # Absent /\ V[i].gate.severity = x
    BY DEF Range
<1>5. ComplianceState(snap) = IF "Critical" \in severities THEN "Critical"
                              ELSE IF "Functional" \in severities THEN "Functional" ELSE "Cosmetic"
    BY DEF ComplianceState
<1>6. Len(ComplianceSummary(snap).blocking) = Len(B)
    <2>1. ComplianceSummary(snap).blocking = [i \in DOMAIN B |-> B[i].digest]
        BY DEF ComplianceSummary
    <2>2. B \in Seq(Range(V))
        BY <1>1, WhereIs
    <2> HIDE DEF B
    <2> QED
        BY <2>1, <2>2
<1>7. Len(B) > 0 <=> \E i \in DOMAIN V : Blocks(V[i])
    <2> DEFINE W == {v \in Range(V) : Blocks(v)}
    <2>1. /\ Len(B) = Cardinality(Kept(V, W)) /\ IsFiniteSet(Kept(V, W))
          /\ Cardinality(Kept(V, W)) \in Nat
        BY <1>1, WhereIs, WherePicks
    <2>2. Kept(V, W) = {} <=> ~ \E i \in DOMAIN V : Blocks(V[i])
        BY DEF Kept, Range
    <2> HIDE DEF V, B, W
    <2> QED
        BY <2>1, <2>2, FS_EmptySet
<1> HIDE DEF V, severities, B
<1>8. (\E i \in 1 .. Len(V) : Blocks(V[i])) <=> "Critical" \in severities
    BY <1>1, <1>2, <1>4
<1>9. (\E i \in 1 .. Len(V) : V[i].gate # Absent /\ V[i].gate.severity = "Functional")
          <=> "Functional" \in severities
    BY <1>1, <1>4
<1>10. Verdict(V, Len(V)) = "Critical" <=> \E i \in 1 .. Len(V) : Blocks(V[i])
    BY DEF Verdict
<1>11. ComplianceSummary(snap).state = ComplianceState(snap)
    BY <1>3, <1>5, <1>8, <1>9 DEF Verdict
<1> QED
    BY <1>1, <1>3, <1>6, <1>7, <1>10, <1>11

\* The digests REST calls blocking are those of the validations MCP lists as blocked.
LEMMA BlockedAgree ==
    ASSUME NEW snap
    PROVE  ComplianceSummary(snap).blocking
               = [i \in DOMAIN ListBlocked(snap) |-> ListBlocked(snap)[i].digest]
BY DEF ComplianceSummary, ListBlocked, Blocks

\* The phases add up, to what a list by phase returns and to the groups by service.
LEMMA PhasesAgree ==
    ASSUME NEW snap, Readable(snap), NEW p \in DOMAIN ComplianceSummary(snap).by_phase
    PROVE  /\ p # "Unknown" =>
                 Len(ListValidations(snap, [Everything EXCEPT !.phase = p]))
                     = ComplianceSummary(snap).by_phase[p]
           /\ LET bySvc == ComplianceByService(snap)
              IN  ComplianceSummary(snap).by_phase[p]
                      = Total([s \in {t \in DOMAIN bySvc : p \in DOMAIN bySvc[t]}
                                  |-> bySvc[s][p]])
<1> DEFINE V == snap.validations
           I == {i \in DOMAIN V : V[i].phase = p}
           h == ComplianceSummary(snap).by_phase
<1>1. V \in Seq(Range(V)) /\ IsFiniteSet(DOMAIN V) /\ \A i \in DOMAIN V : V[i] \in Range(V)
    <2>1. V \in Seq(Range(V))
        BY DEF Readable
    <2> QED
        BY <2>1, SequenceIsCounted DEF Range
<1>2. /\ h = Histogram(V, PhasesOf(V)) /\ DOMAIN PhasesOf(V) = DOMAIN V
      /\ \A i \in DOMAIN V : PhasesOf(V)[i] = V[i].phase
    BY DEF ComplianceSummary, PhasesOf
<1>3. h[p] = Cardinality(I) /\ \E i \in DOMAIN V : V[i].phase = p
    <2> HIDE DEF V, h
    <2>1. /\ h[p] = Cardinality({i \in DOMAIN V : PhasesOf(V)[i] = p})
          /\ \E i \in DOMAIN V : PhasesOf(V)[i] = p
        BY <1>1, <1>2, HistogramIs DEF h
    <2>2. {i \in DOMAIN V : PhasesOf(V)[i] = p} = I
        BY <1>2
    <2> QED
        BY <1>2, <2>1, <2>2
<1>4. ASSUME p # "Unknown"
      PROVE  Len(ListValidations(snap, [Everything EXCEPT !.phase = p])) = h[p]
    <2> DEFINE W == {v \in Range(V) : v.phase = p}
    <2>1. p # NotGiven
        BY <1>1, <1>3 DEF Readable
    <2>2. ListValidations(snap, [Everything EXCEPT !.phase = p]) = Where(V, W)
        BY <1>4, <2>1 DEF ListValidations, Everything, HasPhase
    <2>3. Kept(V, W) = I
        BY <1>1 DEF Kept
    <2>4. Len(Where(V, W)) = Cardinality(Kept(V, W))
        BY <1>1, WhereIs
    <2> QED
        BY <1>3, <2>2, <2>3, <2>4
<1> DEFINE of(s)  == Where(V, {v \in Range(V) : v.service = s})
           bySvc  == ComplianceByService(snap)
           hist(s) == Histogram(of(s), PhasesOf(of(s)))
           named  == {t \in DOMAIN bySvc : p \in DOMAIN bySvc[t]}
           t      == [s \in named |-> bySvc[s][p]]
           g      == [i \in DOMAIN V |-> V[i].service]
<1>5. bySvc = [s \in {V[i].service : i \in DOMAIN V} |-> hist(s)]
    BY DEF ComplianceByService
<1>6. ASSUME NEW s
      PROVE  /\ p \in DOMAIN hist(s) => hist(s)[p] = Cardinality({i \in I : g[i] = s})
             /\ (\E i \in I : g[i] = s) => p \in DOMAIN hist(s)
    <2> DEFINE W == {v \in Range(V) : v.service = s}
               U == {v \in Range(V) : v.phase = p}
               O == of(s)
    <2>1. O \in Seq(Range(V)) /\ Range(O) = Range(V) \cap W
        BY <1>1, WhereIs
    <2>2. /\ DOMAIN PhasesOf(O) = DOMAIN O
          /\ \A i \in DOMAIN O : PhasesOf(O)[i] = O[i].phase /\ O[i] \in Range(V)
        <3> HIDE DEF O, V
        <3> QED
            BY <2>1 DEF PhasesOf
    <2>3. Cardinality(Kept(O, U)) = Cardinality(Kept(V, W \cap U))
        BY <1>1, WhereCounts
    <2>4. Kept(V, W \cap U) = {i \in I : g[i] = s}
        BY <1>1 DEF Kept
    <2> HIDE DEF O
    <2>5. Kept(O, U) = {i \in DOMAIN O : PhasesOf(O)[i] = p}
        BY <2>2 DEF Kept
    <2>6. hist(s) = Histogram(O, PhasesOf(O))
        BY DEF O
    <2>7. ASSUME NEW i \in I, g[i] = s PROVE p \in DOMAIN hist(s)
        <3>1. V[i] \in Range(O) /\ V[i].phase = p
            BY <1>1, <2>1, <2>7
        <3>2. PICK k \in DOMAIN O : O[k] = V[i]
            BY <3>1 DEF Range
        <3>3. PhasesOf(O)[k] = p
            BY <2>2, <3>1, <3>2
        <3> QED
            BY <2>6, <3>3, <3>2, <2>1, <2>2, HistogramIs
    <2> HIDE DEF hist, U
    <2>8. ASSUME p \in DOMAIN hist(s)
          PROVE  hist(s)[p] = Cardinality({i \in DOMAIN O : PhasesOf(O)[i] = p})
        BY <2>1, <2>2, <2>6, <2>8, HistogramIs
    <2> QED
        BY <2>3, <2>4, <2>5, <2>7, <2>8
<1>7. Counts(t, I, g)
    <2>1. \A i \in I : g[i] \in DOMAIN bySvc /\ g[i] = V[i].service
        BY <1>5
    <2>2. \A s \in DOMAIN bySvc : bySvc[s] = hist(s)
        BY <1>5
    <2> HIDE DEF bySvc, hist, g, I
    <2>3. \A i \in I : g[i] \in DOMAIN t
        BY <1>6, <2>1, <2>2
    <2>4. \A s \in DOMAIN t : t[s] = Cardinality({i \in I : g[i] = s})
        BY <1>6, <2>2
    <2> QED
        BY <2>3, <2>4 DEF Counts
<1>8. IsFiniteSet(I)
    BY <1>1, FS_Subset
<1>9. Total(t) = Cardinality(I)
    <2> HIDE DEF I, t, g
    <2> QED
        BY <1>7, <1>8, TotalOfParts
<1> QED
    BY <1>3, <1>4, <1>9

\* What REST counts under a verdict is what GraphQL shows with that verdict.
LEMMA VerdictsAgree ==
    ASSUME NEW snap, Readable(snap), NEW x \in DOMAIN ComplianceSummary(snap).by_verdict
    PROVE  LET V == snap.validations
           IN  ComplianceSummary(snap).by_verdict[x]
                   = Cardinality({i \in DOMAIN V : ValidationView(V[i]).verdict = x})
<1> DEFINE V == snap.validations
           W == {v \in Range(V) : v.gate # Absent}
           U == {v \in Range(V) : v.gate.verdict = x}
           G == Where(V, W)
           f == [i \in DOMAIN G |-> G[i].gate.verdict]
<1>1. V \in Seq(Range(V)) /\ \A i \in DOMAIN V : V[i] \in Range(V)
    BY DEF Readable, Range
<1>2. \A v \in Range(V) : v.gate # Absent => v.gate.verdict # Absent
    BY DEF Readable
<1>3. ComplianceSummary(snap).by_verdict = Histogram(G, f)
    BY DEF ComplianceSummary, VerdictsOf
<1>4. G \in Seq(Range(V)) /\ Range(G) = Range(V) \cap W
    BY <1>1, WhereIs
<1>5. Cardinality(Kept(G, U)) = Cardinality(Kept(V, W \cap U))
    BY <1>1, WhereCounts
<1>6. \A i \in DOMAIN V :
          ValidationView(V[i]).verdict = IF V[i].gate = Absent THEN Absent ELSE V[i].gate.verdict
    BY DEF ValidationView
<1> DEFINE shown == {i \in DOMAIN V : ValidationView(V[i]).verdict = x}
<1> HIDE DEF G
<1>7. DOMAIN f = DOMAIN G /\ \A i \in DOMAIN G : f[i] = G[i].gate.verdict /\ G[i] \in Range(G)
    BY DEF Range
<1>8. Kept(G, U) = {i \in DOMAIN G : f[i] = x}
    BY <1>4, <1>7 DEF Kept
<1> HIDE DEF f
<1>9. /\ Histogram(G, f)[x] = Cardinality({i \in DOMAIN G : f[i] = x})
      /\ \E i \in DOMAIN G : f[i] = x
    <2> HIDE DEF V, W
    <2>1. G \in Seq(Range(V)) /\ DOMAIN f = DOMAIN G /\ x \in DOMAIN Histogram(G, f)
        BY <1>3, <1>4, <1>7
    <2>2. Counts(Histogram(G, f), DOMAIN G, f)
        BY <2>1, HistogramCounts
    <2>3. Histogram(G, f)[x] = Cardinality({i \in DOMAIN G : f[i] = x})
        BY <2>1, <2>2 DEF Counts
    <2>4. \E i \in DOMAIN G : f[i] = x
        BY <2>1 DEF Histogram
    <2> QED
        BY <2>3, <2>4
<1>10. x # Absent
    BY <1>2, <1>4, <1>7, <1>9
<1>11. Kept(V, W \cap U) = shown
    BY <1>1, <1>6, <1>10 DEF Kept
<1> QED
    BY <1>3, <1>5, <1>8, <1>9, <1>11

\* The findings GraphQL counts for a scan job are those MCP returns of it, and the findings REST
\* returns for a validation are among those of MCP, with those of its own scan jobs among them.
LEMMA FindingsAgree ==
    ASSUME NEW snap, Readable(snap)
    PROVE  LET J == snap.scan_jobs
               V == snap.validations
               found == QueryFindings(snap, NotGiven)
           IN  /\ \A j \in Range(J) :
                     ScanJobView(j).findings_count = Cardinality({f \in found : f[1] = j})
               /\ \A v \in Range(V) :
                     /\ GetFindings(snap, snap, v.ns, v.name).body \subseteq found
                     /\ \A j \in Range(J) : j.ns = v.ns /\ j.parent = v.name =>
                           {j} \X j.findings \subseteq GetFindings(snap, snap, v.ns, v.name).body
<1> DEFINE J == snap.scan_jobs
           V == snap.validations
           found == QueryFindings(snap, NotGiven)
<1>1. found = UNION {{j} \X j.findings : j \in Range(J)}
    <2>1. \A j : {f \in j.findings : NotGiven \in {NotGiven, f.severity}} = j.findings
        OBVIOUS
    <2> QED
        BY <2>1 DEF QueryFindings
<1>2. ASSUME NEW j \in Range(J)
      PROVE  ScanJobView(j).findings_count = Cardinality({f \in found : f[1] = j})
    <2> DEFINE S == j.findings
               T == {f \in found : f[1] = j}
               p == [s \in S |-> <<j, s>>]
    <2>1. IsFiniteSet(S) /\ ScanJobView(j).findings_count = Cardinality(S)
        BY DEF Readable, ScanJobView
    <2>2. T = {j} \X S
        BY <1>1
    <2> HIDE DEF S, T
    <2>3. Pairs(p, S, T)
        BY <2>2 DEF Pairs
    <2>4. Cardinality(T) = Cardinality(S)
        <3> HIDE DEF p
        <3> QED
            BY <2>1, <2>3, SameSize
    <2> QED
        BY <2>1, <2>4 DEF T
<1>3. ASSUME NEW v \in Range(V)
      PROVE  GetFindings(snap, snap, v.ns, v.name).body
                 = UNION {{j} \X j.findings : j \in {k \in Range(J) : k.parent = v.name}}
    <2>1. v \in Get(V, v.ns, v.name)
        BY DEF Get
    <2> QED
        BY <2>1 DEF GetFindings, Ok, ChildFindings
<1> HIDE DEF found, J, V
<1>4. ASSUME NEW v \in Range(V)
      PROVE  /\ GetFindings(snap, snap, v.ns, v.name).body \subseteq found
             /\ \A j \in Range(J) : j.ns = v.ns /\ j.parent = v.name =>
                   {j} \X j.findings \subseteq GetFindings(snap, snap, v.ns, v.name).body
    BY <1>1, <1>3
<1> QED
    BY <1>2, <1>4 DEF found, J, V

\* The findings of finitely many scan jobs are finitely many.
LEMMA FindingsAreFinite ==
    ASSUME NEW snap, Readable(snap), NEW C \in SUBSET Range(snap.scan_jobs)
    PROVE  IsFiniteSet(UNION {{j} \X j.findings : j \in C})
<1> DEFINE J == snap.scan_jobs
           D == {i \in DOMAIN J : J[i] \in C}
           T == {{j} \X j.findings : j \in C}
           f == [i \in D |-> {J[i]} \X J[i].findings]
<1>1. J \in Seq(Range(J))
    BY DEF Readable
<1>2. IsFiniteSet(D)
    BY <1>1, SequenceIsCounted, FS_Subset
<1>3. ASSUME NEW j \in C PROVE \E i \in D : J[i] = j
    BY DEF Range
<1>4. \A t \in T : \E i \in D : f[i] = t
    BY <1>3
<1>5. f \in [D -> T]
    OBVIOUS
<1>6. IsFiniteSet(T)
    <2> HIDE DEF D, T, f
    <2>1. f \in Surjection(D, T)
        BY <1>4, <1>5 DEF Surjection
    <2> QED
        BY <1>2, <2>1, FS_Surjection
<1>7. ASSUME NEW j \in C PROVE IsFiniteSet({j} \X j.findings)
    <2>1. IsFiniteSet({j}) /\ IsFiniteSet(j.findings)
        BY FS_Singleton DEF Readable
    <2> QED
        BY <2>1, FS_Product
<1>8. \A t \in T : IsFiniteSet(t)
    BY <1>7
<1> QED
    BY <1>6, <1>8, FS_UNION

\* A copy of the scan jobs that are shown counts the findings REST lists, name by name.
LEMMA CopiesCount ==
    ASSUME NEW snap, Readable(snap), NEW v \in Range(snap.validations),
           CopyIsCurrent(v, snap.scan_jobs)
    PROVE  ValidationView(v).findings_count
               = Cardinality(GetFindings(snap, snap, v.ns, v.name).body)
<1> DEFINE J == snap.scan_jobs
           C == {j \in Range(J) : j.parent = v.name}
           I == UNION {{j} \X j.findings : j \in C}
           h == v.scan_jobs
           g == [i \in I |-> i[1].name]
<1>1. (\A j \in C : j.ns = v.ns) /\ h = Summaries(C)
    BY DEF CopyIsCurrent
<1>2. GetFindings(snap, snap, v.ns, v.name).body = I
    <2>1. v \in Get(snap.validations, v.ns, v.name)
        BY DEF Get
    <2> QED
        BY <2>1 DEF GetFindings, Ok, ChildFindings
<1>3. \A j, k \in C : j.name = k.name => j = k
    BY <1>1 DEF Readable, Range
<1>4. /\ DOMAIN h = {j.name : j \in C}
      /\ \A j \in C : h[j.name] = Cardinality(j.findings)
    <2>1. ASSUME NEW j \in C PROVE (CHOOSE k \in C : k.name = j.name) = j
        BY <1>3
    <2>2. \A j \in C : j.findings_count = Cardinality(j.findings)
        BY DEF Readable
    <2> HIDE DEF C, h
    <2>3. h = [n \in {j.name : j \in C} |-> (CHOOSE k \in C : k.name = n).findings_count]
        BY <1>1 DEF Summaries
    <2>4. ASSUME NEW j \in C PROVE h[j.name] = Cardinality(j.findings)
        <3>1. h[j.name] = (CHOOSE k \in C : k.name = j.name).findings_count
            BY <2>3
        <3> QED
            BY <2>1, <2>2, <3>1
    <2> QED
        BY <2>3, <2>4
<1>5. IsFiniteSet(I)
    BY FindingsAreFinite
<1>6. ASSUME NEW j \in C PROVE Cardinality({i \in I : g[i] = j.name}) = Cardinality(j.findings)
    <2> DEFINE F == j.findings
               T == {i \in I : g[i] = j.name}
               p == [s \in F |-> <<j, s>>]
    <2>1. T = {j} \X F
        BY <1>3
    <2>2. IsFiniteSet(F)
        BY DEF Readable
    <2> HIDE DEF F, T
    <2>3. Pairs(p, F, T)
        BY <2>1 DEF Pairs
    <2>4. Cardinality(T) = Cardinality(F)
        <3> HIDE DEF p
        <3> QED
            BY <2>2, <2>3, SameSize
    <2> QED
        BY <2>4 DEF F, T
<1>7. \A i \in I : i[1] \in C /\ g[i] = i[1].name
    OBVIOUS
<1> HIDE DEF C, I, g, h
<1>8. Counts(h, I, g)
    BY <1>4, <1>6, <1>7 DEF Counts
<1>9. Total(h) = Cardinality(I)
    BY <1>5, <1>8, TotalOfParts
<1> QED
    BY <1>2, <1>9 DEF ValidationView, CopiedCount, h

\* A key is the key of one validation: every face that takes a key finds that one.
LEMMA KeysAgree ==
    ASSUME NEW snap, Readable(snap), NEW v \in Range(snap.validations)
    PROVE  /\ GetObject(snap.validations, v.ns, v.name) = Ok({v})
           /\ GetGate(snap, v.ns, v.name) = Ok({v.gate})
<1> DEFINE V == snap.validations
<1>1. PICK i \in DOMAIN V : V[i] = v
    BY DEF Range
<1>2. ASSUME NEW w \in Get(V, v.ns, v.name) PROVE w = v
    <2>1. PICK k \in DOMAIN V : V[k] = w
        BY DEF Get, Range
    <2>2. w.ns = v.ns /\ w.name = v.name
        BY DEF Get
    <2> QED
        BY <1>1, <2>1, <2>2 DEF Readable
<1>3. Get(V, v.ns, v.name) = {v}
    BY <1>2 DEF Get
<1>4. {w.gate : w \in {v}} = {v.gate}
    OBVIOUS
<1> QED
    BY <1>3, <1>4 DEF GetObject, GetGate

\* No face contradicts another about one snapshot.
LEMMA AgreementOf ==
    ASSUME ProjInv
    PROVE  FacesAgree
<1> DEFINE snap == Snapshot
           S    == ComplianceSummary(snap)
           V    == snap.validations
           J    == snap.scan_jobs
<1>1. Readable(snap)
    BY SnapshotIsReadable
<1>2. "validations" \in Kinds
    BY ApiAssumption
<1>3. DOMAIN snap = Kinds
    BY DEF Snapshot
<1> HIDE DEF snap
<1>4. S.state = ComplianceState(snap) /\ (S.state = "Critical" <=> Len(S.blocking) > 0)
    BY <1>1, StatesAgree
<1>5. S.blocking = [i \in DOMAIN Mcp("list_blocked", snap) |->
                       Mcp("list_blocked", snap)[i].digest]
    BY BlockedAgree, ToolsReturn
<1>6. /\ Mcp("compliance_summary", snap).by_phase = S.by_phase
      /\ ListValidations(snap, Everything) = Mcp("list_validations", snap)
    BY ToolsReturn
<1>7. Total(S.by_phase) = S.total /\ S.total = Hello(snap).validations
    <2>1. S.by_phase = Histogram(V, PhasesOf(V)) /\ S.total = Len(V)
        BY DEF ComplianceSummary
    <2>2. V \in Seq(Range(V))
        BY <1>1 DEF Readable
    <2>3. DOMAIN PhasesOf(V) = DOMAIN V
        BY DEF PhasesOf
    <2>4. Hello(snap)["validations"] = Len(snap["validations"])
        BY <1>2, <1>3 DEF Hello
    <2> QED
        BY <2>1, <2>2, <2>3, <2>4, HistogramIs
<1> HIDE DEF S
<1>8. \A p \in DOMAIN S.by_phase :
          /\ p # "Unknown" =>
                Len(ListValidations(snap, [Everything EXCEPT !.phase = p])) = S.by_phase[p]
          /\ LET bySvc == ComplianceByService(snap)
             IN  S.by_phase[p]
                     = Total([s \in {t \in DOMAIN bySvc : p \in DOMAIN bySvc[t]}
                                 |-> bySvc[s][p]])
    BY <1>1, PhasesAgree DEF S
<1>9. \A x \in DOMAIN S.by_verdict :
          S.by_verdict[x] = Cardinality({i \in DOMAIN V : ValidationView(V[i]).verdict = x})
    BY <1>1, VerdictsAgree DEF S
<1>10. /\ \A j \in Range(J) :
             ScanJobView(j).findings_count
                 = Cardinality({f \in Mcp("query_findings", snap) : f[1] = j})
       /\ \A v \in Range(V) :
             /\ GetFindings(snap, snap, v.ns, v.name).body \subseteq Mcp("query_findings", snap)
             /\ \A j \in Range(J) : j.ns = v.ns /\ j.parent = v.name =>
                   {j} \X j.findings \subseteq GetFindings(snap, snap, v.ns, v.name).body
    BY <1>1, ToolsReturn, FindingsAgree
<1>11. \A v \in Range(V) : /\ GetObject(V, v.ns, v.name) = Ok({v})
                            /\ GetGate(snap, v.ns, v.name) = Ok({v.gate})
    BY <1>1, KeysAgree
<1>12. \A v \in Range(V) : CopyIsCurrent(v, J) =>
          ValidationView(v).findings_count = Cardinality(GetFindings(snap, snap, v.ns, v.name).body)
    BY <1>1, CopiesCount
<1> HIDE DEF V, J
<1> QED
    BY <1>4, <1>5, <1>6, <1>7, <1>8, <1>9, <1>10, <1>11, <1>12
    DEF FacesAgree, Mcp, S, V, J, snap

\* Whatever objects the cluster holds and however the informers relist, REST, GraphQL, the
\* WebSocket and MCP never contradict each other about one snapshot: what blocks and how bad it
\* is, what the counts add up to, what a filter returns, what is found under a key, and how many
\* findings there are; of a validation's own counter, which is a copy, while it is current.
THEOREM FacesTellOneStory == Spec => []FacesAgree
<1>1. Spec => []ProjInv
    BY ApiRunsTheProjection, ProjectionInvariance, PTL
<1> QED
    BY <1>1, AgreementOf, PTL
=============================================================================
