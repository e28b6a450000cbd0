# Formal model of engenho-promessa-controllers

TLA+ modules, TLC configurations and TLAPS proofs about this repository: the
reconcilers that take a container image from "pushed" to a gate verdict, the pure gate
that decides, the loops and the git pipeline that act on its decision, the stream of
events about it, the API and the store people read it from, and the command line that
pushes the images.

Contents: [the system](#1-the-system), [modules and code](#2-modules-and-the-code-they-model),
[runs](#3-what-is-checked), [bounds](#4-bounds), [fairness](#5-fairness),
[proofs](#6-what-is-proved), [disagreements with the docs](#7-where-the-code-and-its-docs-disagree),
[not modelled](#8-what-is-not-modelled), [plan](#9-plan).

## 1. The system

One process (`validation-controllers::run_all`, wired by `engenho-promessa`) runs
three kube-rs controllers and two watcher loops. They share no memory but the
context's clients: everything they tell each other goes through objects on the
Kubernetes API server. Beside them stand an API that projects those objects, a
database of rows about them, a NATS stream, and the command line that pushes images.

| Component | State it keeps | Operations | Talks to | Modelled by |
|---|---|---|---|---|
| `image_validation` controller | `status` of an AkeylessImageValidation: phase, evidence hash, gate decision | one handler per phase: pending, provisioning, scanning, aggregating, attesting, gating; one merge patch at the end | creates the tenant and the ScanJobs, lists them, calls the gate | ImageValidation, GatePromise, GateDecisions |
| `scan_job` controller | `status` of a ScanJob: phase, findings | fork the Job, advance, collect the result, patch | Kubernetes Jobs, pods and logs; the parsers | ScanJobController |
| `ephemeral_tenant` controller | phase of an AkeylessEphemeralTenant | assess the DAST target, reap on Teardown, patch | the target's Service | EphemeralTenantController |
| `security-controller` | none (pure) | `diff`, `classify`, `decide` | called by handle_gating | SecurityGate, GateObservations |
| events publisher | a NATS connection or none, settled at start | publish; `emit_post_patch`, `emit_findings_recorded` | NATS | PostureEvents |
| `action_dispatcher` loop | `DedupeSet` of decisions taken up | handle an object version: dedupe, execute, persist | its watch, `ActionExecutor`, the store | ActionDispatcher |
| `outcome_chain` loop | none | handle an object version: build a receipt, patch | its watch, the API server | OutcomeChain |
| `reconciler-engine` | handler table | `execute` (Compose), `dispatch`, one `act` per reconciler | Cartorio, the registry, Harbor | ActionExecutor |
| `flux_commit` reconciler | a clone of the moment | clone, read, merge, commit, push | a git remote | FluxCommit, JsonMerge, GitopsPromise |
| `private-push` | a port-forward child, the images captured so far | substrate, akeyless, push-and-submit, submit-validations | nix, skopeo, cosign, kubectl | PrivatePush |
| `validation-api` projection | one map per kind of object, behind a lock | informer events, reads | watches | ValidationProjection |
| `validation-api` routes and bridge | none; the bridge, the line it waits on | REST, GraphQL, WebSocket, MCP, gRPC reads; `mcp-proxy` | the projection, the store | ValidationFaces, ValidationApi |
| `validation-store` | tables validation_runs, scan_jobs, findings, provenance, outcomes | upserts, appends, queries | database | ValidationStore |
| `scanner-catalog` | none | catalog of Job templates, one parser per scanner | called by scan_job | in ScanJobController's `Outputs` |
| `validation-jobs` | a graph of scan jobs | build the graph | a scheduler outside the repository | not modelled |

### What is hard about it

* **Stale caches.** kube-rs hands a reconcile the cached object. After a patch the
  requeue timer can fire before the watch event arrives, so the same handler runs
  again on the old phase. Every status patch is a merge patch without
  `resourceVersion`: it always lands, on whatever the object has become.
* **Whole-status patches.** A handler clones the cached status, changes it and
  patches all of it; a merge cannot remove a key, so fields absent from the new
  status, and the keys of an action replaced by `{}`, stay.
* **Several calls per reconcile.** Creating children, listing them, patching and
  publishing are separate calls; any can fail, and the process can die between them.
* **Partial results.** A Job can fail, be retried, expire, or leave a log nobody can
  read or parse; the ScanJob still becomes Attested.
* **Read twice.** The evidence hash and the gate each list the children. private-push
  asks the registry for a tag's digest after every copy, and once more to sign it.
* **Redelivery.** The two loops see an object version on every write to it, on every
  relist and after a restart; versions superseded while a watch is down are skipped.
* **External effects.** A plan is several calls to services that can time out after
  the effect has landed; a crash repeats the plan from its first step.
* **Shared things nobody locks.** A git branch, a registry tag, a laptop's port, the
  `result-<service>` link of a checkout, a row read and then written.
* **Partial views.** A relist empties a map and refills it object by object while
  readers go on; four faces compute the same facts from different fields.

### What makes each component correct

* A validation moves forward along its documented chain, is not gated before its
  scans are in, decides once, on the evidence it hashed, and always decides; its
  decision, phase and hash agree; it fails only for a critical CVE that is there.
* A ScanJob moves forward, has one Job, and records the findings of a scan once.
* A tenant becomes Ready when its target is, and stays reaped once reaped.
* The gate's severity follows the observations monotonically, it forwards exactly the
  clean images and none while a sibling is in trouble, and its corrections remove the
  drift they are for.
* A subscriber of the events never sees a validation go back, and hears of every
  decision unless something was lost.
* A plan runs in order, each step after the previous one succeeded, at most once per
  process; decisions are executed in the order they were made; the latest plan ends
  up in force if its calls succeed; a decided validation gets a receipt.
* A file under gitops changes by whole patches of what is there: nobody's commit is
  overwritten, no patch is committed on top of itself, an outcome tells the truth.
* A push captures what it pushed or what was pushed over it, never something older;
  exit code 0 means that every service has a validation.
* A reader of the API sees objects that were in the cluster together, and the same
  story on every face; the bridge answers each line, in order, under its id.
* The store keeps what it records once, and a run read as terminal says since when.

## 2. Modules and the code they model

```
 Platform                          SecurityGate (pure)
   |                               /     |      \
 ScanJobController   EphemeralTenant..   |    GateObservations -- MCGateObservations
        \              /                 |        |
         ImageValidation ----------------+    GateProofs
          |     |     \   \  (INSTANCE)  |
          |     |      \   GatePromise, GateDecisions
          |     |   PostureEvents        |
          |     |     |      \           |
          |     |     |  MCPostureEvents |
          |   MCImageValidation     DecisionWatch   ActionExecutor
          |               |              |      \        /
          |               |        OutcomeChain  ActionDispatcher
          +--- DecisionProofs            \       /
                                     DecisionConsumers -- MCDecisionConsumers
                                         |
                                   ConsumerProofs --(INSTANCE)-- GateDecisions

 JsonMerge                                   ValidationProjection   ValidationFaces
    |                                                 \          /
 FluxCommit --(INSTANCE)-- GitopsPromise            ValidationApi -- MCValidationApi
    |    \                                               |
    |   MCFluxCommit                              ProjectionProofs
    |                                                    |
 FluxCommitProofs ------------------(INSTANCE)----- NatRecursion

 PrivatePush -- MCPrivatePush                ValidationStore -- MCValidationStore
    |                                           |
 PushProofs                                  StoreProofs
```

**Platform** – the scanners, what they can report, and `Faults`: the kinds of fault
an instance is exposed to. A fault action is enabled only when its kind is in
`Faults`, so every lifecycle run uses one specification.

**ScanJobController** (`scan_job.rs`) – `sj` is the ScanJob on the API server,
`sjCache` its phase in the watch cache, `sjRun` the patch of the reconcile in flight,
`job` the Kubernetes Job, `truth` what a complete scan would report. `SJFork`,
`SJAdvance` and `SJCollect` are the arms of `reconcile`; `SJPatch` is `patch_phase`;
`SJObserve` the watch; `JobSucceeds`, `JobAttemptFails`, `JobExpires` the cluster.
`Outputs` is what `collect_results` and `parse_scanner_output` can return: everything
of a successful pod, part of a failed attempt's output (the first pod listed may be
one of those), or nothing. `stamp` counts collections because `make_finding` stamps
`first_seen` afresh, which changes the hashed bytes. `source` is a history variable.

**EphemeralTenantController** (`ephemeral_tenant.rs`) – `TenantAssess`, `TenantReap`,
`TenantPatch`, with the target's Service and an operator who sets Teardown.

**ImageValidation** (`image_validation.rs`) – composes the two with the parent's
reconciler. `iv`, `ivCache`, `ivRun` are object, cached copy and reconcile in flight.
A handler is one action per API call that others can see: `IVPending` and `Provision`
create the tenant, `IVCreateScanJob` is one turn of the creation loop, and each
handler ends in `IVPatch`, whose `Merge` is the API server's merge. `Snapshot` is
`build_security_snapshot`, `Decided` calls the operators of SecurityGate,
`DecidedAction` is the action's class after the scan-only filter. `evidence` and
`judged` hold what the hash covers and what the gate saw.

**GatePromise** – the abstract specification of a validation for whoever reads its
status: fix the evidence once, then decide once, by that evidence. ImageValidation
instantiates it (`Promise`) with `Stage` as refinement mapping.

**GateDecisions** – the abstract specification of the decision for the loops that act
on it: a decision is one step, later than all before it; its action replaces the one
before it unless it asks for nothing, which a merge patch cannot say. ImageValidation
instantiates it as `Announced`.

**PostureEvents** (`events_publisher.rs`, `emit_post_patch`, `emit_findings_recorded`)
– extends ImageValidation with what its reconciles publish after a patch. `publisher`
is the connection, settled once by `from_env`; `started` the cached status a reconcile
began with, which `EmitPostPatch` compares with the status it patched; `emitting` and
`recording` what the reconciles in flight have left to publish. `heard` is the stream
as one subscriber folds it, `lost` what it missed and was not told again. `Restart`
loses every reconcile in flight with its events and lists the caches afresh.

**SecurityGate** (`security-controller/src/lib.rs`) – `Diff`, `Classify`, `Decide` and
`VerdictOf` as operators over snapshots. The `Vec`s of a drift are sets: their order
only matters inside a plan.

**GateObservations** – the gate under observations that get worse (a finding appears
or ages, Cartorio withdraws) or better (an exception, an attestation, a report, an
admission).

**DecisionWatch** – the part of the status the loops read, and the versions each
watch has yet to deliver. `Publish` is any write; `Relist` replaces what a watch had
pending by the current object. `decidedAt` is a counter: `Utc::now()` of successive
decisions differ, and the dedupe key only compares them for equality.

**ActionExecutor** (`reconciler-engine`) – `Act` is every outcome and effect one step
can have: no handler, a spec that does not deserialize (a spec is its set of fields),
a closed flag, already converged, applied, or failed with the effect landed or not.
`Continues` is the Compose loop's short circuit.

**ActionDispatcher** (`action_dispatcher.rs`) – `Handle`, `Execute` (one step of the
plan per action), `Persist`. `seen` is the DedupeSet; `calls` is a history.

**OutcomeChain** (`outcome_chain.rs`) – `ChainHandle` builds the receipt from the
event's version, `ChainPatch` puts it on the object.

**DecisionConsumers** – both loops on one validation in one process, with `Restart`.

The two compositions meet at the gate decision, and GateDecisions is what one gives and
the other takes: ImageValidation implements it (`DecisionsAreAnnounced`), and every step
it allows on the object is a `Gating` step of DecisionConsumers (`EveryDecisionIsTaken`).
They are checked apart because neither loop writes anything the reconcilers read
(`outcomeReceiptRef` is read by the chain only), so their product would only multiply
states.

**FluxCommit** (`reconcilers/flux_commit.rs`) – `history` is the branch, `act[w]` a
writer's call between two git commands: `Clone`, then `GiveUp`, `Converged` or
`Commit`, then one of `SkipPush`, `Push`, `PushRefused`, `PushUnheard`; `GitFails` and
`Crash` between any two. The remote takes a push only on top of the commit that was
cloned. **JsonMerge** is `merge_json` itself, which FluxCommit extends: `MergeMembers` is
one call of it with `merge` for the calls it makes, `MergeUpTo[n]` the recursion for
documents whose objects nest n deep. `MergedAsAsked` is the reference: it does not recurse
over two documents but walks down one path at a time. **GitopsPromise** is the abstract specification: the file changes by one
whole patch of what it holds at that moment, or by somebody else's commit.

**PrivatePush** (`private-push/src`) – one process per invocation, all four
subcommands command by command: `SpawnForward` and `AwaitForward` (kubectl settles or
dies on its own), `Login`, `NixBuild`, `DiscoverTag`, `SkopeoCopy`, `InspectForSign`,
`CosignSign`, `CaptureDigest`, `ApplyPushed`; `FetchCatalog`, `ListTags`,
`HeadManifest`, `SubmitFound` or `Skip`. `copies` is the registry (every copy that
landed, in order), `link` the result links of the checkout, `crs` the validations
applied. A port in use by another invocation's kubectl answers all the same.

**ValidationProjection** (`projection.rs`) – `revisions[c]` is the history of a kind on
the API server, `inner[c]` the map, `watcher[c]` the state of the kube-rs watcher; one
action per event the closure of `spawn_informers` applies, plus lists that fail,
watches that expire, restarts. **ValidationFaces** are the reads of REST, GraphQL,
WebSocket and MCP as functions of a snapshot, authentication included; `Where` is a
filter that keeps the order, `StateOf` the loop over the validations. GraphQL counts
findings by counters in the objects: `RecordedCount` is the one `patch_phase` writes next
to a ScanJob's findings, `Summaries` what `handle_scanning` copies of the children into
the validation, `CopiedCount` the sum that is shown.
**ValidationApi** composes both with the stdio bridge (`mcp_proxy.rs`): `ReadLine`,
`Answer`, `TimeOut`, and `ApiRestarts` under changing credentials.

**ValidationStore** (`validation-store/src/ops`, `grpc.rs`) – a call takes its time,
reads (`Find`), and then writes (`Insert`, `Update`) what it computed from the row it
read, on the row that is there; `lapped` is a history of rows with overlapping calls.
The gRPC reads are operators over the tables; `ListValidations` is the set of answers a
request with a phase, a namespace and a limit may get, since rows seen at the same time
come in any order.

## 3. What is checked

Run a configuration with `tlc -config <cfg> <module>`.

| Run | Question | Result |
|---|---|---|
| LifecycleFaults | One scanner, all seven faults. Do phases only advance (`PhasesNeverRegress`)? Do phase, hash and decision agree (`DecisionMatchesPhase`)? Has every failure a critical CVE behind it (`FailedIsJustified`)? Is a revoke action only ever next to a failure (`RevokeOnlyWhenFailed`)? Do action and time of a decision change together, one decision at a time (`AnnouncesEveryDecision`)? | hold, 2.7 M states |
| LifecycleLag | Two scanners, lag and aborts, complete scans. Does the invariant of the proofs hold (`IInv`, types included), is nothing gated early (`GateAfterScans`), is the verdict exact (`VerdictIsExact`)? | hold, 0.15 M states |
| LifecyclePromise | Two scanners, prompt watch, failing, unreadable and expiring scans. Does the system implement GatePromise (`ImplementsPromise`)? Can anything but an expired Job keep a validation from being decided (`DecidedUnlessScanLost`)? | holds; no; 0.34 M states |
| Gate | Two digests, one finding each. Is exactly what is clean forwarded, to the day of each tolerance, and nothing while a sibling is in trouble (`ForwardsExactlyTheClean`)? Does the verdict follow the observations (`VerdictFollowsObservations`)? Does a functional correction suffice (`CorrectionSuffices`)? | hold, 16 k states |
| Events | The lifecycle with a broker that may refuse, fail or be away, parents that cannot be read, one restart. Is what is neither lost nor still to be sent heard (`NothingUnheard`)? Does a subscriber ever see a validation go back (`SubscribersMoveForward`)? Is every decision heard unless lost (`DecisionsAreHeard`)? | hold, 0.27 M states |
| Dispatch | Two decisions, one restart, relists, outages, failing patches. `StepsFollowSuccess`, `OncePerProcess`, `DecisionsInOrder`, `ReceiptsMoveForward`, `CorrectionLands`, `ReceiptLands` | hold, 0.55 M states |
| Flux | Three writers, one of them dry-run, and other committers. Is anything overwritten (`NoLostUpdate`), committed twice (`NoDoubleCommit`), misreported (`OutcomeIsTrue`), or changed beside the patch (`PatchesOnlyWhatItNames`)? Is it an atomic patch (`KeepsPromise`)? | hold, 0.28 M states |
| Push | Two invocations of any of three subcommands on one laptop. `CaptureIsNotStale`, `DoneMeansSubmitted`, `PortIsALock`, `ValidationsNameImages`, `EveryInvocationEnds` | hold, 0.24 M states |
| Api | Two validations and a scan job, one lost watch or restart, three lines on the bridge. `ReadersSeeOneState`, `FacesAgree`, `AnswersPairUp`, `CatchesUp`, `EveryLineIsAnswered` | hold, 0.20 M states |
| Store | Two callers on the rows of two runs and one digest. `AuditReadsAgree`, `RecordedOnce` (the end of a run only while no upserts of it overlap) | hold, 0.43 M states |
| ClaimEveryScannerRan, ClaimLoopCloses | One statement of a doc each, see section 7 | violated |

What the passing runs show beyond a unit test: that forward-only phases survive
unconditional patches from stale objects; that the creation loop can be cut at any
point; that a scan's partial failure can hide a critical CVE but never invent one;
that the promise to readers needs a prompt watch (with lag the decision can be taken
twice, section 7); that a plan repeated after a crash goes on to the steps it had not
reached, because an effect already there counts as success; that the comparison in
`emit_post_patch`, made with the object a reconcile *started* from, still misses no
change; that a refused push is all the locking the gitops branch needs; that a port is
a lock between pushes exactly as long as no forward dies; that a relist shows a part
of one list, and never objects of two.

Every property of a passing run has a mutant in `PROJECT.json`: a plausible bug in a
definition that TLC finds through that property.

## 4. Bounds

* `MaxDecisions` (2), `MaxCollections` (2): counters of gate decisions and result
  patches. A stale reconcile can repeat either; two is the first repetition, and a
  third repeats the argument of the second. The proofs are for every bound.
* Scanners: one where every fault is on, two where the interplay of children matters.
  Children interact only through `Children`, `AllTerminal` and `Union`.
* `Found` has one finding: the gate asks whether a critical CVE is in the union.
* Events: lag and the faults of the broker; the faults of scans change what is found,
  which the events only carry. One restart with a second boot of the publisher: what a
  restart loses is what was in flight, and a second one finds the same state.
* GateObservations: two digests, one finding per digest out of one per branch of
  `diff`, High and Medium on the last tolerated day, `MaxDays` 1 so that the boundary
  is crossed. With one finding per digest every pair of drift entries still meets
  across digests.
* DecisionConsumers: plans of three steps (what `decide` emits for a critical CVE) and
  one (forwarding), `MaxDecisions` 2, `MaxRestarts` 1. The relists are unbounded. The
  Dispatch run gives steps the spec fields their reconcilers require, since with the
  fields `decide` writes every plan ends at its first step (section 7).
* FluxCommit: three writers, `ActLimit` 3 calls in all and `EditLimit` 1 foreign
  commit: a call, its redelivery and a competing call, with a commit in between. The
  documents are two objects deep, with a patch that sets, one that deletes, a member
  that is no object where the patch has one, and a file that is not YAML.
* PrivatePush: two invocations, two services, two images, one shared port. What is
  shared is shared pairwise. The first 12 digits of a digest are taken to tell digests
  apart (`PushAssumption`).
* ValidationApi: two objects of a kind so that a list can be half applied, `MaxWrites`
  2 and 1, `MaxLosses` 1. The validations have copied the summary of the scan job when it
  was attested with two findings, and when it was still running: the copy the snapshot
  shows is current, late, early, or of a scan job that is gone. The lines of the bridge are a request, a blank line and JSON
  that is no request; a line that does not parse only differs by its null id.
* ValidationStore: two runs in two namespaces, lists cut to nothing and to one row,
  `MaxClock` 4 starts of calls: an insert, its first update, and two that overlap it or
  write the other rows. Observed phases: one that is terminal, one that is not.

`CHECK_DEADLOCK FALSE` is set where the system may stop: a validation that is decided
and observed has nothing left to do, and neither have a loop with an empty stream,
writers and invocations that are through, and readers and callers at their bounds.

## 5. Fairness

* Weak fairness of each reconciler: kube-rs requeues every object (15 s, 30 s after an
  error), so a reconcile that stays possible happens.
* Weak fairness of the watch: it delivers or relists.
* Weak fairness of `JobSucceeds`: a pod ends. With the `attempt` fault it may fail
  first; a failed Job is collected as well.
* Weak fairness of `ServiceUp`, where a target is in the cluster: it is deployed. If
  it never is, the tenant stays in PodsRunning by design.
* Events: publish returns, one way or the other.
* Weak fairness of each watcher loop: its HTTP calls time out after 15 s. The `git`
  and `skopeo` subprocesses have no timeout: the liveness properties of
  DecisionConsumers assume they end.
* private-push: a subprocess ends, with success or with an error, and kubectl binds its
  port or exits. `wait_for_line` ends with kubectl's output in any case.
* The bridge: it reads the next line, and every request has a deadline. The projection:
  events are applied and a failed list is repeated after five seconds; **strong**
  fairness of `Listed`, for a list that is asked for again and again is answered in the
  end; the watch delivers.
* FluxCommit, GateObservations and ValidationStore have no liveness property and no
  fairness: a call may fail at any point and nobody repeats it.
* Faults, operators, writers and new decisions are never fair.

## 6. What is proved

Eight modules hold proofs, all for arbitrary constants under the assumptions named at
the end of this section. Every invariant and every safety property over steps that a
passing run checks is a theorem.

**DecisionProofs** – first how a validation moves: `TypeCorrect`, `Invariance` (`Spec => []IInv`),
`GateComesAfterScans` and `PhasesMoveForward`, for every finite set of scanners, every
`Found`, every subset of the faults and every bound.

`PhasesNeverRegress` is not inductive: a patch carries a phase computed from a cached
object, and one must know how old that object can be. `IInv` says it:

* `ScanJobsTrail`, `ValidationTrails`: a cache trails its object by at most one phase,
  and the patch in flight is neither behind the object nor further than one phase
  from the cache. It is so because the object only moves by the patch of the one
  reconcile, each moves one phase from the *cached* one, and the cache must catch up
  before the next phase can be written. A stale reconcile can therefore repeat the
  last transition and do nothing worse.
* `ChildrenKeepUp`: what a phase implies of the tenant and the ScanJobs, stated of the
  object and of the patch in flight alike (`Reached`). It gives `GateAfterScans`: the
  code compares the children it finds and never the list of required scanners, and is
  right only because Scanning is not entered before every ScanJob exists.

Then what is decided. `DecidedIs` computes the gate on a validation's
snapshot: it fails exactly for a critical CVE in the union, and outside the scan-only
mode there always is an action, for no attestation is present.

* `DecisionsMatch`, `FailuresAreJustified`, `RevocationsStand`, under every fault. (That
  a failure is justified says nothing of the converse: a scan cut short hides a finding,
  section 7.) The
  strengthening `DecisionInv` says that *every* status there is, on the API server, in
  the cache or in flight, agrees with itself (`Agrees`), and that no finding on its way
  to a ScanJob is made up (`FromTruth`). `MergeAgrees` is the heart: the merge of two
  statuses that agree agrees, as long as the new one is not behind the old one, which
  is what `IInv` knows. That a merge cannot remove the action of an earlier decision
  does no harm because a decision outside the scan-only mode replaces it, and in the
  scan-only mode there is none.
* `VerdictsAreExact`: without failing attempts, lost logs and expiring Jobs the verdict
  fails exactly the images with a critical CVE, whatever lags or is aborted.
* `PromiseKept`: without lag, and under all other faults, the composed controllers
  implement GatePromise. `PromiseInv` adds that a collection starts from a ScanJob that
  is still Running and a reconcile from the object as it still is; once all scans are
  in, the union therefore never changes, so that what is hashed is what is judged.

* `DecisionsAreAnnounced`: under every fault, lag included, the decision on the object
  implements GateDecisions. With lag a validation is decided twice, the second time from
  an undecided cached status; `Timed` adds to `DecisionInv` that a decision in flight is
  one later than the one on the object, which holds because only handle_gating builds a
  decided status (`OnlyTheGateDecides`) and nothing but its own patch can come between.
  The dispatcher tells decisions apart by that time alone.
* `SubscribersMissOnlyTheLost`, `AnnouncementsMoveForward`, of PostureEvents. The
  comparison behind an event is made with the status the reconcile *started* from, which
  may be older than the one its patch replaced. `EventsInv` says why that is enough:
  what is left to send is true of the object (`Truthful`), a reconcile in flight started
  undecided, from a phase no later than the object's, with nothing of an earlier one left
  to send (`Undecided`), each ScanJob's findings go out before its next reconcile
  (`OneAtATime`), and the subscriber has folded whatever is neither lost nor left
  (`Folds`, `Records`). Both hold across restarts.
* `PromisesOutliveRestarts`: the safety properties of the lifecycle above hold of the
  specification with restarts and events, too (that of `ImageValidation` has neither).

**GateProofs** – `TypeCorrect`, `VerdictsFollow`, `ForwardsAreClean` and
`CorrectionsSuffice`, for any digests, scanners, attestations and findings, any number
of findings per digest included. The lemmas reduce `Gate` to two predicates over the
digests (`InTrouble`, `InRepair`); what gets worse can only make them true, what gets
better only false. Forwarding is what they leave: neither of them, and of the digest
itself an admission and no Medium CVE past its tolerance (both directions).
`VerdictsFitSeverities`, for any observations: the verdict is Failed
exactly when the severity is Critical.

**ConsumerProofs** – `PlansRunInOrder`, `NoProcessRepeats`, `NoDecisionComesBack`, for
any set of plans and any number of decisions, restarts and relists. `ConsumersInv`:
the dispatcher's stream is in the order of the decisions and not behind what was
executed; what a process has executed is among what it has seen; the last call of the
plan in flight is the step before its index. `ReceiptsNeverGoBack` says the same of the
receipts: no version the chain has yet to see wants a receipt and is of a decision before
the one that has one, nor before the one being signed (`ReceiptsAhead`).

**NatRecursion** – `Induction` over a set of numbers, from well-foundedness, and
`Recursion`: the function a primitive recursion defines exists, so that a proof may
unfold it. Both are arithmetic and say nothing of the program; the proofs below rest on
them. A module that proves about a recursive function instantiates it with that
function's base and step; with the predicate written as a set and the operators given by
the instance, no theorem needs an operator as a parameter.

**FluxCommitProofs** – of `merge_json`, for documents of any nesting depth over any names
and scalars: a merge of documents is a document (`MergeCloses`), merging a patch twice
changes nothing (`MergeSettles`), and down every path the merge is what the patch says,
or what was there where the patch is silent (`MergeIsAsAsked`). The first two go by
induction over the depth. The third goes by induction over the path, with a statement for
each prefix of what the three walks, down the document, the patch and the merge, have
found (`Standing`); one step of the walk is `WalkStep`. Then of the reconciler:
`UpdatesAreNotLost`, `PatchesKeepTheRest`, `CommitsAreNotDoubled`, `OutcomesAreTrue` and
`Implements` (`Spec => KeepsPromise`), for any number of writers and calls. The
strengthening is `ClonesAreTrue`: what a call holds between two git commands is the
commit it cloned, by its number in the history, or its own patch of that commit, which
was a document then.

**ProjectionProofs** – `ReadersNeverMix`, for any kinds, keys and values. The invariant
says for each state of a watcher what its map holds: nothing while the list is asked
for, the list's objects but those still to be handed out while it is applied, the
revision it is at while it watches. `ApiRunsTheProjection` shows that the API with its
bridge implements the projection, hence `RequestsReadOneState`. `EveryAnswerPairsUp`, for
any lines and any answers: the number of answers is the number of lines dealt with that
want one, and the answer to a line is at the position that number gives it.
`FacesTellOneStory` is about the data: from the invariant of the projection a snapshot
has each object from a key of its own (`SnapshotIsKeyed`), and on any such snapshot each
conjunct of `FacesAgree` is a lemma. They rest on three facts: what `Where` leaves, and
how much of it, by the bijection that takes the n-th wanted place to n (`WherePicks`,
`WhereCounts`); that the parts of a histogram make up the whole (`TotalOfParts`); and that
the loop over the validations ends with the worst of them wherever it stands
(`WorstDecides`), by induction over the loop. Of the counters of findings it shows that
a ScanJob's is the number of findings MCP lists, and that a validation's, which is a
copy, is the number REST lists while the copy is of the scan jobs in the snapshot
(`CopiesCount`); of a copy that trails them it says nothing.

**StoreProofs** – `AuditsAgree`, `TerminalRunsAreStamped` and `RecordsStay`, for any
callers and clock. The invariant: what a call has read is still what the row holds,
except for rows on which two calls overlapped; and a terminal phase is never written
without a stamp, because the stamp is computed from the very phase that is written. The
rest of `AuditsAgree` says that the services read the same rows. `RecordsStay` exempts the
time a run ended on rows whose upserts have overlapped, where the later write takes the
stamp back or replaces it.

**PushProofs** – `CapturesAreNotStale`, `PushesAreSubmitted`, `PortLocks` and
`ValidationsAreOfImages`, for any number of invocations, services, tags and ports.
`PushInv` has one part per hazard:

* `Progress`: how many images an invocation has captured, and of how many it has applied
  a validation, at each of its calls;
* `OwnCopy`, `NotStale`: between its copy and its capture, what it copied is in the
  registry under the tag it works under, so that whatever the registry answers is that
  copy or a later one over it. Copies are only appended, so what is captured never
  becomes older than that;
* `Lists`: `submit-validations` only asks for tags that are there, of images that are;
* `HoldsPort`, `Locked`, `OneForward`: until a forward is lost, the invocation that pushes
  through a port is the only one that has it, and nobody on the port has copied over
  what it is about to capture or sign.

Assumptions, each named where its constants are declared and evaluated by the runs:
`PlatformAssumption`, `CollectionsAssumption`, `DastAssumption`, `GateAssumption`,
`WatchAssumption`, `RestartAssumption`, `ObservationsAssumption`, `FluxAssumption`,
`ProjectionAssumption`, `StoreAssumption`, `ApiAssumption`, `EventsAssumption`,
`PushAssumption`, `JsonAssumption`, `ObjectsAssumption`. `ApiAssumption` asks that the
bridge and the API read the same id in a line (both parse the same JSON);
`ObjectsAssumption` that an object is kept under its own key, that a ScanJob's counter is
the one `patch_phase` writes with its findings, that a filter which is not given is no
phase, and that a decision on an object has the verdict that goes with its
severity, which `VerdictsFitSeverities` says of the gate that writes both in one patch;
`JsonAssumption` that objects, null, other values and missing members are told apart;
`PushAssumption` that the suffix of a name tells digests
apart. One reconcile per object at a time is what kube-rs
guarantees within a process, and is built into `ivRun` and `sjRun`: the theorems are
about one replica.

Only model-checked is every liveness property (`DecidedUnlessScanLost`,
`DecisionsAreHeard`, `CorrectionLands`, `ReceiptLands`, `EveryInvocationEnds`,
`CatchesUp`, `EveryLineIsAnswered`): liveness under fairness and anything about ENABLED is
out of the prover's reach. So is the induction over a datatype, with an operator as its
parameter; where the models recurse, over the depth of a document, a path and a list, the
proofs go by induction over a number instead.

What the attempts showed about the models: the arms of a `match` in `handler` and
`tools_call_response` were CASE arms with overlapping guards, of which TLA+ promises no
order and TLC takes the first (ValidationFaces now nests them as the code does);
PrivatePush had used, without saying so, that the suffix of a validation's name tells
digests apart and that its configuration is of the expected types. The reference for
`merge_json` had been wrong where a patch puts an empty object over an atom, which the
two-level vocabulary of the run never did: `MergedAsAsked` is the corrected one.
GitopsPromise had allowed patches of a file that is not YAML, which the reconciler gives up
on. And the faces agree only because the gate keeps verdict and severity in step: REST
takes what blocks from the one, GraphQL from the other.

## 7. Where the code and its docs disagree

Two runs check what a text of the repository says and end in a counterexample.

* **ClaimEveryScannerRan** – scan_only says `missing_scanners` still proves every
  scanner ran; a child whose Job failed, expired or left a log that does not parse
  counts as reported. (The parsers' doc says malformed output becomes Failed: it
  becomes Attested, without findings.)
* **ClaimLoopCloses** – flux_commit.rs says the loop from `decide` to a pushed commit
  is closed; the plan's first step carries a spec its reconciler cannot deserialize,
  and the Compose stops before the FluxCommit. The counterexample has no fault and
  dry_run off.

Others were met while modelling and have no run of their own. The models behave as the
code does.

* `is_terminal` says there are no further reconciler-driven transitions; a reconcile
  from a stale Gating decides again, and may change the verdict. `PromiseKept` needs a
  prompt watch for that reason.
* scan_job.rs (84-87) calls the emission idempotent because later reconciles see
  Attested; a stale Running collects and emits again.
* ephemeral_tenant.rs calls Reaped a terminal phase; a stale PodsRunning patches over
  it, and over the Teardown before it.
* The scan-only gate is said to judge CVE, SAST and DAST findings; `diff` skips
  findings without a cve_id, so a critical secret passes.
* `emit_reconciler_dispatched` is to emit a partial event when the run row is missing
  (action_dispatcher.rs:235-240): it returns without publishing. No production code
  writes a run row (`upsert_validation_run` has no caller), so the event is never sent
  and the gRPC services read an empty store.
* Upserts stamp `terminal_at` once (upsert.rs:32-34): only while no two upserts of the
  row overlap. Two first inserts of one key end in a primary key error for one of them.
* `spawn_informers` speaks of exponential backoff (projection.rs:59): `run_watcher`
  sleeps five seconds every time.
* private-push says a captured digest is the pushed one (orchestrator.rs:78-79): with a
  forward that dies it may be somebody else's push to the same tag.
  `CaptureIsNotStale` says what remains true.
* `validation-api mcp-proxy` builds a runtime and blocks on it inside `#[tokio::main]`
  (main.rs:140-143), where block_on panics: ValidationApi models `run` itself.
* A rescan request is acknowledged and recorded nowhere (rest.rs:214-228);
  `query_findings` ignores age_days (mcp.rs:111); MCP's compliance_summary has no
  blocking count (mcp.rs:126), so `FacesAgree` compares the others.
* GraphQL's findings_count of a validation sums the summaries handle_scanning copied into
  the validation (graphql.rs:109-111). They trail the ScanJobs, and one snapshot may show
  one number on GraphQL and another on REST; `FacesAgree` compares the two while the copy
  is of the scan jobs shown.
* A second decision keeps the receipt of the first (outcome_chain.rs:55): `ReceiptLands`
  asks for a receipt, of whichever decision.
* `get_findings` (rest.rs:108-117) reads the projection twice and matches children by
  the parent's name without its namespace.
* `kubectl`'s output pipe is dropped once the port is up (subprocess.rs:80), after which
  a further line of output ends it: a forward may die at any time in PrivatePush.
* submit-validations takes the last tag of the list for the latest: the order is the
  registry's, usually lexical.

## 8. What is not modelled

* `validation-jobs`: no crate of the workspace depends on it. It builds a graph of jobs
  for a scheduler that is not in the repository; readiness, retries and order are the
  scheduler's.
* `append_reconciler_outcome`, `record_decision_audit` and the queries on their tables:
  single inserts and reads that share nothing. `Persist` is their await.
* What Cartorio, the registry and Harbor are asked, request by request: an `act` is
  one effect in ActionExecutor.
* The scanners' catalog and the parsers' formats, Job templates, CRD schemas, HTTP
  renderings, the OpenAPI document: data without control.
* Two replicas of the process, deletion of children by hand: planned as faults.
* `promessa-controller-common` (a macro that tests trait laws) and `engenho-promessa`
  (the binary that wires the parts), the set-up of clients from the environment.
* `promessa-types` is not in the repository; `TypedAction`, `Decision`, `Severity` and
  `ReconcilerOutcome` are modelled from their use. kube-rs, the API server, the Job and
  TTL controllers, Cartorio, the registries, git, NATS and the database are external
  likewise.

## 9. Plan

Done: the lifecycle with its proofs and its refinement, the gate, the events, the
decision consumers, the gitops commit with its refinement, the private push, the
projection with its faces and bridge, the store.

Next, in order of importance:

1. Faults of the lifecycle: external deletion of a child, and a second replica (a
   second `ivRun` and `ivCache`), where `IInv` is expected to fail and the question is
   what remains of `PhasesNeverRegress` and `DecisionMatchesPhase`.
2. `harbor_mirror` and `cartorio_admit` request by request: check, act and verify as
   separate calls under timeouts.
3. Theorems: what of `IInv` remains under the faults of item 1.
4. The scan DAG of `validation-jobs`, once the repository holds its scheduler.
