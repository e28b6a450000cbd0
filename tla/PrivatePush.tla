---------------------------- MODULE PrivatePush ----------------------------
(***************************************************************************)
(* The private-push command line: one process per invocation, each of      *)
(* which holds a `kubectl port-forward` to the Zot registry, builds,       *)
(* copies and signs images one by one through it, and (push-and-submit)    *)
(* then applies one AkeylessImageValidation per captured digest.  The      *)
(* submit-validations flavour finds the digests in the registry instead.   *)
(*                                                                         *)
(* Invocations share the registry, the local port of the forward and the   *)
(* `result-<service>` links of a flake checkout; nothing locks any of      *)
(* them.  Every subprocess call is one step, and may fail.                 *)
(***************************************************************************)
EXTENDS Naturals, Sequences, FiniteSets, FiniteSetsExt, SequencesExt

CONSTANTS Invocations,  \* the processes an operator starts
          Kinds,        \* the subcommands they may be
          Services,     \* a sequence: the services or binaries on the command line
          EndpointOf,   \* invocation -> the host and local port its forward listens on
          TagArg,       \* invocation -> its --tag, or NoTag
          Cosign,       \* the invocations without --no-cosign
          DryRun,       \* the invocations with --dry-run
          Digests,      \* the images a build may produce
          Baked,        \* image -> the tag of its RepoTags[0], "latest" when it has none
          Suffix,       \* digest -> the 12 characters that end a validation's name
          NoTag,        \* no --tag was given
          None          \* no image: an absent link, an absent tag

PushKinds == {"substrate", "akeyless", "push_and_submit"}

\* Tags are numbered in the order the registry lists them.  An empty list of services stands
\* for the default one.  The first 12 of a digest's 64 hexadecimal characters are taken to tell
\* digests apart.
ASSUME PushAssumption ==
    /\ Kinds \subseteq PushKinds \cup {"submit_validations"}
    /\ Services \in Seq(Range(Services)) /\ Services # <<>>
    /\ TagArg \in [Invocations -> Nat \cup {NoTag}]
    /\ Baked \in [Digests -> Nat]
    /\ IsInjective(Suffix) /\ DOMAIN Suffix = Digests
    /\ None \notin Digests /\ NoTag \notin Nat

VARIABLES kind,      \* invocation -> its subcommand
          pc,        \* invocation -> the call it makes next
          at,        \* invocation -> how many services it is done with
          forward,   \* invocation -> its kubectl port-forward child
          link,      \* service -> the image behind result-<service> in the shared checkout
          tag,       \* invocation -> the tag it works under
          resolved,  \* invocation -> the digest it last resolved
          pushed,    \* invocation -> the PushedImages it captured
          todo,      \* invocation -> the repositories submit-validations has left, in order
          lost,      \* history: the invocations whose forward died on them
          copies,    \* the registry: every `skopeo copy` that landed, in order
          signed,    \* the registry: the signed <<repo, digest>>
          crs        \* the cluster: the validations applied

vars == <<kind, pc, at, forward, link, tag, resolved, pushed, todo, lost, copies, signed, crs>>
local    == <<at, tag, resolved, pushed, todo>>
registry == <<copies, signed, lost>>

(***************************************************************************)
(* The registry and the port-forward, from how the code uses them          *)
(***************************************************************************)
CopiesTo(r, t) == {k \in DOMAIN copies : copies[k].repo = r /\ copies[k].tag = t}
Resolve(r, t)  == IF CopiesTo(r, t) = {} THEN None ELSE copies[Max(CopiesTo(r, t))].digest
TagsOf(r)      == {copies[k].tag : k \in {k \in DOMAIN copies : copies[k].repo = r}}

\* Some kubectl listens on the port: whose it is, a client of the port cannot tell.
Reachable(i) == \E j \in Invocations : EndpointOf[j] = EndpointOf[i] /\ forward[j] = "up"

Service(i) == Services[at[i] + 1]
Repo(i)    == <<IF kind[i] = "substrate" THEN "pleme-io" ELSE "akeyless", Service(i)>>

\* Every service with a name of its own, one CR per digest.
BuildCR(repo, digest, mode) ==
    [name |-> <<repo, Suffix[digest]>>, digest |-> digest, mode |-> mode]
Applied(cr) == {c \in crs : c.name # cr.name} \cup {cr}

(***************************************************************************)
(* Exits: the guard of the forward kills the child on every path           *)
(***************************************************************************)
Exit(i, how) ==
    /\ pc' = [pc EXCEPT ![i] = how]
    /\ forward' = [forward EXCEPT ![i] = "none"]

\* A call that returns an error ends the process; what it pushed stays.  The two registry
\* reads of submit-validations are caught instead (Skip), and the wait for the forward
\* ends only with its output (AwaitForward).
Fail(i) ==
    /\ pc[i] \notin {"done", "failed", "await", "list", "head"}
    /\ Exit(i, "failed")
    /\ UNCHANGED <<kind, link, local, registry, crs>>

Goto(i, label) == pc' = [pc EXCEPT ![i] = label]

(***************************************************************************)
(* start_port_forward and its child                                        *)
(***************************************************************************)
SpawnForward(i) ==
    /\ pc[i] = "start" /\ kind[i] \in PushKinds
    /\ Goto(i, "await")
    /\ forward' = [forward EXCEPT ![i] = "starting"]
    /\ UNCHANGED <<kind, link, local, registry, crs>>

\* kubectl binds the port and says so, or exits because another one has it.
ForwardSettles(i) ==
    /\ forward[i] = "starting"
    /\ forward' = [forward EXCEPT ![i] = IF Reachable(i) THEN "refused" ELSE "up"]
    /\ UNCHANGED <<kind, pc, link, local, registry, crs>>

\* kubectl loses its connection to the pod and exits.
ForwardDies(i) ==
    /\ forward[i] = "up"
    /\ forward' = [forward EXCEPT ![i] = "lost"]
    /\ lost' = lost \cup {i}
    /\ UNCHANGED <<kind, pc, link, local, copies, signed, crs>>

\* Mutant: the port is used as soon as kubectl is spawned.
AwaitForwardNotAwaited(i) ==
    /\ pc[i] = "await"
    /\ Goto(i, "login")
    /\ UNCHANGED <<kind, forward, link, local, registry, crs>>

\* Mutant: the end of kubectl's output is not an error.
AwaitForwardNoEof(i) ==
    /\ pc[i] = "await" /\ forward[i] \in {"up", "lost"}
    /\ Goto(i, "login")
    /\ UNCHANGED <<kind, forward, link, local, registry, crs>>

\* wait_for_line: up to the line that says the port is bound, or to the end of the output.
AwaitForward(i) ==
    /\ pc[i] = "await" /\ forward[i] \in {"up", "lost", "refused"}
    /\ IF forward[i] = "refused" THEN Exit(i, "failed")
                                 ELSE Goto(i, "login") /\ UNCHANGED forward
    /\ UNCHANGED <<kind, link, local, registry, crs>>

(***************************************************************************)
(* One image: build, tag, copy, sign, capture                              *)
(***************************************************************************)
Login(i) ==
    /\ pc[i] = "login" /\ Reachable(i)
    /\ Goto(i, "build")
    /\ UNCHANGED <<kind, forward, link, local, registry, crs>>

NixBuild(i) ==
    /\ pc[i] = "build"
    /\ \E d \in Digests : link' = [link EXCEPT ![Service(i)] = d]
    /\ Goto(i, "tag")
    /\ UNCHANGED <<kind, forward, local, registry, crs>>

DiscoverTag(i) ==
    /\ pc[i] = "tag"
    /\ \/ TagArg[i] # NoTag /\ tag' = [tag EXCEPT ![i] = TagArg[i]]
       \/ /\ TagArg[i] = NoTag /\ link[Service(i)] # None
          /\ tag' = [tag EXCEPT ![i] = Baked[link[Service(i)]]]
    /\ Goto(i, "copy")
    /\ UNCHANGED <<kind, at, forward, link, resolved, pushed, todo, registry, crs>>

\* Mutant: a tag the registry already has is not copied again.
SkopeoCopyUnlessPresent(i) ==
    /\ pc[i] = "copy" /\ Reachable(i) /\ link[Service(i)] # None
    /\ copies' = IF CopiesTo(Repo(i), tag[i]) # {} THEN copies
                 ELSE Append(copies, [repo |-> Repo(i), tag |-> tag[i],
                                      digest |-> link[Service(i)], by |-> i])
    /\ Goto(i, IF i \in Cosign THEN "inspect" ELSE "capture")
    /\ UNCHANGED <<kind, forward, link, local, signed, lost, crs>>

SkopeoCopy(i) ==
    /\ pc[i] = "copy" /\ Reachable(i) /\ link[Service(i)] # None
    /\ copies' = Append(copies, [repo |-> Repo(i), tag |-> tag[i],
                                 digest |-> link[Service(i)], by |-> i])
    /\ Goto(i, IF i \in Cosign THEN "inspect" ELSE "capture")
    /\ UNCHANGED <<kind, forward, link, local, signed, lost, crs>>

\* cosign_sign: by digest, not tag, so the tag is resolved first.
InspectForSign(i) ==
    /\ pc[i] = "inspect" /\ Reachable(i)
    /\ resolved' = [resolved EXCEPT ![i] = Resolve(Repo(i), tag[i])]
    /\ Goto(i, "sign")
    /\ UNCHANGED <<kind, at, forward, link, tag, pushed, todo, registry, crs>>

CosignSign(i) ==
    /\ pc[i] = "sign" /\ Reachable(i)
    /\ signed' = signed \cup {<<Repo(i), resolved[i]>>}
    /\ Goto(i, "capture")
    /\ UNCHANGED <<kind, forward, link, local, copies, lost, crs>>

\* resolve_pushed_digest for the submit phase (an akeyless image), then on to the next service.
CaptureDigest(i) ==
    /\ pc[i] = "capture"
    /\ IF kind[i] = "substrate" THEN UNCHANGED pushed
       ELSE /\ Reachable(i)
            /\ pushed' = [pushed EXCEPT ![i] =
                   Append(@, [repo |-> Repo(i), digest |-> Resolve(Repo(i), tag[i])])]
    /\ link' = [link EXCEPT ![Service(i)] = None]
    /\ at' = [at EXCEPT ![i] = (@ + 1) % Len(Services)]
    /\ IF at[i] + 1 < Len(Services) THEN Goto(i, "build") /\ UNCHANGED forward
       ELSE Exit(i, IF kind[i] = "push_and_submit" THEN "apply" ELSE "done")
    /\ UNCHANGED <<kind, tag, resolved, todo, registry, crs>>

(***************************************************************************)
(* push-and-submit, second phase: the API server only, no forward held     *)
(***************************************************************************)
\* Mutant: the first image applied ends the phase.
ApplyPushedOnce(i) ==
    /\ pc[i] = "apply"
    /\ LET img == pushed[i][at[i] + 1]
       IN crs' = IF i \in DryRun THEN crs
                 ELSE Applied(BuildCR(img.repo, img.digest, "annotated"))
    /\ Goto(i, "done")
    /\ UNCHANGED <<kind, at, forward, link, tag, resolved, pushed, todo, registry>>

ApplyPushed(i) ==
    /\ pc[i] = "apply"
    /\ LET img == pushed[i][at[i] + 1]
       IN crs' = IF i \in DryRun THEN crs
                 ELSE Applied(BuildCR(img.repo, img.digest, "annotated"))
    /\ at' = [at EXCEPT ![i] = @ + 1]
    /\ IF at[i] + 1 < Len(pushed[i]) THEN UNCHANGED pc ELSE Goto(i, "done")
    /\ UNCHANGED <<kind, forward, link, tag, resolved, pushed, todo, registry>>

(***************************************************************************)
(* submit-validations: what the registry lists, tag by tag                 *)
(***************************************************************************)
\* In the order of the registry's catalog, which is its own.
FetchCatalog(i) ==
    /\ pc[i] = "start" /\ kind[i] = "submit_validations"
    /\ \E found \in SetToSeqs({s \in Range(Services) : TagsOf(<<"akeyless", s>>) # {}}) :
          /\ todo' = [todo EXCEPT ![i] = found]
          /\ Goto(i, IF found = <<>> THEN "failed" ELSE "list")
    /\ UNCHANGED <<kind, at, forward, link, tag, resolved, pushed, registry, crs>>

Found(i) == <<"akeyless", Head(todo[i])>>

\* resolve_latest_digest, first request: the last tag of the list.
ListTags(i) ==
    /\ pc[i] = "list" /\ todo[i] # <<>>
    /\ tag' = [tag EXCEPT ![i] = Max(TagsOf(Found(i)))]
    /\ Goto(i, "head")
    /\ UNCHANGED <<kind, at, forward, link, resolved, pushed, todo, registry, crs>>

\* Its second request: the digest that tag has by now.
HeadManifest(i) ==
    /\ pc[i] = "head"
    /\ resolved' = [resolved EXCEPT ![i] = Resolve(Found(i), tag[i])]
    /\ Goto(i, "submit")
    /\ UNCHANGED <<kind, at, forward, link, tag, pushed, todo, registry, crs>>

\* Mutant: a failed lookup goes on with the digest of the repository before it, if any.
SkipNothing(i) ==
    /\ pc[i] \in {"list", "head"} /\ todo[i] # <<>>
    /\ Goto(i, IF resolved[i] = None THEN "list" ELSE "submit")
    /\ todo' = IF resolved[i] = None THEN [todo EXCEPT ![i] = Tail(@)] ELSE todo
    /\ UNCHANGED <<kind, at, forward, link, tag, resolved, pushed, registry, crs>>

\* Either request fails: the repository is skipped with a warning.
Skip(i) ==
    /\ pc[i] \in {"list", "head"} /\ todo[i] # <<>>
    /\ todo' = [todo EXCEPT ![i] = Tail(@)]
    /\ Goto(i, "list")
    /\ UNCHANGED <<kind, at, forward, link, tag, resolved, pushed, registry, crs>>

SubmitFound(i) ==
    /\ pc[i] = "submit"
    /\ crs' = IF i \in DryRun THEN crs ELSE Applied(BuildCR(Found(i), resolved[i], "plain"))
    /\ todo' = [todo EXCEPT ![i] = Tail(@)]
    /\ Goto(i, "list")
    /\ UNCHANGED <<kind, at, forward, link, tag, resolved, pushed, registry>>

SubmitDone(i) ==
    /\ pc[i] = "list" /\ todo[i] = <<>>
    /\ Goto(i, "done")
    /\ UNCHANGED <<kind, forward, link, local, registry, crs>>

(***************************************************************************)
(* The specification                                                       *)
(***************************************************************************)
Init ==
    /\ kind \in {k \in [Invocations -> Kinds] :
                    \A i \in Invocations : k[i] = "substrate" => TagArg[i] # NoTag}
    /\ pc = [i \in Invocations |-> "start"]
    /\ at = [i \in Invocations |-> 0]
    /\ forward = [i \in Invocations |-> "none"]
    /\ link = [s \in Range(Services) |-> None]
    /\ tag = [i \in Invocations |-> NoTag]
    /\ resolved = [i \in Invocations |-> None]
    /\ pushed = [i \in Invocations |-> <<>>]
    /\ todo = [i \in Invocations |-> <<>>]
    /\ copies = <<>> /\ signed = {} /\ lost = {} /\ crs = {}

Step(i) == \/ SpawnForward(i) \/ AwaitForward(i) \/ Login(i) \/ NixBuild(i)
           \/ DiscoverTag(i) \/ SkopeoCopy(i) \/ InspectForSign(i) \/ CosignSign(i)
           \/ CaptureDigest(i) \/ ApplyPushed(i)
           \/ FetchCatalog(i) \/ ListTags(i) \/ HeadManifest(i) \/ SubmitFound(i)
           \/ SubmitDone(i)

Next == \E i \in Invocations : \/ Step(i) \/ Fail(i) \/ Skip(i)
                               \/ ForwardSettles(i) \/ ForwardDies(i)

\* A subprocess that is started ends, one way or the other, and kubectl either binds or exits.
Fairness == \A i \in Invocations : /\ WF_vars(Step(i) \/ Fail(i) \/ Skip(i))
                                   /\ WF_vars(ForwardSettles(i))

Spec == Init /\ [][Next]_vars /\ Fairness

(***************************************************************************)
(* Properties                                                              *)
(***************************************************************************)
\* A copy of its own that an invocation made to a repository.
OwnCopies(i, r) == {k \in DOMAIN copies : copies[k].by = i /\ copies[k].repo = r}

\* What an invocation captured for a service is what it pushed there, or what somebody pushed
\* over it later, under the same tag: never an older image, however invocations interleave,
\* forwards die and checkouts are shared.
CaptureIsNotStale ==
    \A i \in Invocations : \A n \in DOMAIN pushed[i] :
        \E k \in OwnCopies(i, pushed[i][n].repo), l \in DOMAIN copies :
            /\ l >= k /\ copies[l].repo = copies[k].repo /\ copies[l].tag = copies[k].tag
            /\ copies[l].digest = pushed[i][n].digest

\* A push-and-submit that exits 0 has captured an image of every service it was given, in
\* order, and left a validation of each one in the cluster.
DoneMeansSubmitted ==
    \A i \in Invocations \ DryRun :
        pc[i] = "done" /\ kind[i] = "push_and_submit" =>
            /\ [n \in DOMAIN pushed[i] |-> pushed[i][n].repo[2]] = Services
            /\ \A n \in DOMAIN pushed[i] : \E c \in crs : c.digest = pushed[i][n].digest

\* Somebody on another port pushed to the repository.
Foreign(i, r) == \E k \in DOMAIN copies :
                    copies[k].repo = r /\ EndpointOf[copies[k].by] # EndpointOf[i]

\* As long as no forward dies, the port is a lock: invocations on one port cannot interleave
\* their pushes, so what is captured is exactly what was pushed, and it is what was signed,
\* unless somebody on another port pushed there.
PortIsALock ==
    lost = {} =>
        \A i \in Invocations : \A n \in DOMAIN pushed[i] :
            \/ Foreign(i, pushed[i][n].repo)
            \/ /\ \E k \in OwnCopies(i, pushed[i][n].repo) :
                     copies[k].digest = pushed[i][n].digest
               /\ i \in Cosign => <<pushed[i][n].repo, pushed[i][n].digest>> \in signed

\* Every validation is of an image the registry has, in the repository it names.
ValidationsNameImages ==
    \A c \in crs : \E k \in DOMAIN copies :
        copies[k].digest = c.digest /\ copies[k].repo = c.name[1]

\* Every invocation ends, forwards that die or are refused included.
EveryInvocationEnds == \A i \in Invocations : <>(pc[i] \in {"done", "failed"})
=============================================================================
