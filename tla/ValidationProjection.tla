------------------------ MODULE ValidationProjection ------------------------
(***************************************************************************)
(* The projection every transport of validation-api reads (projection.rs): *)
(* one map per kind of object behind one lock, each written by a detached  *)
(* informer that feeds it the events of a kube-rs watcher, one event per   *)
(* acquisition of the lock.                                                *)
(*                                                                         *)
(* revisions[c] is the history of kind c on the API server, one write      *)
(* after the other: a list reads its last element, a watch continues from  *)
(* the element the list read.  A value is an object, or Nothing.           *)
(***************************************************************************)
EXTENDS Naturals, Sequences

CONSTANTS
    Kinds,       \* the three kinds: one informer each
    Keys,        \* Keys[c]: the <<namespace, name>> of the objects of kind c
    Values,      \* Values[c][k]: what the object k of kind c can be
    Nothing,     \* there is no object
    Initially,   \* Initially[c]: the collections of kind c to start from
    MaxWrites,   \* MaxWrites[c]: bound, writes of kind c to the API server
    MaxLosses    \* bound: watches that expire and restarts of the API process

Collection(c) == {m \in [Keys[c] -> (UNION {Values[c][k] : k \in Keys[c]}) \cup {Nothing}] :
                    \A k \in Keys[c] : m[k] \in Values[c][k] \cup {Nothing}}

ASSUME ProjectionAssumption ==
    /\ \A c \in Kinds : /\ \A k \in Keys[c] : Nothing \notin Values[c][k]
                        /\ Initially[c] \subseteq Collection(c)
                        /\ MaxWrites[c] \in Nat
    /\ MaxLosses \in Nat

VARIABLES
    revisions,   \* the API server
    inner,       \* inner[c]: the map of kind c
    watcher,     \* watcher[c]: where its watcher is
    at,          \* at[c]: the revision the watcher is at
    page,        \* page[c]: the keys of the list it has still to hand out
    losses       \* expired watches and restarts so far

projVars == <<revisions, inner, watcher, at, page, losses>>

Cluster(c) == revisions[c][Len(revisions[c])]

NothingOf(c) == [k \in Keys[c] |-> Nothing]

ProjInit ==
    /\ revisions \in [Kinds -> UNION {{<<m>> : m \in Initially[c]} : c \in Kinds}]
    /\ \A c \in Kinds : Cluster(c) \in Initially[c]
    /\ inner = [c \in Kinds |-> NothingOf(c)]
    /\ watcher = [c \in Kinds |-> "empty"]
    /\ at = [c \in Kinds |-> 1]
    /\ page = [c \in Kinds |-> {}]
    /\ losses = 0

-----------------------------------------------------------------------------
(* The API server, written by whoever writes the objects *)

Write(c) ==
    /\ Len(revisions[c]) <= MaxWrites[c]
    /\ \E k \in Keys[c] : \E v \in (Values[c][k] \cup {Nothing}) \ {Cluster(c)[k]} :
          revisions' = [revisions EXCEPT ![c] = Append(@, [Cluster(c) EXCEPT ![k] = v])]
    /\ UNCHANGED <<inner, watcher, at, page, losses>>

-----------------------------------------------------------------------------
(* The informer: the closure of spawn_informers, for each event in turn *)

\* Mutant: a relist goes on top of what the map holds.
ListStartsDirty(c) ==
    /\ watcher[c] = "empty"
    /\ watcher' = [watcher EXCEPT ![c] = "list"]
    /\ UNCHANGED <<revisions, inner, at, page, losses>>

\* Event::Init, before the list is even asked for.
ListStarts(c) ==
    /\ watcher[c] = "empty"
    /\ inner' = [inner EXCEPT ![c] = NothingOf(c)]
    /\ watcher' = [watcher EXCEPT ![c] = "list"]
    /\ UNCHANGED <<revisions, at, page, losses>>

\* The list comes back.
Listed(c) ==
    /\ watcher[c] = "list"
    /\ at' = [at EXCEPT ![c] = Len(revisions[c])]
    /\ page' = [page EXCEPT ![c] = {k \in Keys[c] : Cluster(c)[k] # Nothing}]
    /\ watcher' = [watcher EXCEPT ![c] = "page"]
    /\ UNCHANGED <<revisions, inner, losses>>

\* Mutant: the first error ends the loop, and with it the informer.
ListFailsForGood(c) ==
    /\ watcher[c] = "list"
    /\ watcher' = [watcher EXCEPT ![c] = "ended"]
    /\ UNCHANGED <<revisions, inner, at, page, losses>>

\* The list fails: five seconds later the watcher starts over.
ListFails(c) ==
    /\ watcher[c] = "list"
    /\ watcher' = [watcher EXCEPT ![c] = "empty"]
    /\ UNCHANGED <<revisions, inner, at, page, losses>>

\* Event::InitApply.
InitApply(c) ==
    /\ watcher[c] = "page"
    /\ \E k \in page[c] :
          /\ inner' = [inner EXCEPT ![c][k] = revisions[c][at[c]][k]]
          /\ page' = [page EXCEPT ![c] = @ \ {k}]
    /\ UNCHANGED <<revisions, watcher, at, losses>>

\* Event::InitDone changes nothing; the watch starts at the revision of the list.
InitDone(c) ==
    /\ watcher[c] = "page" /\ page[c] = {}
    /\ watcher' = [watcher EXCEPT ![c] = "watch"]
    /\ UNCHANGED <<revisions, inner, at, page, losses>>

\* Event::Apply or Event::Delete: the next write, to the key it wrote.
Watched(c) ==
    /\ watcher[c] = "watch" /\ at[c] < Len(revisions[c])
    /\ LET was == revisions[c][at[c]]
           is  == revisions[c][at[c] + 1]
       IN  inner' = [inner EXCEPT ![c] =
               [k \in Keys[c] |-> IF is[k] = was[k] THEN @[k] ELSE is[k]]]
    /\ at' = [at EXCEPT ![c] = @ + 1]
    /\ UNCHANGED <<revisions, watcher, page, losses>>

\* The watch is too old to be resumed: the watcher lists anew.  Any other error leaves it
\* where it is, and the next attempt continues from there.
WatchExpires(c) ==
    /\ watcher[c] = "watch" /\ losses < MaxLosses
    /\ losses' = losses + 1
    /\ watcher' = [watcher EXCEPT ![c] = "empty"]
    /\ UNCHANGED <<revisions, inner, at, page>>

\* A new process: an empty projection and three new watchers.
Restart ==
    /\ losses < MaxLosses
    /\ losses' = losses + 1
    /\ inner' = [c \in Kinds |-> NothingOf(c)]
    /\ watcher' = [c \in Kinds |-> "empty"]
    /\ page' = [c \in Kinds |-> {}]
    /\ UNCHANGED <<revisions, at>>

Informer(c) == ListStarts(c) \/ Listed(c) \/ InitApply(c) \/ InitDone(c) \/ Watched(c)

ProjRuns == \E c \in Kinds : Write(c) \/ Informer(c) \/ ListFails(c) \/ WatchExpires(c)

ProjNext == ProjRuns \/ Restart

ProjSpec == ProjInit /\ [][ProjNext]_projVars

-----------------------------------------------------------------------------
(* Properties *)

\* Whatever relists, write by write, what a reader sees of a kind are objects that were in
\* the cluster together; and all of them are there, as they are, once the watch has caught up.
ReadersSeeOneState ==
    \A c \in Kinds :
        /\ \E n \in DOMAIN revisions[c] : \A k \in Keys[c] :
              inner[c][k] \in {Nothing, revisions[c][n][k]}
        /\ watcher[c] = "watch" /\ at[c] = Len(revisions[c]) => inner[c] = Cluster(c)
=============================================================================
