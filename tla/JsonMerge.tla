----------------------------- MODULE JsonMerge -----------------------------
(***************************************************************************)
(* merge_json of the flux-commit reconciler: a JSON merge patch (RFC 7396) *)
(* as a pure function of documents.  An object is a function on Keys with  *)
(* Absent for the members it lacks; anything that is not an object is an   *)
(* atom, an array too, since the merge replaces it whole.                  *)
(***************************************************************************)
EXTENDS Naturals, Sequences

CONSTANTS Keys,    \* the names members have
          Scalars, \* the values that are neither objects nor null
          Null,    \* the JSON null: a document may hold it, in a patch it deletes
          Absent,  \* no member of that name
          Depth    \* bound: how deep objects nest

Atoms == Scalars \cup {Null}

\* The documents whose objects nest n deep at most.
Values[n \in Nat] == IF n = 0 THEN Atoms ELSE Atoms \cup [Keys -> Values[n - 1] \cup {Absent}]
Json == Values[Depth]

\* An atom and a missing member are told from an object.
ASSUME JsonAssumption ==
    /\ Depth \in Nat
    /\ Null \notin Scalars /\ Absent \notin Atoms
    /\ \A v \in Atoms \cup {Absent} : v \notin [Keys -> Json \cup {Absent}]

IsObject(v) == v \notin Atoms \cup {Absent}
Member(v, k) == IF IsObject(v) THEN v[k] ELSE Absent

\* A missing member is made null before a patch goes into it.
OrNull(v) == IF v = Absent THEN Null ELSE v

\* Mutant: one level only, a nested object replaces the one it should be merged into.
MergeShallow(target, patch) ==
    IF ~IsObject(patch) THEN patch
    ELSE [k \in Keys |-> CASE patch[k] = Absent -> Member(target, k)
                           [] patch[k] = Null   -> Absent
                           [] OTHER             -> patch[k]]

\* An object is merged member by member, into an empty object when the target is not one: null
\* removes the member, what the patch does not name stays, the rest is merged by `merge`.
MergeMembers(merge, target, patch) ==
    [k \in Keys |-> CASE patch[k] = Absent -> Member(target, k)
                      [] patch[k] = Null   -> Absent
                      [] OTHER             -> merge[<<OrNull(Member(target, k)), patch[k]>>]]

\* Anything but an object replaces the target.
MergeLevel(n, merge) ==
    [pair \in Values[n] \X Values[n] |->
        IF IsObject(pair[2]) THEN MergeMembers(merge, pair[1], pair[2]) ELSE pair[2]]

MergeUpTo[n \in Nat] ==
    IF n = 0 THEN [pair \in Atoms \X Atoms |-> pair[2]] ELSE MergeLevel(n, MergeUpTo[n - 1])

MergeJson(target, patch) == MergeUpTo[Depth][<<target, patch>>]

(***************************************************************************)
(* A reference that does not recurse over both documents: what is found    *)
(* down one path, step by step, Absent where the path leaves the document. *)
(***************************************************************************)
Paths == UNION {[1 .. n -> Keys] : n \in 0 .. Depth}

\* Where each walk, of a document and a path, stands after i steps.
Further(at, i) == [walk \in Json \X Paths |-> Member(at[walk], walk[2][i])]

Steps[i \in Nat] ==
    IF i = 0 THEN [walk \in Json \X Paths |-> walk[1]] ELSE Further(Steps[i - 1], i)

At(doc, path, i) == Steps[i][<<doc, path>>]

\* What a patch names is as it says; what it does not name is as it was, unless the patch has put
\* an atom, or nothing, in the place of something above.
FoundAsAsked(before, patch, after, path) ==
    LET end   == Len(path)
        asked == At(patch, path, end)
        found == At(after, path, end)
    IN /\ asked \in Scalars => found = asked
       /\ asked = Null => found = IF end = 0 THEN Null ELSE Absent
       /\ IsObject(asked) => IsObject(found)
       /\ asked = Absent =>
             found = IF \E i \in 0 .. end : At(patch, path, i) \in Atoms THEN Absent
                     ELSE At(before, path, end)

MergedAsAsked(before, patch, after) ==
    \A path \in Paths : FoundAsAsked(before, patch, after, path)
=============================================================================
