--------------------------- MODULE MCFluxCommit ---------------------------
(***************************************************************************)
(* Three writers, one of them on a dry run, and a committer on one branch, *)
(* and documents two objects deep, as a HelmRelease's values.              *)
(***************************************************************************)
EXTENDS FluxCommit, TLC

CONSTANTS live, other, dry, v1, v2, absent

\* The object with these members and no others.
Object(members) == [k \in Keys |-> IF k \in DOMAIN members THEN members[k] ELSE Absent]

Release(tag)    == Object([image |-> Object([tag |-> tag, pull |-> v1]), replicas |-> v1])
MCEdits         == {Release(v1), Object([image |-> v2]), absent}
MCPatches       == {Object([image |-> Object([tag |-> v2])]),                   \* pin an image
                    Object([image |-> Object([pull |-> Null]), replicas |-> v2])} \* drop one, set one
=============================================================================
