--------------------------- MODULE GitopsPromise ---------------------------
(***************************************************************************)
(* What the flux-commit reconciler promises of a file under gitops: it     *)
(* changes by whole patches of what is there, or by what somebody else     *)
(* commits.  No patch is applied to an older text than the branch's, and   *)
(* none to a text that is not YAML.                                       *)
(***************************************************************************)
CONSTANTS Merge(_, _),  \* the document a patch makes of a document
          Patches,      \* the patches decisions carry
          Edits,        \* what other committers may leave
          Unreadable    \* what no patch can be merged into: no file, or no YAML

VARIABLE file           \* the document at the head of the branch

Patched == file \notin Unreadable /\ \E p \in Patches : file' = Merge(file, p)
Edited  == file' \in Edits

Init == file \in Edits
Next == Patched \/ Edited
Spec == Init /\ [][Next]_file
=============================================================================
