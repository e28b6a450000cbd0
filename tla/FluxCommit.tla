----------------------------- MODULE FluxCommit -----------------------------
(***************************************************************************)
(* The flux-commit reconciler: clone a branch, merge a patch into one      *)
(* file, commit and push.  Several writers act on one branch (a pod and    *)
(* the pod that replaces it), and so do other committers, who share no     *)
(* lock with them; a writer may crash between any two git commands.        *)
(***************************************************************************)
EXTENDS JsonMerge

CONSTANTS Writers,      \* the processes that run the reconciler
          Patches,      \* the patches FluxCommit actions carry
          Edits,        \* what other committers may leave in the file
          Unreadable,   \* what is no document: no file at the path, or one that is not YAML
          DryRun,       \* writers whose config skips the push
          ActLimit,     \* bound: how often the reconciler is called in all
          EditLimit,    \* bound: how often others commit
          NoDoc         \* nothing cloned, or nothing asked

Docs == Json \cup Unreadable

ASSUME FluxAssumption ==
    /\ ActLimit \in Nat /\ EditLimit \in Nat
    /\ Edits \subseteq Docs /\ Patches \subseteq Json
    /\ \A text \in Unreadable : text \notin Json
    /\ NoDoc \notin Docs \cup Writers

VARIABLES history,  \* the branch: its commits, [doc, by, patch], the last one its head
          act,      \* writer -> its call of act: [pc, base, doc, patch]
          outcome,  \* writer -> the outcome of its last call
          acts,     \* history: the calls made
          edits     \* history: the commits by others

vars == <<history, act, outcome, acts, edits>>

Tip      == Len(history)
Document == history[Tip].doc

Idle == [pc |-> "idle", base |-> 0, doc |-> NoDoc, patch |-> NoDoc]

Return(w, o) ==
    /\ act' = [act EXCEPT ![w] = Idle]
    /\ outcome' = [outcome EXCEPT ![w] = [result |-> o, patch |-> act[w].patch,
                                          base |-> act[w].base]]

(***************************************************************************)
(* run_flux_commit, git command by git command                             *)
(***************************************************************************)
Act(w) ==
    /\ act[w].pc = "idle" /\ acts < ActLimit
    /\ \E p \in Patches : act' = [act EXCEPT ![w] = [Idle EXCEPT !.pc = "clone", !.patch = p]]
    /\ acts' = acts + 1
    /\ UNCHANGED <<history, outcome, edits>>

\* git clone --depth 1, then the file is read.
Clone(w) ==
    /\ act[w].pc = "clone"
    /\ act' = [act EXCEPT ![w] = [@ EXCEPT !.pc = "patch", !.base = Tip, !.doc = Document]]
    /\ UNCHANGED <<history, outcome, acts, edits>>

\* The read fails, or the YAML does not parse.
GiveUp(w) ==
    /\ act[w].pc = "patch" /\ act[w].doc \in Unreadable
    /\ Return(w, "failed")
    /\ UNCHANGED <<history, acts, edits>>

\* The merged value equals the one that is there: no commit, no push.
Converged(w) ==
    /\ act[w].pc = "patch" /\ act[w].doc \notin Unreadable
    /\ MergeJson(act[w].doc, act[w].patch) = act[w].doc
    /\ Return(w, "already_converged")
    /\ UNCHANGED <<history, acts, edits>>

\* Mutant: the text is compared, which the round trip through JSON always changes.
CommitAnyway(w) ==
    /\ act[w].pc = "patch" /\ act[w].doc \notin Unreadable
    /\ act' = [act EXCEPT ![w] = [@ EXCEPT !.pc = "push",
                                            !.doc = MergeJson(act[w].doc, act[w].patch)]]
    /\ UNCHANGED <<history, outcome, acts, edits>>

\* The merged file is written, added and committed in the clone.
Commit(w) ==
    /\ act[w].pc = "patch" /\ act[w].doc \notin Unreadable
    /\ MergeJson(act[w].doc, act[w].patch) # act[w].doc
    /\ act' = [act EXCEPT ![w] = [@ EXCEPT !.pc = "push",
                                            !.doc = MergeJson(act[w].doc, act[w].patch)]]
    /\ UNCHANGED <<history, outcome, acts, edits>>

\* dry_run: the commit stays in the temporary directory, the outcome is the same.
SkipPush(w) ==
    /\ act[w].pc = "push" /\ w \in DryRun
    /\ Return(w, "applied")
    /\ UNCHANGED <<history, acts, edits>>

\* git push, not forced: the remote takes it only on top of the commit that was cloned.
Pushed(w) ==
    history' = Append(history, [doc |-> act[w].doc, by |-> w, patch |-> act[w].patch])

\* Mutant: git push --force.
PushForced(w) ==
    /\ act[w].pc = "push" /\ w \notin DryRun
    /\ Pushed(w)
    /\ Return(w, "applied")
    /\ UNCHANGED <<acts, edits>>

Push(w) ==
    /\ act[w].pc = "push" /\ w \notin DryRun /\ act[w].base = Tip
    /\ Pushed(w)
    /\ Return(w, "applied")
    /\ UNCHANGED <<acts, edits>>

\* Mutant: the exit status of the push is logged and forgotten.
PushRefusedUnnoticed(w) ==
    /\ act[w].pc = "push" /\ w \notin DryRun /\ act[w].base # Tip
    /\ Return(w, "applied")
    /\ UNCHANGED <<history, acts, edits>>

\* Mutant: a refusal is reported as something to try again, which no outcome says.
PushRefusedToRetry(w) ==
    /\ act[w].pc = "push" /\ w \notin DryRun /\ act[w].base # Tip
    /\ Return(w, "retry")
    /\ UNCHANGED <<history, acts, edits>>

PushRefused(w) ==
    /\ act[w].pc = "push" /\ w \notin DryRun /\ act[w].base # Tip
    /\ Return(w, "failed")
    /\ UNCHANGED <<history, acts, edits>>

\* The remote took the push and the connection broke: git exits non-zero.
PushUnheard(w) ==
    /\ act[w].pc = "push" /\ w \notin DryRun /\ act[w].base = Tip
    /\ Pushed(w)
    /\ Return(w, "failed")
    /\ UNCHANGED <<acts, edits>>

\* Any other git command fails.
GitFails(w) ==
    /\ act[w].pc \in {"clone", "patch", "push"}
    /\ Return(w, "failed")
    /\ UNCHANGED <<history, acts, edits>>

(***************************************************************************)
(* Crashes, and the other committers                                       *)
(***************************************************************************)
Crash(w) ==
    /\ act[w].pc # "idle"
    /\ act' = [act EXCEPT ![w] = Idle]
    /\ UNCHANGED <<history, outcome, acts, edits>>

Edit ==
    /\ edits < EditLimit
    /\ \E d \in Edits : history' = Append(history, [doc |-> d, by |-> NoDoc, patch |-> NoDoc])
    /\ edits' = edits + 1
    /\ UNCHANGED <<act, outcome, acts>>

Init ==
    /\ \E d \in Edits : history = <<[doc |-> d, by |-> NoDoc, patch |-> NoDoc]>>
    /\ act = [w \in Writers |-> Idle]
    /\ outcome = [w \in Writers |-> [result |-> "none", patch |-> NoDoc, base |-> 0]]
    /\ acts = 0 /\ edits = 0

Step(w) == \/ Clone(w) \/ GiveUp(w) \/ Converged(w) \/ Commit(w)
           \/ SkipPush(w) \/ Push(w) \/ PushRefused(w) \/ PushUnheard(w) \/ GitFails(w)

Next == (\E w \in Writers : Act(w) \/ Step(w) \/ Crash(w)) \/ Edit

Spec == Init /\ [][Next]_vars

(***************************************************************************)
(* Properties                                                              *)
(***************************************************************************)
Commits == [doc : Docs, by : Writers \cup {NoDoc}, patch : Patches \cup {NoDoc}]
Calls   == [pc : {"idle", "clone", "patch", "push"}, base : Nat,
            doc : Docs \cup {NoDoc}, patch : Patches \cup {NoDoc}]
Results == [result : {"none", "applied", "already_converged", "failed"},
            patch : Patches \cup {NoDoc}, base : Nat]

TypeOK ==
    /\ history \in Seq(Commits) /\ Tip > 0
    /\ act \in [Writers -> Calls]
    /\ outcome \in [Writers -> Results]
    /\ acts \in 0 .. ActLimit /\ edits \in 0 .. EditLimit

\* What a call holds between its git commands: the patch it was given, the commit it cloned, and
\* that commit's text, or its own patch of it.
ClonesAreTrue ==
    \A w \in Writers :
        /\ act[w].pc # "idle" => act[w].patch \in Patches
        /\ act[w].pc \in {"patch", "push"} => act[w].base \in 1 .. Tip
        /\ act[w].pc = "patch" => act[w].doc = history[act[w].base].doc
        /\ act[w].pc = "push" =>
              /\ history[act[w].base].doc \notin Unreadable
              /\ act[w].doc = MergeJson(history[act[w].base].doc, act[w].patch)
              /\ act[w].doc # history[act[w].base].doc

\* A commit by a writer is its patch merged into the commit it lands on: what others committed
\* while it cloned, merged and committed is never overwritten.
NoLostUpdate ==
    \A k \in 2 .. Tip : history[k].by # NoDoc =>
        history[k].doc = MergeJson(history[k - 1].doc, history[k].patch)

\* A writer's commit holds what the patch sets, lacks what it deletes, and has all else as it was: a
\* member beside a patched one is not lost with it.
PatchesOnlyWhatItNames ==
    \A k \in 2 .. Tip : history[k].by # NoDoc =>
        MergedAsAsked(history[k - 1].doc, history[k].patch, history[k].doc)

\* A patch that is delivered again, after a crash or by the other pod, is not committed again on
\* top of its own commit.
NoDoubleCommit ==
    \A k \in 2 .. Tip : history[k].by # NoDoc => history[k].patch # history[k - 1].patch

\* The outcome tells the truth of the branch: "applied" is a commit right on top of what was
\* cloned (unless a dry run), "already converged" a clone that had all the patch asks for.
OutcomeIsTrue ==
    \A w \in Writers :
        /\ outcome[w].result \in {"applied", "already_converged"} =>
              outcome[w].base \in 1 .. Tip
        /\ outcome[w].result = "applied" /\ w \notin DryRun =>
              /\ outcome[w].base < Tip
              /\ history[outcome[w].base + 1].by = w
              /\ history[outcome[w].base + 1].patch = outcome[w].patch
        /\ outcome[w].result = "already_converged" =>
              LET cloned == history[outcome[w].base].doc
              IN MergeJson(cloned, outcome[w].patch) = cloned

Promise == INSTANCE GitopsPromise WITH Merge <- MergeJson, file <- Document

\* However writers, crashes and other committers interleave, the file changes by one whole patch
\* of the text the branch has at that moment, or by somebody else's commit.
KeepsPromise == Promise!Spec
=============================================================================
