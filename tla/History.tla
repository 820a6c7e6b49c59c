------------------------------- MODULE History -------------------------------
(***************************************************************************)
(* One deployment under apply, scale, rollout undo, pause and resume, and   *)
(* the history of specs that undo goes back through (src/src/state.rs,      *)
(* src/src/main.rs). Each step is the change one command makes to the entry *)
(* between loading and saving the store.                                    *)
(***************************************************************************)
EXTENDS Store

CONSTANTS
  SpecsToApply,  \* the specs that may be applied, all with one key
  Counts,        \* the replica counts one may scale to
  MaxChanges     \* changes of revision the bookkeeping can hold

VARIABLES
  m,      \* the entry of the deployment
  trail,  \* history: the revisions that were in force, oldest first, without
          \* the changes that a plain undo has taken back
  picked  \* history: undo --to-revision has taken an entry out of the middle

vars == <<m, trail, picked>>

revision == m.spec.revision

Init ==
  /\ \E s \in SpecsToApply : m = replaced(NewEntry, s)
  /\ trail = <<>>
  /\ picked = FALSE

apply(spec) ==
  /\ m' = replaced(m, spec)
  /\ IF spec.revision = revision \/ picked THEN UNCHANGED trail
     ELSE Len(trail) < MaxChanges /\ trail' = Append(trail, revision)
  /\ UNCHANGED picked

Scale(n) == m' = scale(m, n) /\ UNCHANGED <<trail, picked>>

Undo ==
  /\ CanUndo(m)
  /\ m' = undo(m)
  /\ trail' = IF trail = <<>> THEN trail ELSE Front(trail)
  /\ UNCHANGED picked

\* The trail ends here: what was in force is no longer a path to go back along.
UndoTo(rev) ==
  /\ CanUndoTo(m, rev)
  /\ m' = undo_to(m, rev)
  /\ trail' = <<>>
  /\ picked' = TRUE

PauseOrResume == m' = set_paused(m, ~m.paused) /\ UNCHANGED <<trail, picked>>

Next ==
  \/ \E s \in SpecsToApply : apply(s) \/ UndoTo(s.revision)
  \/ \E n \in Counts : Scale(n)
  \/ Undo
  \/ PauseOrResume

Spec == Init /\ [][Next]_vars

----------------------------------------------------------------------------
(* Properties *)

\* rollout undo, "Roll back to the previous revision" (main.rs): a plain undo
\* brings back the revision that the last change replaced, which is another
\* one than the revision in force.
UndoGoesBack ==
  [][Undo /\ ~picked =>
       /\ revision' # revision
       /\ trail # <<>> /\ revision' = Last(trail)]_vars

=============================================================================
