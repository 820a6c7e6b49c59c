----------------------------- MODULE MCCommands -----------------------------
(***************************************************************************)
(* The commands over the state file (Commands), and the history of one      *)
(* deployment over many more commands (History). A behaviour is about one   *)
(* of them.                                                                 *)
(***************************************************************************)
EXTENDS Commands, TLC

CONSTANTS
  j1, j2, j3,
  SpecsToApply, MaxChanges

VARIABLES
  about,  \* what a behaviour is about
  entry, trail, picked


App(n, rev, count) ==
  [namespace |-> "default", name |-> n, revision |-> rev, replicas |-> count,
   rest |-> "x"]

Empty == [file |-> [version |-> 1, deployments |-> [k \in {} |-> NewEntry]],
          mesh |-> [j \in JobId |-> NoJob]]

\* A file from before namespaces, with one replica that runs.
Unversioned ==
  [file |-> [version |-> 0,
             deployments |-> [k \in {<<"web">>} |->
               [NewEntry EXCEPT !.spec = [App("web", "r1", 1)
                                            EXCEPT !.namespace = ""],
                                !.replicas = {Handle(j1, "r1")}]]],
   mesh |-> [j \in JobId |-> IF j = j1 THEN [owner |-> <<"default", "web">>,
                                             revision |-> "r1"]
                             ELSE NoJob]]

EitherFile == {Empty, Unversioned}

\* A new revision of web alone, a stack of two, and the same name in another
\* namespace.
SomeStacks ==
  {<<App("web", "r2", 1)>>, <<App("db", "r1", 1), App("web", "r1", 2)>>,
   <<[App("web", "r1", 1) EXCEPT !.namespace = "team"]>>}

\* Kills that fail and containers that end, while commands run to their ends;
\* and commands that are cut short.
Plans == {[may |-> {"kill", "die"}, left |-> 2],
          [may |-> {"die", "preflight", "save", "crash"}, left |-> 2]}

\* Fresh jobs are alike; j1 is the one of the old file.
Alike == Permutations({j2, j3})

----------------------------------------------------------------------------
(* Three revisions of one deployment, scaled to one or two replicas. *)

ThreeRevisions == {App("web", r, n) : r \in {"r1", "r2", "r3"}, n \in {1, 2}}

ASSUME SpecsAssumption ==
  /\ SpecsToApply \subseteq DeploymentSpec
  /\ \A s \in SpecsToApply : s.revision # ""

H == INSTANCE History WITH m <- entry

historyVars == <<entry, trail, picked>>
all == <<about, vars, historyVars>>

\* The part that a behaviour is not about has one initial state.
MCInit ==
  \/ about = "commands" /\ Init /\ entry = NewEntry /\ trail = <<>> /\ picked = FALSE
  \/ about = "history" /\ H!Init /\ Init /\ disk = Empty.file /\ "kill" \in faults.may

MCNext ==
  \/ about = "commands" /\ Next /\ UNCHANGED <<about, historyVars>>
  \/ about = "history" /\ H!Next /\ UNCHANGED <<about, vars>>

MCSpec == MCInit /\ [][MCNext]_all

\* rollout undo (main.rs): a plain undo brings back the revision that the last
\* change replaced.
UndoGoesBack == H!UndoGoesBack

=============================================================================
