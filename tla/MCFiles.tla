------------------------------ MODULE MCFiles ------------------------------
(***************************************************************************)
(* The two files that ce-gke processes share: the state file under its lock *)
(* (Sessions) and the secret store (Secrets). They do not interact: a       *)
(* behaviour is about one of them, the other one stays as it was.           *)
(***************************************************************************)
EXTENDS Sessions

CONSTANTS
  p1, p2, Writers, Names, Values, Inodes, Torn, None, MaxCommands

\* Stores are no torn bytes, and there is room for a file beside the store.
ASSUME SecretsAssumption ==
  /\ Torn \notin UNION {[N -> Values] : N \in SUBSET Names}
  /\ None \notin Inodes
  /\ \A i \in Inodes \cup {None} : Inodes \ {i} # {}

VARIABLES
  file,  \* the file a behaviour is about
  content, path, tmp, at, mem, op, fd, commands, finished

S == INSTANCE Secrets WITH pc <- at

secretVars == <<content, path, tmp, at, mem, op, fd, commands, finished>>
all == <<file, vars, secretVars>>

\* The state file that a behaviour is not about has one initial state.
MCInit ==
  /\ Init /\ S!Init
  /\ \/ file = "state"
     \/ file = "secrets" /\ faults.may = {"error"}

StateStep(A) == file = "state" /\ A /\ UNCHANGED <<file, secretVars>>

MCNext ==
  \/ StateStep(Next)
  \/ file = "secrets" /\ S!Next /\ UNCHANGED <<file, vars>>

\* The fairness of Sessions: the scheduler runs every process, time passes, and
\* the daemon comes back for its next pass.
MCSpec ==
  /\ MCInit /\ [][MCNext]_all
  /\ WF_all(StateStep(Clock))
  /\ \A p \in Proc : WF_all(StateStep(Step(p))) /\ WF_all(StateStep(Start(p)))

\* What may go wrong: commands fail; processes die in their sessions; and also
\* have sessions that outlast the stale time-out.
Plans == {[may |-> {"error"}, crashes |-> 0],
          [may |-> {"crash"}, crashes |-> 2],
          [may |-> {"long", "crash"}, crashes |-> 1]}

\* secret_cmd: what is in the file is what the finished commands made of it.
FinishedIsKept == S!FinishedIsKept

=============================================================================
