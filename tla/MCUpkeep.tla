------------------------------ MODULE MCUpkeep ------------------------------
(***************************************************************************)
(* What keeps deployments alive while nobody is at the keyboard: the passes *)
(* of the daemon (Daemon), and how the phases of replicas are learned from  *)
(* their hosts (Probe). A behaviour is about one of them.                   *)
(***************************************************************************)
EXTENDS Naturals

CONSTANTS
  web, api, j1, j2, j3,
  Key, Filter, JobId, Count, FailureThreshold, Tries, FaultPlans, MaxCommands,
  Job, Grant, require_grant, ProbePlans

\* The daemon looks after deployments that there are.
ASSUME DaemonAssumption == Filter \subseteq Key

VARIABLES
  about,  \* what a behaviour is about
  runs, silent, faults, commands, disk, lock, shutdown, pc, tries, mem, todo,
  misses,
  status, payer, agent, mail, batch, mishaps, driver, job, reply, toAsk,
  updates, phase, refresh_failures

D == INSTANCE Daemon
P == INSTANCE Probe WITH
       FaultPlans <- ProbePlans, failure_threshold <- FailureThreshold,
       faults <- mishaps, pc <- driver, todo <- toAsk

\* What may go wrong is one of the faults of Probe.
ASSUME ProbeAssumption == ProbePlans \subseteq [may : SUBSET P!Fault, left : Nat]

daemonVars == <<runs, silent, faults, commands, disk, lock, shutdown, pc, tries,
                mem, todo, misses>>
probeVars == <<status, payer, agent, mail, batch, mishaps, driver, job, reply,
               toAsk, updates, phase, refresh_failures>>
all == <<about, daemonVars, probeVars>>

\* The part that a behaviour is not about has one initial state.
MCInit ==
  /\ D!Init /\ P!Init
  /\ \/ about = "daemon" /\ mishaps = (CHOOSE plan \in ProbePlans : TRUE)
     \/ about = "probe" /\ faults = (CHOOSE plan \in FaultPlans : TRUE)
          /\ \A k \in Key : disk[k].count = (CHOOSE n \in Count : TRUE)

DaemonStep(A) == about = "daemon" /\ A /\ UNCHANGED <<about, probeVars>>
ProbeStep(A) == about = "probe" /\ A /\ UNCHANGED <<about, daemonVars>>

MCNext == DaemonStep(D!Next) \/ ProbeStep(P!Next)

\* The fairness of Daemon and of Probe.
MCSpec ==
  /\ MCInit /\ [][MCNext]_all
  /\ WF_all(DaemonStep(D!Step)) /\ WF_all(DaemonStep(D!CommandEnds))
  /\ WF_all(ProbeStep(P!Driver)) /\ WF_all(ProbeStep(P!Serve))
  /\ \A j \in Job : WF_all(ProbeStep(P!PayerLearns(j)))

\* The daemon: containers end, with commands beside it; and everything fails.
Plans == {[may |-> {"end"}, left |-> 2],
          [may |-> {"end", "silent", "contend", "save"}, left |-> 1]}

\* A replica whose host falls silent.
SilentPlan == {[may |-> {"silent"}, left |-> 1]}

\* Requests and answers that are lost; and an agent that cannot learn what it
\* should answer.
SomeProbePlans ==
  {[may |-> {"agent", "late", "garbled", "local"}, left |-> 3],
   [may |-> {"agent", "jobs", "atlas"}, left |-> 2]}

NothingFails == {[may |-> {}, left |-> 0]}

\* A stop between passes leaves no container that the state file does not know.
NothingLostOnStop == D!NothingLostOnStop

\* The signal ends the daemon.
GracefulStop == D!GracefulStop

\* As long as phases can be learned, the lock is there and saves succeed, the
\* daemon brings every deployment to its replicas and keeps it there.
SelfHealing == about = "daemon" => D!SelfHealing

\* "That is what makes self-healing real" (daemon.rs), whatever fails.
AlwaysHeals == about = "daemon" => D!Heals

\* A replica that is not over is given up only after failure_threshold failures
\* in a row (Controller::refresh and CeDriver::phase).
GivenUpRightly == P!GivenUpRightly

\* A job that is over is seen to be over, with or without an agent.
EndIsNoticed == P!EndIsNoticed

=============================================================================
