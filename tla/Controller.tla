---------------------------- MODULE Controller ----------------------------
(***************************************************************************)
(* Controller::tick of src/src/controller.rs, run again and again for one   *)
(* deployment, at the granularity of the driver's calls: between any two    *)
(* calls containers start and die, hosts become unreachable and             *)
(* dependencies come and go, while the tick goes on with what it read.      *)
(*                                                                          *)
(* The mesh (jobs on hosts, the DHT record, the dependency) is what the     *)
(* trait MeshDriver gives access to. A call answers Ok or Err, and an Err   *)
(* does not say whether the host did what it was asked.                     *)
(*                                                                          *)
(* A job that has ended and that the controller has forgotten looks like a  *)
(* job that never existed, so its id returns to the pool: JobId can be      *)
(* finite although a behaviour deploys without end.                         *)
(***************************************************************************)
EXTENDS Rollout, Integers, Sequences

CONSTANTS
  JobId,             \* ids a host may give to a job
  Node,              \* hosts of the atlas
  Revision,          \* pod-template hashes
  Specs,             \* the specs applied to the deployment, one after the other
  FailureThreshold,  \* Controller::failure_threshold
  Endings,           \* the phases in which a container may end
  Faults,            \* the kinds of failure that may happen, see Fault
  MaxFaults          \* how many of them happen at most

Fault == {"crash",        \* a container ends by itself
          "refresh",      \* driver.phase answers Err
          "kill",         \* driver.kill answers Err and the job lives on
          "killReply",    \* the job is killed, the reply is lost: Err
          "reject",       \* driver.deploy answers Err, nothing was started
          "deployReply",  \* the job is started, the reply is lost: Err
          "atlas",        \* driver.atlas answers Err, or no host is usable
          "dependency",   \* a dependency disappears, or its lookup fails
          "advertise",    \* driver.advertise_service answers Err
          "stuck"}        \* a host stops answering deploys and kills for good

ASSUME SpecsAssumption ==
  /\ Specs \in Seq(Deployment(Revision))
  /\ Len(Specs) > 0
  /\ \A i \in 1..Len(Specs) : ValidStrategy(Specs[i])

ASSUME ParameterAssumption ==
  /\ IsFiniteSet(Node)
  /\ FailureThreshold \in Nat
  /\ MaxFaults \in Nat
  /\ Endings \subseteq Terminal
  /\ Endings # {}
  /\ Faults \subseteq Fault

VARIABLES
  (* the mesh *)
  mesh,              \* what runs: job id -> job, or NoJob
  stuck,             \* hosts that no longer answer deploys and kills
  depends_on_ready,  \* every dependency is advertised on the mesh
  advertised,        \* the DHT holds a record of the deployment's service
  gen,               \* index of the spec that is in force
  faults,            \* failures so far
  (* the controller, between ticks *)
  replicas,          \* Controller::replicas, by job id
  refresh_failures,  \* Controller::refresh_failures
  unanswered,        \* history: refreshes of a job that failed in a row
  (* the tick *)
  pc,                \* the part of the tick that comes next
  gate_ready,        \* gate.is_ready()
  step,              \* the RolloutStep of this tick
  kills,             \* the part of step.to_kill not yet attempted
  kill_failures,     \* TickReport::kill_failures
  alternates,        \* the part of on_target_live not yet looked at
  excess,            \* replicas to retire in place of a failed kill
  candidates,        \* ranked hosts that have not rejected this tick
  to_place,          \* placements still wanted
  attempts_left,     \* max_attempts - attempts
  place_failures     \* TickReport::place_failures

meshVars == <<mesh, stuck, depends_on_ready, advertised, gen, faults>>
keptVars == <<replicas, refresh_failures, unanswered>>
killVars == <<kills, kill_failures, alternates, excess>>
placeVars == <<candidates, to_place, attempts_left, place_failures>>
vars == <<meshVars, keptVars, pc, gate_ready, step, killVars, placeVars>>

d == Specs[gen]
target == d.revision

Job == [node_id : Node, revision : Revision, phase : Phase]
NoJob == [node_id |-> "none", revision |-> "none", phase |-> "none"]
Running(j) == mesh[j] # NoJob /\ mesh[j].phase \in Alive
NoStep == [to_place |-> 0, to_kill |-> {}, done |-> FALSE]

\* A slip: the entry is blanked and stays.
Blank(f, j) == [f EXCEPT ![j] = NoJob]

\* Functions with one entry less: Vec::retain, HashMap::retain.
Forget(f, j) == [i \in DOMAIN f \ {j} |-> f[i]]

\* A failure of kind f, charged to the budget.
Suffer(f) ==
  /\ f \in Faults
  /\ faults < MaxFaults
  /\ faults' = faults + 1

----------------------------------------------------------------------------
(* Initially nothing is tracked (Controller::new) and nothing runs. *)

Init ==
  /\ mesh = [j \in JobId |-> NoJob]
  /\ stuck = {}
  /\ depends_on_ready = TRUE
  /\ advertised = FALSE
  /\ gen = 1
  /\ faults = 0
  /\ replicas = [j \in {} |-> NoJob]
  /\ refresh_failures = [j \in {} |-> 0]
  /\ unanswered = [j \in JobId |-> 0]
  /\ pc = "idle"
  /\ gate_ready = FALSE
  /\ step = NoStep
  /\ kills = {}
  /\ kill_failures = 0
  /\ alternates = {}
  /\ excess = 0
  /\ candidates = {}
  /\ to_place = 0
  /\ attempts_left = 0
  /\ place_failures = 0

----------------------------------------------------------------------------
(* 1. refresh: ask for the phase of every replica, then apply the answers.  *)
(* The jobs are independent of each other, so reading them one after the    *)
(* other gives what reading them at one instant can give.                   *)

Misses(j) == IF j \in DOMAIN refresh_failures THEN refresh_failures[j] ELSE 0

\* A slip: an answer does not reset the counter.
NeverResetMisses(missed) ==
  [j \in missed \cup DOMAIN refresh_failures |->
     IF j \in missed THEN Misses(j) + 1 ELSE Misses(j)]

\* The counters after the replicas in missed gave no answer: an answer, and no
\* longer being tracked, both drop a counter.
CountMisses(missed) == [j \in missed |-> Misses(j) + 1]

\* The phase of a replica that gave no answer.
MissedPhase(j) ==
  IF Misses(j) + 1 >= (IF FailureThreshold > 1 THEN FailureThreshold ELSE 1)
  THEN "Failed" ELSE replicas[j].phase

Refresh ==
  /\ pc = "idle"
  /\ \E missed \in SUBSET DOMAIN replicas :
       /\ \/ missed = {} /\ UNCHANGED faults
          \/ /\ missed # {}
             /\ "refresh" \in Faults
             /\ faults + Cardinality(missed) <= MaxFaults
             /\ faults' = faults + Cardinality(missed)
       /\ replicas' = [j \in DOMAIN replicas |->
            [replicas[j] EXCEPT !.phase =
               IF j \in missed THEN MissedPhase(j) ELSE mesh[j].phase]]
       /\ refresh_failures' = CountMisses(missed)
       /\ unanswered' = [j \in JobId |->
            IF j \in missed THEN unanswered[j] + 1 ELSE 0]
  /\ pc' = "plan"
  /\ UNCHANGED <<mesh, stuck, depends_on_ready, advertised, gen, gate_ready,
                 step, killVars, placeVars>>

\* 1b and 2. evaluate_deps and plan_step. A lookup that fails counts as absent.
Plan ==
  /\ pc = "plan"
  /\ \/ gate_ready' = depends_on_ready /\ UNCHANGED faults
     \/ gate_ready' = FALSE /\ Suffer("dependency")
  /\ step' \in plan_step(d, replicas)
  /\ kills' = step'.to_kill
  /\ pc' = "kill"
  /\ UNCHANGED <<mesh, stuck, depends_on_ready, advertised, gen, keptVars,
                 kill_failures, alternates, excess, placeVars>>

----------------------------------------------------------------------------
(* A driver.kill of a tracked replica j, and what the mesh makes of it. A   *)
(* host confirms the kill of a job that has already ended.                  *)

Killed(j) ==
  /\ replicas[j].node_id \notin stuck
  /\ mesh' = [mesh EXCEPT ![j] = NoJob]
  /\ replicas' = Forget(replicas, j)
  /\ unanswered' = [unanswered EXCEPT ![j] = 0]
  /\ UNCHANGED faults

\* A slip: the replica is forgotten whatever the host answered.
ForgetUnkilled(j) ==
  /\ Suffer("kill")
  /\ replicas' = Forget(replicas, j)
  /\ UNCHANGED <<mesh, unanswered>>

NotKilled(j) ==
  /\ \/ replicas[j].node_id \in stuck /\ UNCHANGED <<mesh, faults>>
     \/ Suffer("kill") /\ UNCHANGED mesh
     \/ /\ Suffer("killReply")
        /\ Running(j)
        /\ replicas[j].node_id \notin stuck
        /\ mesh' = [mesh EXCEPT ![j].phase = "Failed"]
  /\ UNCHANGED <<replicas, unanswered>>

\* 3. One iteration over step.to_kill: an Err leaves the replica tracked.
Kill(j) ==
  /\ pc = "kill"
  /\ j \in kills
  /\ kills' = kills \ {j}
  /\ \/ Killed(j) /\ UNCHANGED kill_failures
     \/ NotKilled(j) /\ kill_failures' = kill_failures + 1
  /\ UNCHANGED <<stuck, depends_on_ready, advertised, gen, refresh_failures, pc,
                 gate_ready, step, alternates, excess, placeVars>>

\* 3b. After a failed kill, count the live replicas of the target revision
\* against the wanted number. Those of the plan were already tried.
\* A slip: the failed kills are added to the excess they are already part of.
CountFailedTwice ==
  Cardinality(NewLive(replicas, target)) + kill_failures - d.replicas

OnTargetExcess == Cardinality(NewLive(replicas, target)) - d.replicas

\* A slip: a failed kill is left to the next tick without a substitute.
NoSubstitutes ==
  /\ pc = "kill"
  /\ kills = {}
  /\ pc' = "rank"
  /\ UNCHANGED <<meshVars, keptVars, gate_ready, step, killVars, placeVars>>

KillsDone ==
  /\ pc = "kill"
  /\ kills = {}
  /\ IF kill_failures > 0
     THEN /\ alternates' = NewLive(replicas, target) \ step.to_kill
          /\ excess' = OnTargetExcess
          /\ pc' = "substitute"
     ELSE /\ pc' = "rank"
          /\ UNCHANGED <<alternates, excess>>
  /\ UNCHANGED <<meshVars, keptVars, gate_ready, step, kills, kill_failures,
                 placeVars>>

\* One iteration over on_target_live.
Substitute(j) ==
  /\ pc = "substitute"
  /\ excess > 0
  /\ j \in alternates
  /\ alternates' = alternates \ {j}
  /\ \/ /\ Killed(j)
        /\ kill_failures' = SatSub(kill_failures, 1)
        /\ excess' = excess - 1
     \/ NotKilled(j) /\ UNCHANGED <<kill_failures, excess>>
  /\ UNCHANGED <<stuck, depends_on_ready, advertised, gen, refresh_failures, pc,
                 gate_ready, step, kills, placeVars>>

SubstitutesDone ==
  /\ pc = "substitute"
  /\ excess <= 0 \/ alternates = {}
  /\ pc' = "rank"
  /\ UNCHANGED <<meshVars, keptVars, gate_ready, step, killVars, placeVars>>

----------------------------------------------------------------------------
(* 4. Placements. Which hosts rank returns, and in which order, is open:    *)
(* any of the candidates may be the best one.                               *)

MaxAttempts(wanted, ranked) ==
  IF 4 * wanted > Cardinality(ranked) + 1 THEN 4 * wanted
  ELSE Cardinality(ranked) + 1

Rank ==
  /\ pc = "rank"
  /\ IF step.to_place > 0 /\ gate_ready
     THEN /\ \/ candidates' \in {C \in SUBSET Node : ~(C \subseteq stuck)}
                /\ UNCHANGED faults
             \/ candidates' \in SUBSET stuck /\ Suffer("atlas")
          /\ to_place' = step.to_place
          /\ attempts_left' = MaxAttempts(step.to_place, candidates')
          /\ pc' = "place"
     ELSE /\ pc' = "advertise"
          /\ UNCHANGED <<faults, candidates, to_place, attempts_left>>
  /\ UNCHANGED <<mesh, stuck, depends_on_ready, advertised, gen, keptVars,
                 gate_ready, step, killVars, place_failures>>

Started(n) == [node_id |-> n, revision |-> target, phase |-> "Pending"]

\* A host gives a job an id that was not used before: one that nothing on the
\* mesh and nothing in the controller remembers.
Fresh(j) == mesh[j] = NoJob /\ j \notin DOMAIN refresh_failures

\* The host starts the job and the controller learns its id.
DeployOk(n, j) ==
  /\ n \notin stuck
  /\ Fresh(j)
  /\ mesh' = [mesh EXCEPT ![j] = Started(n)]
  /\ replicas' = [i \in DOMAIN replicas \cup {j} |->
       IF i = j THEN Started(n) ELSE replicas[i]]
  /\ to_place' = to_place - 1
  /\ UNCHANGED <<faults, candidates>>

\* The controller gets an error and drops the host from the candidates.
DeployErr(n) ==
  /\ \/ n \in stuck /\ UNCHANGED <<mesh, faults>>
     \/ Suffer("reject") /\ UNCHANGED mesh
     \/ /\ Suffer("deployReply")
        /\ n \notin stuck
        /\ \E j \in JobId : /\ Fresh(j)
                            /\ mesh' = [mesh EXCEPT ![j] = Started(n)]
  /\ candidates' = candidates \ {n}
  /\ UNCHANGED <<replicas, to_place>>

Deploy(n) ==
  /\ pc = "place"
  /\ to_place > 0
  /\ attempts_left > 0
  /\ n \in candidates
  /\ attempts_left' = attempts_left - 1
  /\ (\E j \in JobId : DeployOk(n, j)) \/ DeployErr(n)
  /\ UNCHANGED <<stuck, depends_on_ready, advertised, gen, refresh_failures,
                 unanswered, pc, gate_ready, step, killVars, place_failures>>

\* The three ways out of the loop: all is placed, no host is left, or the
\* attempts are used up.
PlacementsDone ==
  /\ pc = "place"
  /\ \/ to_place = 0 /\ UNCHANGED place_failures
     \/ /\ to_place > 0
        /\ attempts_left > 0
        /\ candidates = {}
        /\ place_failures' = place_failures + to_place
     \/ /\ to_place > 0
        /\ attempts_left = 0
        /\ place_failures' =
             place_failures + (IF candidates # {} THEN to_place ELSE 0)
  /\ pc' = "advertise"
  /\ UNCHANGED <<meshVars, keptVars, gate_ready, step, killVars, candidates,
                 to_place, attempts_left>>

----------------------------------------------------------------------------
(* 5. Advertise the service when a replica is known to run and the gate is  *)
(* open; then the tick is over.                                             *)

\* A slip: only a tick that wanted replicas advertises.
AdvertiseAfterPlacing ==
  Ready(replicas) # {} /\ gate_ready /\ step.to_place > 0

MayAdvertise == Ready(replicas) # {} /\ gate_ready

Advertise ==
  /\ pc = "advertise"
  /\ \/ /\ MayAdvertise
        /\ \/ advertised' = TRUE /\ UNCHANGED faults
           \/ Suffer("advertise") /\ UNCHANGED advertised
     \/ ~MayAdvertise /\ UNCHANGED <<advertised, faults>>
  /\ pc' = "idle"
  /\ gate_ready' = FALSE
  /\ step' = NoStep
  /\ kills' = {} /\ kill_failures' = 0 /\ alternates' = {} /\ excess' = 0
  /\ candidates' = {} /\ to_place' = 0 /\ attempts_left' = 0
  /\ place_failures' = 0
  /\ UNCHANGED <<mesh, stuck, depends_on_ready, gen, keptVars>>

Tick ==
  \/ Refresh
  \/ Plan
  \/ \E j \in JobId : Kill(j) \/ Substitute(j)
  \/ KillsDone
  \/ SubstitutesDone
  \/ Rank
  \/ \E n \in Node : Deploy(n)
  \/ PlacementsDone
  \/ Advertise

----------------------------------------------------------------------------
(* The environment: containers, hosts, the DHT, and the user between ticks. *)

tickVars == <<keptVars, pc, gate_ready, step, killVars, placeVars>>

JobStarts(j) ==
  /\ mesh[j].phase = "Pending"
  /\ mesh' = [mesh EXCEPT ![j].phase = "Running"]
  /\ UNCHANGED <<stuck, depends_on_ready, advertised, gen, faults, tickVars>>

\* A job nobody tracks is gone when it ends.
JobEnds(j) ==
  /\ Running(j)
  /\ Suffer("crash")
  /\ IF j \in DOMAIN replicas
     THEN \E p \in Endings : mesh' = [mesh EXCEPT ![j].phase = p]
     ELSE mesh' = [mesh EXCEPT ![j] = NoJob]
  /\ UNCHANGED <<stuck, depends_on_ready, advertised, gen, tickVars>>

HostSticks(n) ==
  /\ "stuck" \in Faults
  /\ stuck' = stuck \cup {n}
  /\ stuck' # Node
  /\ UNCHANGED <<mesh, depends_on_ready, advertised, gen, faults, tickVars>>

DependencyLost ==
  /\ depends_on_ready
  /\ Suffer("dependency")
  /\ depends_on_ready' = FALSE
  /\ UNCHANGED <<mesh, stuck, advertised, gen, tickVars>>

DependencyBack ==
  /\ ~depends_on_ready
  /\ depends_on_ready' = TRUE
  /\ UNCHANGED <<mesh, stuck, advertised, gen, faults, tickVars>>

\* DHT provider records expire.
RecordExpires ==
  /\ advertised
  /\ advertised' = FALSE
  /\ UNCHANGED <<mesh, stuck, depends_on_ready, gen, faults, tickVars>>

\* The user applies the next spec. A tick works on the spec it was given.
Apply ==
  /\ pc = "idle"
  /\ gen < Len(Specs)
  /\ gen' = gen + 1
  /\ UNCHANGED <<mesh, stuck, depends_on_ready, advertised, faults, tickVars>>

Environment ==
  \/ \E j \in JobId : JobStarts(j) \/ JobEnds(j)
  \/ \E n \in Node : HostSticks(n)
  \/ DependencyLost
  \/ DependencyBack
  \/ RecordExpires
  \/ Apply

Next == Tick \/ Environment

Spec == Init /\ [][Next]_vars

\* The daemon's loop always runs the next part of a tick: every driver call
\* returns, if only by its timeout. A container that was started either starts
\* to run or ends; a dependency that was lost is brought back.
Fairness ==
  /\ WF_vars(Tick)
  /\ \A j \in JobId : WF_vars(JobStarts(j))
  /\ WF_vars(DependencyBack)

FairSpec == Spec /\ Fairness

----------------------------------------------------------------------------
(* Type invariant *)

Replica == [node_id : Node, revision : Revision, phase : Phase]

\* The types of the variables; the tracked replicas and the plan are finite.
TypeOK ==
  /\ mesh \in [JobId -> Job \cup {NoJob}]
  /\ stuck \subseteq Node
  /\ depends_on_ready \in BOOLEAN
  /\ advertised \in BOOLEAN
  /\ gen \in 1..Len(Specs)
  /\ faults \in Nat
  /\ DOMAIN replicas \subseteq JobId
  /\ IsFiniteSet(DOMAIN replicas)
  /\ replicas \in [DOMAIN replicas -> Replica]
  /\ DOMAIN refresh_failures \subseteq JobId
  /\ refresh_failures \in [DOMAIN refresh_failures -> Nat]
  /\ unanswered \in [JobId -> Nat]
  /\ pc \in {"idle", "plan", "kill", "substitute", "rank", "place", "advertise"}
  /\ gate_ready \in BOOLEAN
  /\ step.to_place \in Nat
  /\ step.to_kill \subseteq JobId
  /\ step.done \in BOOLEAN
  /\ kills \subseteq step.to_kill
  /\ kill_failures \in Nat
  /\ alternates \subseteq JobId
  /\ excess \in Int
  /\ candidates \subseteq Node
  /\ to_place \in Nat
  /\ attempts_left \in Nat
  /\ place_failures \in Nat

----------------------------------------------------------------------------
(* Safety: what is known to the controller *)

Rolling == d.strategy = "RollingUpdate"
Placed == DOMAIN replicas' \ DOMAIN replicas
Retired == DOMAIN replicas \ DOMAIN replicas'

\* Rolling update, surge ceiling (spec.rs, rollout.rs): no placement takes the
\* live replicas the controller tracks above desired + max_surge, whatever
\* became of the kills of the same tick and of the deploys before it.
SurgeCeilingHeld ==
  [][Rolling /\ Placed # {} =>
       Cardinality(Live(replicas')) <= SurgeCeiling(d)]_vars

\* Rolling update, availability floor: no kill that the plan asked for takes
\* the replicas known to be ready below desired - max_unavailable, in whatever
\* order and with whatever success the kills are carried out.
PlannedKillsKeepFloor ==
  [][Rolling /\ pc = "kill" /\ Retired \cap Ready(replicas) # {} =>
       Cardinality(Ready(replicas')) >= AvailabilityFloor(d)]_vars

\* The same of every kill of a tick, those that stand in for a failed kill
\* (controller.rs, 3b) included: what spec.rs says of RollingUpdate.
NeverBelowFloor ==
  [][Rolling /\ Retired \cap Ready(replicas) # {} =>
       Cardinality(Ready(replicas')) >= AvailabilityFloor(d)]_vars

\* Scale-down and substitution together: a kill of a live replica of the
\* target revision, planned or in place of a failed one, leaves at least the
\* desired number of them.
NeverBelowDesired ==
  [][Retired \cap NewLive(replicas, target) # {} =>
       Cardinality(NewLive(replicas', target)) >= d.replicas]_vars

\* Bounded retry (controller.rs, refresh): a replica whose container lives is
\* tracked as terminal only after FailureThreshold refreshes in a row failed.
CondemnedOnlyAfterThreshold ==
  \A j \in DOMAIN replicas :
    Running(j) /\ replicas[j].phase \in Terminal
      => unanswered[j] >= FailureThreshold

\* TickReport::done: the tick ends with exactly the desired replicas alive, all
\* of them running and of the target revision.
DoneMeansRolledOut ==
  pc = "advertise" /\ step.done /\ gate_ready =>
    /\ Live(replicas) = NewReady(replicas, target)
    /\ Cardinality(Live(replicas)) = d.replicas

\* The last attempt of a tick cannot drop the last host.
HostsEndFirst == step.to_place <= 1 \/ Cardinality(Node) <= 3 * step.to_place

\* TickReport::place_failures: a wanted placement either happened or is
\* reported when the tick ends. Where attempts and hosts may run out together
\* it need not be. (Checked on the loop by itself, in Placement.)
ShortfallReported ==
  pc = "advertise" /\ HostsEndFirst => place_failures = to_place

----------------------------------------------------------------------------
(* Safety: what runs on the mesh *)

RunningJobs == {j \in JobId : Running(j)}

\* The tracked replicas are the source of truth for what was launched
\* (controller.rs): no container of the deployment runs untracked.
NoOrphan == RunningJobs \subseteq DOMAIN replicas

\* The surge ceiling of what really runs: no deploy takes the running
\* containers above desired + max_surge.
RunningWithinCeiling ==
  [][Rolling /\ RunningJobs' \ RunningJobs # {} =>
       Cardinality(RunningJobs') <= SurgeCeiling(d)]_vars

\* Recreate is for workloads that cannot run two revisions at once (spec.rs):
\* no deploy starts a container beside a running one of another revision.
OneRevisionAtOnce ==
  [][d.strategy = "Recreate" /\ RunningJobs' \ RunningJobs # {} =>
       \A i, j \in RunningJobs' : mesh'[i].revision = mesh'[j].revision]_vars

----------------------------------------------------------------------------
(* Liveness *)

\* Running tick to a fixed point converges: exactly the desired replicas, all
\* of the target revision and running, and nothing else tracked.
Converged ==
  /\ DOMAIN replicas = NewReady(replicas, target)
  /\ Cardinality(DOMAIN replicas) = d.replicas
  /\ \A j \in DOMAIN replicas : mesh[j].phase = "Running"

\* Once the failures stop, the last spec is rolled out and stays so, whatever
\* specs and failures came before.
EventuallyConverged == <>[]Converged

\* A stuck host does not keep a deployment from scaling (controller.rs, 3b):
\* the live replicas of the target revision become as many as desired, unless
\* all of them sit on hosts that cannot be reached.
EventuallyScaled ==
  <>[]( \/ Cardinality(NewLive(replicas, target)) = d.replicas
        \/ \A j \in NewLive(replicas, target) : replicas[j].node_id \in stuck)

\* The service is advertised again and again although its DHT record expires.
AlwaysReadvertised == []<>advertised

=============================================================================
