# A specification of ce-gke

TLA+ modules of ce-gke, the orchestrator that keeps a declared number of
container replicas running on the hosts of a CE mesh. They sit beside the code:
every definition is a translation of a named piece of `src/src/*.rs`
(`PROJECT.json`, "map"), checked by TLC on small instances and, where it says
so, proved with TLAPS for all of them.

Paths below are relative to the repository (`src/` is its root, the crate's
sources are in `src/src/`).

## 1. The system

ce-gke has no control plane. A command or a daemon pass takes the lock of one
JSON file, loads the store, runs ticks of a controller for one deployment after
the other, and saves the store. All that a tick knows of the world it learns
through one trait, `MeshDriver`.

| component | state it keeps | operations | it talks to |
|---|---|---|---|
| planners (`rollout.rs`, `reconcile.rs`) | none | `plan_step`, `reconcile` | called by the controller |
| controller (`controller.rs`) | replica handles (job, host, revision, last known phase), consecutive failed refreshes | `tick`, `converge` | driver calls: `phase`, `service_ready`, `kill`, `atlas`, `deploy`, `advertise_service` |
| deployment spec (`spec.rs`) | desired count, pod template, strategy, dependencies | parse, `validate`, `revision` | read by everything |
| driver (`driver.rs`) | none | the trait; `CeDriver` over the node's API, with a fallback from the host's agent to the local job record | the mesh |
| placement (`placement.rs`) | none | `rank`, `score_host`, `host_can_fit` | called by the tick |
| dependency gate (`deps.rs`) | none | `Gate::evaluate` | called by the tick with what `service_ready` saw |
| state file (`state.rs`) | specs, handles, history of specs, paused flag, by `namespace/name` | `load`, `migrate`, `upsert`, `push_history`, `save`; `StateLock` | the file system, other processes |
| daemon (`daemon.rs`) | none between passes | `reconcile_pass`, `run_daemon`, shutdown | lock, store, one new controller per deployment |
| command line (`main.rs`) | the loaded store | `apply`, `scale`, `rollout`, `delete`, `get`, `run`, `serve` | lock, store, controller |
| stacks (`stack.rs`) | none | `validate`, `apply_order`, `topo_sort` | called by `apply` |
| host agent (`serve.rs`, `protocol.rs`) | none | answer a probe with the job's phase | asked by `CeDriver::phase` |
| grants (`auth.rs`), secrets (`secrets.rs`) | a token; a file of secrets | `preflight`; `set`, `get` | ce-cap, the file system |

What is hard about it:

* A tick is a sequence of remote calls. Containers start and die, hosts vanish
  and come back between any two of them; the plan is carried out on a world that
  has moved on. Every call may fail, and an error does not tell whether the host
  did it.
* The plan mixes kills and placements under two budgets (never above
  `desired + max_surge`, never below `desired - max_unavailable`), and any
  subset of the kills and of the deploys may fail.
* Failures are counted over several ticks before a replica is given up, and a
  failed kill is answered by a different kill in the same tick.
* Several processes share one file under an advisory lock with a time-out.
* Handles exist only in memory until the store is saved.

What makes each component correct:

* **planners**: the budgets hold whatever part of a step succeeds; the budgets
  never block each other; a fleet on one revision is merely scaled and healed.
* **controller**: the budgets, over a whole tick and the interleavings of the
  mesh; no kill takes the target revision below desired; a living replica is
  condemned only after repeated failures; what is launched is tracked; a
  shortfall is reported; `done` is true when it is said; ticks converge.
* **state file**: processes exclude each other; no update is lost; a lock that
  is left behind does not stay; undo goes back to what was replaced.
* **commands, daemon**: a container that runs is known to the state file under
  its own deployment, however a command is cut short; the daemon heals what
  breaks and stops when told to.
* **probe**: a living replica is not taken for dead, the end of one is noticed.
* **placement**: the score is monotone, every host is asked before a replica is
  left unplaced.
* **gates, stacks**: producers come up first and a cycle is reported exactly when
  there is one; what waits comes up in the end, and an outage spreads.
* **manifest, grants, secrets**: names and revisions tell apart what they should;
  what runs is what was written; a refusal has a cause; the store survives a crash.

## 2. The modules

| module | models | kind |
|---|---|---|
| `Rollout` | `rollout.rs`, the steady-state plan of `reconcile.rs` | operators |
| `Planner` | one call of `plan_step` on any fleet | specification |
| `Controller` | `Controller::tick` over and over, and the mesh below the driver | specification |
| `SessionLedger` | what the state file promises | abstract specification |
| `Sessions` | lock, load, save and unlock of processes that share the state file | specification, implements `SessionLedger` |
| `Store` | the store as a value: `upsert`, `push_history`, undo, scale, `migrate` | operators |
| `History` | one entry of the store under apply, scale, undo, pause | specification |
| `Commands` | the commands and passes over the state file and the mesh, cut short anywhere | specification |
| `Daemon` | `run_daemon`, `reconcile_pass`, shutdown, commands beside it | specification |
| `Probe` | `CeDriver::phase`, the host agent, the messages between them | specification |
| `Gates` | several controllers that depend on each other through the DHT | specification |
| `TopoSort` | `topo_sort`, one iteration a step | specification |
| `Stack` | a file of several apps: parsed, checked, sorted by `TopoSort`, applied | specification |
| `Manifest` | validation, names, revision and command line of a deployment, byte by byte | specification |
| `Grants` | the grant of a deployment over time, `preflight` and the hosts' verdict | specification |
| `Placement` | `fit`, `score`, `rank` and the placement loop of a tick | specification |
| `Secrets` | the secret store as files and names of files | specification |
| `MCPlanner`, `MCController` | values of the constants for TLC | |
| `MCFiles`, `MCCommands`, `MCUpkeep`, `MCDependencies`, `MCDeploys` | values of the constants, and several specifications side by side | |
| `RolloutProofs`, `PlannerProofs` | lemmas about the planners, and their four properties | proofs |
| `ControllerProofs` | types; the invariant of the tick; the mesh; the count of the placements | proofs |
| `FilesProofs` | the lock, refinement of `SessionLedger`; the file of secrets | proofs |
| `StackProofs` | the order, the report of cycles, the stack as it is applied; circles of `Gates` | proofs |
| `CommandsProofs` | the handles of the state file (`Commands`), undo (`History`) | proofs |
| `UpkeepProofs` | `Daemon` and `Probe` | proofs |
| `DeploysProofs` | `Grants`, `Placement` and `Manifest` | proofs |

The modules cut the system where the code does: `Sessions` has the lock and one
mark for the work under it, `Commands` the work under the lock as if processes
took turns, `Daemon` the pass with one step for a tick, `Controller` the tick call
by call. What one of them abstracts is the subject of another one. `MCFiles`,
`MCCommands`, `MCUpkeep`, `MCDependencies` and `MCDeploys` place specifications
that do not interact side by side:
a variable says which of them a behaviour is about, the others keep their initial
state. A specification with several kinds of failure takes a *fault plan* at the
start, what may go wrong and how often; a property that the code keeps only in
the absence of some failure names that failure as its condition, so the same run
has the behaviours with it and those without.

Definitions that begin with "A slip" are plausible errors in one definition of the
model, each of them caught by a property (`PROJECT.json`, "mutants").

### Rollout

A fleet is a function from job ids to records with a revision and a phase: the
`Vec<ReplicaState>` without its order. Each counter of `RolloutCensus` is a set
(`Live`, `Ready`, `NewLive`, ...). A planner is the *set* of steps the code may
return: where the code picks among replicas of one kind by job id or by
position, the model leaves the choice open, so everything shown holds for every
tie-break. `PendingFirst` keeps what is not a tie: pending victims go before
running ones.

Counters are `u32` in the code, subtraction and addition saturate. `SatSub` is the
saturating subtraction; `desired + max_surge` needs no cap because `desired` is at
most 4096 and the sum is only compared with numbers that small.

### Controller

The state is the mesh (`mesh`, `stuck`, `depends_on_ready`, `advertised`), what
the controller keeps between ticks (`replicas`, `refresh_failures`), and where
the tick is (`pc`, `step`, `kills`, `alternates`, `candidates`, ...). One action
per driver call that can change the world:

| action | code | note |
|---|---|---|
| `Refresh` | `refresh` 94-127 | the answers are collected first and applied together; a failed one bumps the counter and condemns at the threshold |
| `Plan` | `evaluate_deps`, `plan_step` 129-177 | a failed lookup closes the gate |
| `Kill(j)` | 179-201 | any order; an error keeps the handle |
| `KillsDone`, `Substitute(j)`, `SubstitutesDone` | 203-238 | step 3b: other on-target replicas in place of failed kills |
| `Rank` | 240-250 | closed gate: no placements |
| `Deploy(n)`, `PlacementsDone` | 251-288 | an error drops the host |
| `Advertise` | 290-306 | |

`Fault` lists the ways a call may fail, among them the two where the host did
what it was asked and only the reply is lost (`killReply`, `deployReply`). The
environment's actions are the containers (`JobStarts`, `JobEnds`), the hosts
(`HostSticks`), the dependency, the expiry of the DHT record, and the user's next
spec (`Apply`, between ticks as the lock has it). `unanswered` is the only
history variable: it counts the refreshes of a job that really failed in a row,
so that the code's own counter can be judged.

Left out of the tick: the order and the choice of `rank` (any host may come
first, and a host may be chosen again), the text of reports, the grant that is
passed along, and `report.placed`/`report.killed`, which are copies of what
changed in `replicas`. The deployment names a service and has a dependency, the
case in which a tick does most.

### Sessions, SessionLedger

A process takes the lock (`CreateNew`, `AlreadyExists`, `CheckStale`, `RemoveStale`,
`GiveUp`: `StateLock::acquire` 219-248), loads, works, writes a temporary file,
renames it and drops the guard (`Drop`, 258-262). Each file operation is a step of
its own. `RemoveStale` and `Drop` remove whatever lock file is there by then, as
`remove_file` does. The work is one mark on the copy that was loaded, so that an
update that gets lost can be seen; a failure (`Fail`) leaves by the operator `?`,
a crash at any step. The clock stops at a lock whose owner is at work, unless the
fault plan lets sessions be long. `SessionLedger` says what users are promised: sessions
take effect one at a time on top of one another.

### Store, History, Commands

`Store` has the changes to one entry and to the map. `Commands` has the process:
`apply` (a stack of any length), `Scale`, `Status`, `Undo`, `Pause`, `Resume`, `Get`,
`Delete` with and without `--force`, and a pass of the daemon. A tick is any number
of `Launch` and `Retire` steps that bring the handles nearer to the spec; a
`Delete` tries every handle (`KillOk`, `KillErr`) and forgets them or keeps them
all. `PreflightFails`, `SaveFails` and `Crash` are where a command is cut short.
`abandoned` (history) has the jobs that a forced delete forgets on purpose.
`History` takes one entry through longer sequences than `Commands` can; `trail`
(history) is what a plain undo should go back along, until an `undo --to-revision`.

### Daemon

`Check`, `Acquire`, `Attempt`, `Tick(k)`, `SavePass`, `SaveFails`, `Wake` are the loop of
`run_daemon` (99-137) around `reconcile_pass` (41-94). Every pass has new counters of
failed refreshes (`NewCounters`). Commands take the same lock and change counts.

### Probe

A refresh asks for one job after the other (`Ask`), gets an answer (`Receive`), or
a time-out or garbage (`NoAnswer`), falls back to the payer's record (`Fallback`) and
applies all updates together (`Apply`). The agent fetches requests in batches
(`Fetch`), answers them in any order (`Answer`, with failing `jobs()` and `atlas()`
calls) and stops and starts. A late answer to an old request finds nobody: the
node keeps replies apart by token.

### Gates

One tick of one app is `Refresh`, a `Lookup` for each dependency and `Act`; ticks of
different apps interleave, containers end, hosts go, and records expire when they
are not advertised again (`ExpiresInTime`) or in spite of it (`ExpiresEarly`).
`CircleStaysDown` says what becomes of apps that depend on each other in a circle:
only a stack is checked for cycles, single manifests are accepted one by one. The
apps of the run have no circle, so it is proved and not run.

### TopoSort, Stack

`Emit(n)` is one iteration of the loop of `topo_sort` (stack.rs): the least node
that is ready goes into the order and the in-degrees of its dependents go down.
`Stack` runs the sort where `validate` and `apply_order` do, around the namespace
shift, the checks of keys and dependencies and the application app by app.

### Manifest, Grants, Placement, Secrets

Strings of `Manifest` are sequences of bytes other than NUL, short ones over the
characters that the checks tell apart; numbers of the pod template are sequences of
16-bit words, in their full width. Strings are UTF-8, and `trim` takes every character
of White_Space off their ends, not only those of ASCII. The digest of a revision is taken to have no
collisions; what is hashed is written out. `Grants` has chains of one link, and what ce-cap
says of them as the tests of `auth.rs` show it. In `Placement` 32-bit numbers have the
width of `Modulus`; the score is that of `placement.rs`, the loop that of the tick, with
its two ways out: an attempt that finds nobody (`NobodyLeft`) and the condition of the
loop (`LoopEnds`). `Controller` has the same loop without the ranking, for any mesh.
`Secrets` tells inodes from names, so that a rename under an open file is what it is.

## 3. The runs

| run | question | what it shows |
|---|---|---|
| `planner` | is every single plan within the budgets? | all fleets up to 4 replicas against all valid deployments up to 3 |
| `tick` | do the controller's promises survive every interleaving and failure? | a surge roll that is shrunk midway, two failures of any kind but a lost deploy reply |
| `mesh` | do they hold of what really runs? | all strategies one after the other, three failures |
| `converge` | does it end in the desired state? | every kind of failure but a stuck host, then silence |
| `stuck_host` | does a scale-down get past a host that never answers again? | step 3b is what it takes |
| `files` | do processes that share a file lose each other's work? | not while sessions end before the lock is stale (`MutualExclusion`, `ImplementsLedger`); a lock left behind does not stay (`NeverWedged`); a crash leaves the secrets as the finished commands made them (`FinishedIsKept`) |
| `commands` | is every container known, under its own deployment? | yes, unless a command is cut short (`NoForgottenReplica`); what was saved stays known even then (`SavedHandlesStay`); no handle changes its owner (`HandlesAreOwned`); undo goes back (`UndoGoesBack`) |
| `upkeep` | does the daemon heal, stop and lose nothing? is a replica's phase learned? | `SelfHealing`, `GracefulStop`, `NothingLostOnStop`; `GivenUpRightly`, `EndIsNoticed` |
| `dependencies` | do producers come first, and everything in the end? | the sort (`ProducersFirst`, `CyclicExactly`), a stack as it is applied (`ConsumersLast`), the gates (`AllUp`, `OutageSpreads`) |
| `deploys` | does what is written reach a host, and only that? | `NamesAreExact`, `RunsAsWritten`, `RefusedForCause`, `ScoreIsMonotone`, `EveryHostAsked`, `ShortfallReported` |
| `substitute_breaks_floor` | is the floor kept by *every* kill? | no: by the planned ones only |
| `daemon_silent` | does the daemon heal a replica that cannot be asked? | no: its counters of failed refreshes start anew in every pass |

The last two are expected to be violated; each is a disagreement between the code
and what its comments or the README promise (`PROJECT.json`, "findings").

* **A failed kill can take the fleet below the availability floor.** Step 3b
  kills live on-target replicas in the order they are stored, without regard to
  their phase or the floor. Scaling 2 to 1 with `max_unavailable: 0`: the victim
  is the replica that is still starting; its kill fails; the running one is
  killed in its place, and none is ready. `spec.rs:56` promises "never dropping
  below `desired - max_unavailable` available". What holds is `NeverBelowDesired`:
  as many replicas as desired stay alive, if not ready.
* **The daemon never gives a silent replica up.** Each pass makes a `Controller`
  per deployment and runs one tick of it, so a count of three failed refreshes
  in a row is never reached, and a replica on a host that is gone is never
  replaced as long as no command converges the deployment.

### Other divergences

Behaviours that differ from what the repository says of them, met while modelling.
The change in parentheses makes the named run show it.

| what happens | what it is measured against |
|---|---|
| A condemned replica whose kill fails runs on beside its replacement, above the surge ceiling; under Recreate two revisions run at once (`MCMesh.cfg`: `Specs <- NoSurge` or `DrainAndFill`, threshold 3, `Faults = {"refresh", "kill"}`, `MaxFaults = 4`) | `spec.rs:57`, `spec.rs:67` |
| The error of a deploy is taken for a rejection; if only the reply was lost nothing tracks the container (`MCTick.cfg`: `Faults = {"deployReply"}`) | `controller.rs:9` |
| With more than three hosts for each of several replicas the last attempt can drop the last host, and the missing replica is not reported (`Placement`: drop `HostsEndFirst` in `ShortfallReported`, run `deploys`) | `controller.rs:50` |
| A session that outlasts `LOCK_STALE_SECS`, or two processes that break one stale lock, lose updates (`Sessions`: drop the condition `Orderly`) | `state.rs:200` |
| A command that keeps the lock longer than `acquire` tries ends the daemon (`MCDaemonSilent.cfg` with the plan `{"contend"}` and one command) | `daemon.rs:96` |
| A stack whose second app fails its preflight forgets the replicas of the first (`Commands`: drop the condition of `NoForgottenReplica`) | `main.rs:10` |
| `undo --to-revision` may leave the revision in force in the history, and the next undo changes nothing (`History`: drop `~picked`) | `main.rs:125` |
| An undo rolls strategy, probes, service and dependencies back with the template | `main.rs:420` |
| A paused deployment rolls out on apply and undo | `state.rs:37` |
| A failed `jobs()` call of the agent condemns every replica it is asked for (`Probe`: drop `AgentInformed` in `GivenUpRightly`) | `controller.rs:22` |
| A replica is ready as soon as its container runs, whatever its readiness probe would say | `spec.rs:316` |
| Any record of a service counts as healthy, also one that outlives its last replica | `driver.rs:207` |
| With three replicas and eleven hosts the attempts end before every host is asked (`Placement`: drop `wanted <= 2`) | `README.md:166` |
| A deployment that is applied by itself has its dependencies looked up in its own namespace, not in the default one (`Manifest`: in `ServiceTells` compare the name resolved in `d.namespace` with `p.namespace = DefaultNamespace`, run `deploys`) | `spec.rs:338` |
| A host keeps its free capacity through a tick, and takes more replicas than fit | `placement.rs:35` |
| The memory asked for is cut to 32 bits before it is compared | `placement.rs:48` |
| Two apps that publish one service: the later one in the file is the owner, so the order of the file matters | `stack.rs:32` |
| `namespace: default`, written out, is overridden by the stack's | `stack.rs:48` |
| Two valid pod templates can have one revision: the words of the command are hashed without their count and the numbers follow. No command, cpu, memory, bid and duration 256, a variable `aa`; the command `[""]`, cpu, memory and bid 1, a duration of 1 + 97·2^56 seconds, a variable `a`. And a secret with an empty name is hashed like none (`Manifest`: drop either condition of `Tellable`, run `deploys`) | `spec.rs:370`, `spec.rs:386` |
| Variables without a command are accepted, and fail at every deploy | `spec.rs:497` |
| The image is trimmed for the check and sent untrimmed | `spec.rs:569` |
| Two commands at once share the temporary file of the secrets (`MCFiles.cfg`: two writers) | `secrets.rs:47` |
| The daemon reads the secrets once, when it starts | `secrets.rs:6` |
| A grant for hosts with a tag is refused by the preflight (`Grants`: drop the condition on the tag) | `auth.rs:50` |
| `delete` presents the stored grant although it has lapsed and `--grant` gave a good one | `main.rs:37` |

### Bounds, and why they are enough

* `planner` to `stuck_host`: 4 or 5 job ids. At most three replicas plus one surge
  are wanted at a time; an id returns to the pool when its job is gone and
  forgotten, so behaviours are unbounded in the number of deploys. 1 or 2 hosts:
  no property depends on which host a job is on, except through `stuck`. Two to
  four specs: a change of revision, of count (up and down), of strategy, each
  while the one before may be half done. `MaxFaults` 2 or 3; `FailureThreshold` is
  2 so that one failure is harmless and two are not. Symmetry over job ids and
  hosts in the runs without liveness.
* `files`: two processes with two sessions each, two attempts, a lock that is stale
  after one step of the clock: every order of break, take and drop of one lock
  happens, and a second session finds what the first one left. One writer of
  secrets with five commands over two names; four inodes are more than the two
  names and one open file need.
* `commands`: three job ids, two apps in a stack, a deployment of one name in two
  namespaces, a file of version 0 or none; three commands, the least that make,
  cut short and find; two failures. `MAX_HISTORY = 2` with four changes of
  revision, so that entries are dropped, and undone past. Symmetry over the job
  ids that the old file does not name.
* `upkeep`: two deployments, of which the daemon keeps one; three job ids against a
  count of at most two, a threshold of two, two commands, two faults of one kind
  or one of any. One replica is probed with up to three failures, one more than
  the threshold.
* `dependencies`: every graph on three keys with loops, every one on four without:
  the least with two independent cycles and with a diamond. Stacks of three apps
  over two services and two namespaces. Three apps with a chain and a short cut.
* `deploys`: names of up to two characters and some of three, over a letter, a hyphen
  and a slash; templates that differ in one number, also by a word other than the
  lowest, a negative bid, a secret without a name, and the two whose hashed bytes
  are the same (`Shifted`); two hosts, one of them with a root of its own
  and a tag, and ten grants; snapshots of two hosts with any load, of four,
  six and nine (the most hosts for which two and three replicas are always reported
  when they find no place), seven and eleven, at a width of three bits; a request for
  more memory than that width holds; up to three replicas a tick.

### Fairness

`FairSpec` of `Controller` assumes weak fairness of `Tick` (the loop of the daemon, or
of `converge`, always makes the next call, and every call returns, by its time-out
if need be), of `JobStarts(j)` (a container that was started either runs or
ends) and of `DependencyBack`. Nothing is assumed about which host is chosen, in
which order the kills go, or when the user applies a spec. Failures are finite
in number, which is what "once the failures stop" means; expiries of the DHT
record are not.

`Sessions`: the scheduler runs every process, the clock goes on, and processes come
back for another session (the daemon's next pass). `Daemon`: the runtime polls the
daemon, and a command ends, its ticks being limited; that a command or a signal
comes is not assumed. `Probe`: the driver and the agent, while it runs, make their
next step, and the payer learns of a settlement; that a stopped agent is started
again is not assumed. `Gates`: every app is ticked, hosts start what they accepted,
and a record that is not renewed expires.

## 4. The proofs

TLAPS proves, for every set of job ids, finite set of hosts, sequence of valid
specs, threshold, set and number of failures, number of processes and sessions,
file to start from, finite dependency map, manifest and width of the integers:

| theorem | property | module |
|---|---|---|
| `FloorTheorem`, `CeilingTheorem`, `NeverStuckTheorem`, `ReconcileTheorem` | the four properties of the planners | `PlannerProofs` |
| `TypeTheorem` | `TypeOK` | `ControllerProofs` |
| `SurgeTheorem`, `PlannedKillsTheorem`, `DesiredTheorem`, `DoneTheorem` | the ceiling, the floor, the desired count, `done` | |
| `HandleTheorem` | `NoOrphan`, if no deploy reply is lost | |
| `RunningCeilingTheorem`, `OneRevisionTheorem` | ceiling and Recreate on the mesh, if no refresh fails and no deploy reply is lost | |
| `BoundedRetryTheorem` | a living replica is condemned only after the threshold | |
| `ShortfallTheorem` | `ShortfallReported` of `Controller`: what is wanted and not placed is reported, with at most three hosts for each replica, or one replica | |
| `TypeTheorem`, `ExclusionTheorem`, `LedgerTheorem` | types of `Sessions`, `MutualExclusion`, `ImplementsLedger` | `FilesProofs` |
| `FinishedTheorem` | `FinishedIsKept`, with one writer of secrets | |
| `ProducersFirstTheorem`, `StuckTheorem`, `CyclicTheorem` | the order of the sort, what is left over, the report of cycles | `StackProofs` |
| `ConsumersTheorem` | `ConsumersLast` | |
| `HandlesTheorem`, `NoForgottenTheorem`, `SavedHandlesTheorem` | `HandlesAreOwned`, `NoForgottenReplica`, `SavedHandlesStay` | `CommandsProofs` |
| `UndoTheorem` | `UndoGoesBack` | |
| `StopTheorem` | `NothingLostOnStop` | `UpkeepProofs` |
| `GivenUpTheorem` | `GivenUpRightly`, if the host honours the grant | |
| `RefusedTheorem`, `ScoreTheorem`, `AskedTheorem`, `ReportedTheorem` | `RefusedForCause`, `ScoreIsMonotone`, `EveryHostAsked`, `ShortfallReported` | `DeploysProofs` |
| `WrittenTheorem` | `RunsAsWritten` | |
| `NamesAreExactTheorem` | `NamesAreExact` | |

Every safety property of the passing runs is among them. `CircleTheorem` (`StackProofs`)
shows `CircleStaysDown`, for any number of apps, dependencies and failures.

The hypotheses are needed. Those of `HandleTheorem`, `RunningCeilingTheorem` and
`OneRevisionTheorem` exclude divergences above, which have only the excluded kind of
failure (and a failed kill). Two writers
of secrets share a temporary file. An agent that refuses the grant answers that the
replica failed, whatever it does, so `GivenUpTheorem` is about a grant that is good
when the host knows its tags. `Orderly`, `AgentInformed`, `wanted <= 2`, `HostsEndFirst`, `Tellable` (durations below 2^32
seconds, no secret without a name) and the like are conditions of the properties
themselves.

Assumptions, each evaluated by TLC in the runs that use it: `SpecsAssumption`
(specs are deployments that `validate` accepts), `ParameterAssumption` (the atlas is
finite, a container ends in a terminal phase), `PlannerAssumption`,
`SessionsAssumption`, `GraphAssumption` and `StackAssumption` (maps are finite, keys have
a rank, apps are a sequence), `SecretsAssumption`, `HistoryAssumption`,
`CommandsAssumption` (what the first command finds is the file of an earlier one:
`Sane`), `DaemonAssumption` (the daemon keeps deployments that are there),
`ProbeAssumption`, `PlacementAssumption` and `ManifestAssumption` (numbers have their
width, strings are sequences of bytes, those of a manifest without a NUL, and the default
namespace is a name that is accepted).

**The tick.** `RolloutProofs` shows what a single step guarantees. The heart is
`RollingFloor`: the ready replicas left are `(new ready \ V) + (old ready \ R)`;
the trim `V` takes either no ready replica or, pending ones going first, leaves
exactly `desired` ready ones, and `R` is bounded by the ready replicas above
the floor. `ControllerProofs` carries this through the tick. The properties are
not inductive: that a kill keeps the floor depends on the kills that are still to
come. `TickInv` says what the remainder of the tick may rely on:

* `KillsLeaveEnough`: if *all* remaining kills succeed, the floor and the desired
  count still hold. Each kill that succeeds shrinks both sides alike, each that
  fails only leaves more.
* `ExcessExact`: during substitution `excess` is the number of on-target replicas
  above desired, and the alternates are among them.
* `RoomToPlace`: the placements still wanted fit under the ceiling on top of
  everything tracked (or, under Recreate, nothing old is live). Kills can only make
  room, deploys use it up one by one.
* `DoneStands`: a step that is done kills no live replica and places none.

The second half relates the tracked replicas to the mesh: a container starts
to be alive only by a deploy (`RunningChanges`), what a kill forgets no longer
runs (`ForgottenIsDead`), and while refreshes answer, whatever runs is tracked
as live (`RunningIsLive`).

**The lock.** Mutual exclusion is not inductive: two processes inside are excluded
by what the lock file says. `LockInv` adds that a process is inside exactly if the
lock file names it (`LockNamesHolder`), that nobody is about to break a lock
(`NobodyBreaks`: in orderly behaviours a held lock is never stale, and one that
is not held is not there), and that the copy of the one inside is the state file,
with its own mark once it has worked (`CopyIsCurrent`). The last part makes every
rename a `Commit` of `SessionLedger` and every other step a stutter (`LedgerStep`); as a
fault plan never changes what may go wrong (`OrderlyStays`), the refinement holds
of behaviours with any plan.

**The sort.** `SortInv` says what the counters mean: an in-degree is the number of
dependencies that are not in the order (`Counts`), `ready` has exactly the nodes
that wait for nothing (`ReadyExact`), the order is closed under dependencies and
has no node twice, and no set whose members wait for one another has lost one
to it (`NoWaitingEmitted`). When `ready` is empty, every node left has a positive
counter, so a dependency that is left as well; and the length of the order differs
from the number of nodes exactly when there is such a node.

**The placement.** That a shortfall is reported depends on how many attempts are
left. `PlacementsCounted` (`ControllerProofs`) and `Asked` (`DeploysProofs`) count: the
attempts made are the replicas placed and the hosts that said no, each host at
most once. With at most three hosts for each replica, or one replica, that many
attempts cannot drop the last host (`AttemptsUsedUp`), and the loop ends when all is
placed, when nobody is left and an attempt notices it, or with hosts in hand. Of two
replicas' eight attempts, one placement and six refusals leave one that notices;
one placement and seven refusals leave none.

**The stack.** `StackInv` adds to `SortInv` what the checks of a file establish before
the sort (`Checked`) and that what was applied is a prefix of the order (`Prefix`).

**The handles.** `HandlesAreOwned` needs to know of the file what it says of the
memory, and of a key what the spec under it says. `IInv` of `CommandsProofs` has: the
file and the memory are keyed by their specs and have only handles of their own
containers (`Stores`); what the file has and what runs is in memory too, until it is
saved (`Kept`); nothing that runs is missing, while no command is cut short
(`Whole`). Initially this is `Sane`, also of a file of version 0: `MigrateSound` shows that
the migration re-keys it without losing or mixing handles. For undo, `Trailed` says
that the history is the end of the trail of revisions and never has one twice
in a row.

**The daemon and the probe.** `DaemonInv` ties the pass to the lock (`PassHasLock`), so
that no command comes between what is loaded and what is saved, and what runs to
the store in force, the file between passes and the memory in them (`RunsTracked`).
`ProbeInv` says that the payer's record lags behind the host (`PayerLags`), that at most
one answer is not late (`OneFresh`), and that an answer, a record or an update on its
way that makes a replica failed is of one that is over (`FailedIsOver`), although it
has been on its way for a while: what is over stays over.

**The secrets.** `FilesApart`: the two names lead to different inodes, and the one in force
reads as the finished commands left it. `Saves`: a command has in memory what it will
have made of that, writes to the inode of the temporary name and to no other, and
renames it when it is whole. A crash between any two file operations leaves the one
store or the other.

**The manifest.** What is launched has been validated (`Carried`). A validated namespace has
no slash and a validated variable no `=` (`Lacks`), so the first one in the joined
string is where it was joined (`JoinTells`, `KvTells`), and env reads exactly the
variables before the program (`AssignmentsEnd`).

**The revision.** What is hashed is the image and a NUL, the words, the numbers and
the variables, one after the other. A list is written in a code (`IsCode`) when every
entry ends in one byte and a list that ends in an entry tells which one it is; two
such lists with the same bytes are the same list (`Decoded`). Words are a code with
NUL at the end, variables with 1 (`WordsAreCode`, `VariablesAreCode`). The 36 bytes of the
numbers between them have no mark, so the words could end later in one template
than in the other, and its numbers reach into the variables of that other one. But the
last four of these bytes are NULs (`Tellable`), and the bytes of variables do not begin
with one and have no three in a row (`Calm`, `EnvIsCalm`), so the numbers begin
at the same byte (`NoShift`). The inductions over lists are by least counterexample:
`Least` takes the well-foundedness of the naturals from the library and needs no theorem
with an operator as parameter.

**The circle.** `CirclesDown`: nobody in a circle has a replica or a record, no tick has
seen one, and no lookup of one has been answered but with Absent. So the gate of each is
closed when its tick acts (`GateIsClosed`), whatever the others do.

Only model-checked: liveness (`EventuallyConverged`, `EventuallyScaled`,
`AlwaysReadvertised`, `NeverWedged`, `GracefulStop`, `SelfHealing`, `EndIsNoticed`, `AllUp`,
`OutageSpreads`), which is outside what the provers used here can do.

## 5. What is not modelled

* The text of manifests and arguments (serde, clap), printing, logging, the text
  of reports and errors.
* ce-cap behind `auth.rs`: chains of more than one link, attenuation, signatures.
* The encoding of the probe messages: a message is whole or cannot be decoded.
* The readiness and liveness probes themselves: nothing in this repository runs
  them (`lib.rs:39` leaves that to the cell), and no outcome reaches a phase.
* The balance check of `preflight_checks`, other than as a cause of failure.
* `FakeDriver` and the examples: test doubles and a demonstration.
* Several deployments inside one `Controller` run: each has a controller of its
  own; they meet through the DHT (`Gates`) and the state file (`Commands`).

## 6. Running it

    tlc -config MCTick.cfg MCController     # any run of PROJECT.json
    tlapm ControllerProofs.tla              # any module of proofs
