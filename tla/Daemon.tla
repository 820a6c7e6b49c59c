------------------------------- MODULE Daemon -------------------------------
(***************************************************************************)
(* run_daemon and reconcile_pass of src/src/daemon.rs with run_cmd of       *)
(* src/src/main.rs: passes under the state lock until the shutdown channel  *)
(* fires, beside commands that take the same lock and change the counts.    *)
(*                                                                          *)
(* A tick of the controller is one step here. It is the tick of Controller  *)
(* cut down to one revision and to what a pass adds to it: the counters of  *)
(* failed refreshes are those of a controller made for this pass.           *)
(***************************************************************************)
EXTENDS Naturals, FiniteSets

CONSTANTS
  Key,              \* managed deployments
  Filter,           \* those the daemon reconciles (its namespace, or all)
  JobId,            \* ids a host may give to a job
  Count,            \* replica counts a command may ask for
  FailureThreshold, \* Controller::failure_threshold
  Tries,            \* attempts of one StateLock::acquire
  FaultPlans,       \* [may, left]: what may go wrong, and how often
  MaxCommands       \* commands beside the daemon at most

Fault == {"end",      \* a container ends
          "silent",   \* a replica's phase cannot be learned any more
          "contend",  \* a command keeps the lock longer than acquire tries
          "save"}     \* the state file cannot be written

VARIABLES
  runs,      \* containers that run
  silent,    \* replicas whose phase cannot be learned
  faults,    \* what may still go wrong
  commands,  \* commands so far
  disk,      \* the state file: key -> [count, replicas]
  lock,      \* "free", "daemon" or "command"
  shutdown,  \* the value in the watch channel
  pc,        \* what the daemon does next
  tries,     \* attempts left
  mem,       \* the store of this pass
  todo,      \* deployments of this pass still to come
  misses     \* refresh_failures of the controllers, by job

daemonVars == <<pc, tries, mem, todo, misses>>
vars == <<runs, silent, faults, commands, disk, lock, shutdown, daemonVars>>

Suffer(f) ==
  /\ f \in faults.may
  /\ faults.left > 0
  /\ faults' = [faults EXCEPT !.left = @ - 1]

NoMisses == [j \in JobId |-> 0]

\* Nothing runs yet; the deployments have been applied with some count.
Init ==
  /\ runs = {}
  /\ silent = {}
  /\ faults \in FaultPlans
  /\ commands = 0
  /\ disk \in [Key -> [count : Count, replicas : {[j \in {} |-> "Running"]}]]
  /\ lock = "free"
  /\ shutdown = FALSE
  /\ pc = "check"
  /\ tries = 0
  /\ mem = disk
  /\ todo = {}
  /\ misses = NoMisses

----------------------------------------------------------------------------
(* run_daemon *)

\* A slip: the channel is looked at only while the daemon sleeps.
CheckNothing ==
  /\ pc = "check"
  /\ pc' = "acquire"
  /\ tries' = Tries
  /\ UNCHANGED <<runs, silent, faults, commands, disk, lock, shutdown, mem,
                 todo, misses>>

Check ==
  /\ pc = "check"
  /\ pc' = IF shutdown THEN "stopped" ELSE "acquire"
  /\ tries' = Tries
  /\ UNCHANGED <<runs, silent, faults, commands, disk, lock, shutdown, mem,
                 todo, misses>>

\* StateLock::acquire and Store::load.
Acquire ==
  /\ pc = "acquire"
  /\ lock = "free"
  /\ lock' = "daemon"
  /\ pc' = "pass"
  /\ mem' = disk
  /\ todo' = Filter
  /\ UNCHANGED <<runs, silent, faults, commands, disk, shutdown, tries, misses>>

\* An attempt in vain. After the last one the error ends the daemon. Commands
\* that keep the lock that long are a fault to be asked for.
Attempt ==
  /\ pc = "acquire"
  /\ lock # "free"
  /\ tries > 1 \/ "contend" \in faults.may
  /\ tries' = tries - 1
  /\ pc' = IF tries' = 0 THEN "failed" ELSE pc
  /\ UNCHANGED <<runs, silent, faults, commands, disk, lock, shutdown, mem,
                 todo, misses>>

----------------------------------------------------------------------------
(* One tick for k: refresh, plan, kill, place. *)

\* Controller::new for every deployment and pass.
NewCounters == NoMisses

\* Beyond the threshold a counter makes no difference any more.
Counted(j) ==
  IF j \notin silent THEN 0
  ELSE IF NewCounters[j] < FailureThreshold THEN NewCounters[j] + 1
  ELSE FailureThreshold

\* A slip: the phases are those of the state file.
StoredPhases(reps) == reps

\* refresh: an answer is the truth, a miss changes the phase at the threshold.
Refreshed(reps) ==
  [j \in DOMAIN reps |->
     IF j \notin silent THEN IF j \in runs THEN "Running" ELSE "Failed"
     ELSE IF Counted(j) >= FailureThreshold THEN "Failed" ELSE reps[j]]

Live(reps) == {j \in DOMAIN reps : reps[j] = "Running"}
Tracked(store) == UNION {DOMAIN store[k].replicas : k \in Key}
Free == JobId \ (runs \cup Tracked(mem) \cup Tracked(disk))

\* Kills of dead and of surplus replicas succeed where the host answers; what
\* is missing is placed as long as there are ids.
Tick(k) ==
  /\ pc = "pass"
  /\ k \in todo
  /\ todo' = todo \ {k}
  /\ LET reps == Refreshed(mem[k].replicas)
         live == Live(reps)
         count == mem[k].count
     IN  \E victims \in SUBSET live, placed \in SUBSET Free :
           /\ Cardinality(victims) =
                IF Cardinality(live) > count THEN Cardinality(live) - count ELSE 0
           /\ Cardinality(placed) <=
                IF count > Cardinality(live) THEN count - Cardinality(live) ELSE 0
           /\ Cardinality(placed) + Cardinality(live) < count => placed = Free
           /\ LET gone == (victims \cup (DOMAIN reps \ live)) \ silent
                  kept == DOMAIN reps \ gone
              IN  /\ runs' = (runs \ gone) \cup placed
                  /\ mem' = [mem EXCEPT ![k].replicas =
                       [j \in kept \cup placed |->
                          IF j \in placed THEN "Running" ELSE reps[j]]]
  /\ misses' = [j \in JobId |-> IF j \in DOMAIN mem[k].replicas THEN Counted(j)
                                ELSE misses[j]]
  /\ UNCHANGED <<silent, faults, commands, disk, lock, shutdown, pc, tries>>

\* A slip: a pass that is interrupted by the shutdown is not saved.
SaveUnlessStopping ==
  /\ pc = "pass"
  /\ todo = {}
  /\ disk' = IF shutdown THEN disk ELSE mem
  /\ lock' = "free"
  /\ pc' = "sleep"
  /\ UNCHANGED <<runs, silent, faults, commands, shutdown, tries, mem, todo,
                 misses>>

\* store.save, and the guard of the lock goes out of scope.
SavePass ==
  /\ pc = "pass"
  /\ todo = {}
  /\ disk' = mem
  /\ lock' = "free"
  /\ pc' = "sleep"
  /\ UNCHANGED <<runs, silent, faults, commands, shutdown, tries, mem, todo,
                 misses>>

SaveFails ==
  /\ pc = "pass"
  /\ todo = {}
  /\ Suffer("save")
  /\ lock' = "free"
  /\ pc' = "failed"
  /\ UNCHANGED <<runs, silent, commands, disk, shutdown, tries, mem, todo,
                 misses>>

\* select!: the interval is over, or the channel has changed. When both are
\* ready either may be taken.
Wake ==
  /\ pc = "sleep"
  /\ pc' \in {"check"} \cup (IF shutdown THEN {"stopped"} ELSE {})
  /\ UNCHANGED <<runs, silent, faults, commands, disk, lock, shutdown, tries,
                 mem, todo, misses>>

Step ==
  \/ Check \/ Acquire \/ Attempt
  \/ \E k \in Filter : Tick(k)
  \/ SavePass \/ Wake

----------------------------------------------------------------------------
(* The rest of the world *)

\* SIGINT or SIGTERM.
Signal ==
  /\ ~shutdown
  /\ shutdown' = TRUE
  /\ UNCHANGED <<runs, silent, faults, commands, disk, lock, daemonVars>>

CommandLocks ==
  /\ lock = "free"
  /\ commands < MaxCommands
  /\ commands' = commands + 1
  /\ lock' = "command"
  /\ UNCHANGED <<runs, silent, faults, disk, shutdown, daemonVars>>

\* A scale whose convergence is left to the daemon.
CommandEnds ==
  /\ lock = "command"
  /\ \E k \in Key, n \in Count : disk' = [disk EXCEPT ![k].count = n]
  /\ lock' = "free"
  /\ UNCHANGED <<runs, silent, faults, commands, shutdown, daemonVars>>

ContainerEnds(j) ==
  /\ j \in runs
  /\ Suffer("end")
  /\ runs' = runs \ {j}
  /\ UNCHANGED <<silent, commands, disk, lock, shutdown, daemonVars>>

HostFallsSilent(j) ==
  /\ j \in runs \ silent
  /\ Suffer("silent")
  /\ silent' = silent \cup {j}
  /\ UNCHANGED <<runs, commands, disk, lock, shutdown, daemonVars>>

Next ==
  \/ Step \/ SaveFails
  \/ Signal \/ CommandLocks \/ CommandEnds
  \/ \E j \in JobId : ContainerEnds(j) \/ HostFallsSilent(j)

Spec == Init /\ [][Next]_vars

\* The runtime polls the daemon, every call of a tick returns by its time-out,
\* and a command ends, its ticks being limited (--max-ticks).
FairSpec == Spec /\ WF_vars(Step) /\ WF_vars(CommandEnds)

----------------------------------------------------------------------------
(* Properties *)

\* "a clean stop" (daemon.rs): whenever the daemon has not failed and is between
\* two passes, or has stopped, the state file tracks every container that runs.
NothingLostOnStop ==
  pc \in {"check", "acquire", "sleep", "stopped"} => runs \subseteq Tracked(disk)

\* Graceful shutdown: the signal ends the daemon, which ends by an error only
\* when it cannot get the lock or cannot save.
GracefulStop ==
  shutdown ~> \/ pc = "stopped"
              \/ pc = "failed" /\ faults.may \cap {"contend", "save"} # {}

\* The replicas of k that run and can be asked are as many as are wanted.
Healed(k) ==
  Cardinality({j \in DOMAIN disk[k].replicas \ silent : j \in runs})
    = disk[k].count

\* Unless it is told to stop, every deployment the daemon looks after ends up
\* with the replicas it should have.
Heals == <>shutdown \/ <>[](\A k \in Filter : Healed(k))

\* The daemon makes self-healing real (daemon.rs), as long as it can learn the
\* phases of the replicas, gets the lock in time and can save.
SelfHealing == faults.may \cap {"silent", "contend", "save"} = {} => Heals

=============================================================================
