------------------------------ MODULE Commands ------------------------------
(***************************************************************************)
(* The commands of src/src/main.rs and the passes of src/src/daemon.rs, one *)
(* after the other: each loads the state file, changes the store in memory, *)
(* reconciles what it changed, and saves. The lock keeps them apart, see    *)
(* Sessions; what a tick does in detail is in Controller. Here a tick is    *)
(* any number of launches, kills and reaped handles that bring the tracked  *)
(* replicas of one deployment nearer to its spec.                           *)
(*                                                                          *)
(* The question is what becomes of the handles, of which the state file has *)
(* the only lasting copy, when a command is cut short.                      *)
(***************************************************************************)
EXTENDS Store

CONSTANTS
  JobId,      \* ids a host may give to a job
  OldFiles,   \* what the state file and the mesh may be in the beginning
  Stacks,     \* sequences of specs, in the order apply_stack takes them
  Counts,     \* what one may scale to
  FaultPlans, \* [may, left]: what may go wrong, and how often
  MaxCommands \* commands and passes at most

Fault == {"kill",       \* a host does not confirm a kill
          "die",        \* a container ends between two commands
          "preflight",  \* the grant or the balance of an app is not enough
          "save",       \* the state file cannot be written
          "crash"}      \* the process dies

\* ManagedDeployment.
Entry == [spec : DeploymentSpec,
          replicas : SUBSET [job : JobId, revision : STRING],
          history : Seq(DeploymentSpec),
          paused : BOOLEAN]

\* A container that runs.
Job == [owner : Seq(STRING), revision : STRING]
NoJob == [owner |-> <<>>, revision |-> ""]

\* What the first command may find. A file of version 0 has the names for keys;
\* what runs is in the file, and a handle is of what runs, if that runs.
Sane(file, running) ==
  LET new == file.version >= STORE_VERSION
      old == file.deployments
      Identity(m) == key(IF new THEN m.spec ELSE forward(m).spec)
  IN  /\ file.version \in Nat
      /\ old \in [DOMAIN old -> Entry]
      /\ \A i \in DOMAIN old :
           i = IF new THEN key(old[i].spec) ELSE <<old[i].spec.name>>
      /\ running \in [JobId -> Job]
      /\ \A i \in DOMAIN old : \A h \in old[i].replicas :
           running[h.job] \in
             {NoJob, [owner |-> Identity(old[i]), revision |-> h.revision]}
      /\ \A j \in JobId : running[j] # NoJob =>
           \E i \in DOMAIN old : \E h \in old[i].replicas : h.job = j

ASSUME CommandsAssumption ==
  /\ \A old \in OldFiles : Sane(old.file, old.mesh)
  /\ Stacks \subseteq Seq(DeploymentSpec)
  /\ FaultPlans \subseteq [may : SUBSET Fault, left : Nat]
  /\ MaxCommands \in Nat
  /\ Counts \subseteq Nat

VARIABLES
  disk,       \* the state file: [version, deployments]
  mesh,       \* what runs: job id -> [owner, revision], or NoJob
  faults,     \* what may still go wrong
  commands,   \* commands so far
  abandoned,  \* history: jobs that a delete --force gave up on purpose
  (* the process *)
  pc,
  mem,        \* the store in memory
  queue,      \* specs of the stack that are not yet applied
  due,        \* deployments that are to be reconciled
  cur,        \* the deployment being reconciled or deleted
  todo,       \* handles that a delete has not tried yet
  failures,   \* kills of the delete that failed
  force       \* delete --force

worldVars == <<mesh, abandoned, faults>>
deleteVars == <<todo, failures, force>>
vars == <<worldVars, disk, commands, pc, mem, queue, due, cur, deleteVars>>

NoKey == <<>>
Runs(j) == mesh[j] # NoJob

\* The deployment that a job on the mesh was launched for.
Owner(app) == <<app.namespace, app.name>>

\* A ReplicaState: the job, and the revision it was launched with.
Handle(j, rev) == [job |-> j, revision |-> rev]
Jobs(store, k) == {h.job : h \in store[k].replicas}
AllJobs(store) == UNION {Jobs(store, k) : k \in DOMAIN store}

Suffer(f) ==
  /\ f \in faults.may
  /\ faults.left > 0
  /\ faults' = [faults EXCEPT !.left = @ - 1]

Init ==
  /\ \E old \in OldFiles : disk = old.file /\ mesh = old.mesh
  /\ faults \in FaultPlans
  /\ commands = 0
  /\ abandoned = {}
  /\ pc = "idle"
  /\ mem = [k \in {} |-> NewEntry]
  /\ queue = <<>>
  /\ due = {}
  /\ cur = NoKey
  /\ todo = {}
  /\ failures = 0
  /\ force = FALSE

----------------------------------------------------------------------------
(* main: lock, load, dispatch. A command that names a deployment that is    *)
(* not there, or a revision that is not in its history, ends with an error  *)
(* before it has changed anything.                                          *)

loaded == migrate(disk)

\* The process has the store in memory and does next what pc says.
Begin(store, next) ==
  /\ pc = "idle"
  /\ commands < MaxCommands
  /\ commands' = commands + 1
  /\ mem' = store
  /\ pc' = next
  /\ UNCHANGED <<worldVars, disk>>

\* The commands that change one entry and reconcile it.
Change(k, entry) ==
  /\ Begin([loaded EXCEPT ![k] = entry], "next")
  /\ due' = {k}
  /\ UNCHANGED <<queue, cur, deleteVars>>

\* apply and apply_stack: a single manifest is a stack of one app.
apply(stack) ==
  /\ Begin(loaded, "next")
  /\ queue' = stack
  /\ UNCHANGED <<due, cur, deleteVars>>

Scale(k, n) == Change(k, scale(loaded[k], n))
Status(k) == Change(k, loaded[k])
Undo(k) ==
  /\ CanUndo(loaded[k])
  /\ Change(k, undo(loaded[k]))
Resume(k) == Change(k, set_paused(loaded[k], FALSE))

\* Pause saves without reconciling.
Pause(k) ==
  /\ Begin([loaded EXCEPT ![k] = set_paused(@, TRUE)], "save")
  /\ UNCHANGED <<queue, due, cur, deleteVars>>

\* get and rollout history change nothing, but the store is saved all the same.
Get == Begin(loaded, "save") /\ UNCHANGED <<queue, due, cur, deleteVars>>

Delete(k, f) ==
  /\ Begin(loaded, "delete")
  /\ cur' = k
  /\ todo' = Jobs(loaded, k)
  /\ failures' = 0
  /\ force' = f
  /\ UNCHANGED <<queue, due>>

\* reconcile_pass over the deployments of one namespace, or of all of them.
names_in(store, ns) == {k \in DOMAIN store : store[k].spec.namespace = ns}

Pass(keys) ==
  /\ Begin(loaded, "next")
  /\ due' = keys
  /\ UNCHANGED <<queue, cur, deleteVars>>

Command ==
  \/ \E s \in Stacks : apply(s)
  \/ \E k \in DOMAIN loaded :
       \/ \E n \in Counts : Scale(k, n)
       \/ Status(k) \/ Undo(k) \/ Pause(k) \/ Resume(k)
       \/ \E f \in BOOLEAN : Delete(k, f)
       \/ Pass(names_in(loaded, k[1]))
  \/ Pass(DOMAIN loaded)
  \/ Get

----------------------------------------------------------------------------
(* apply_stack: one app after the other; and reconcile_to_convergence.      *)

NextApp ==
  /\ pc = "next"
  /\ queue # <<>>
  /\ mem' = upsert(mem, Head(queue))
  /\ cur' = key(Head(queue))
  /\ queue' = Tail(queue)
  /\ pc' = "reconcile"
  /\ UNCHANGED <<worldVars, disk, commands, due, deleteVars>>

\* preflight_checks, or the spec's validation: the error leaves main before
\* the store is saved.
PreflightFails ==
  /\ pc = "next"
  /\ queue # <<>>
  /\ Suffer("preflight")
  /\ pc' = "idle"
  /\ queue' = <<>>
  /\ UNCHANGED <<disk, mesh, abandoned, commands, mem, due, cur,
                 deleteVars>>

NextKey ==
  /\ pc = "next"
  /\ queue = <<>>
  /\ cur' \in due
  /\ due' = due \ {cur'}
  /\ pc' = "reconcile"
  /\ UNCHANGED <<worldVars, disk, commands, mem, queue, deleteVars>>

AllDone ==
  /\ pc = "next"
  /\ queue = <<>>
  /\ due = {}
  /\ pc' = "save"
  /\ UNCHANGED <<worldVars, disk, commands, mem, queue, due, cur,
                 deleteVars>>

\* The tracked replicas of cur, in the controller and after the tick in mem.
replicas == mem[cur].replicas
spec == mem[cur].spec
OnTarget == {h \in replicas : h.revision = spec.revision /\ Runs(h.job)}

Ticking(handles) ==
  /\ pc = "reconcile"
  /\ mem' = [mem EXCEPT ![cur].replicas = handles]
  /\ UNCHANGED <<disk, commands, pc, queue, due, cur, deleteVars>>

\* A host gives a job an id that nothing remembers.
Fresh(j) == ~Runs(j) /\ j \notin AllJobs(mem) \cup AllJobs(loaded)

Launch(j) ==
  /\ Fresh(j)
  /\ Cardinality(OnTarget) < spec.replicas
  /\ Ticking(replicas \cup {Handle(j, spec.revision)})
  /\ mesh' = [mesh EXCEPT ![j] = [owner |-> Owner(spec), revision |-> spec.revision]]
  /\ UNCHANGED <<abandoned, faults>>

\* A replica of another revision, one too many, or one that has ended.
Surplus(h) ==
  \/ h.revision # spec.revision
  \/ Cardinality(OnTarget) > spec.replicas
  \/ ~Runs(h.job)

Retire(h) ==
  /\ h \in replicas
  /\ Surplus(h)
  /\ Ticking(replicas \ {h})
  /\ mesh' = [mesh EXCEPT ![h.job] = NoJob]
  /\ UNCHANGED <<abandoned, faults>>

\* The tick reports done, or the ticks are used up.
TicksOver ==
  /\ pc = "reconcile"
  /\ pc' = "next"
  /\ UNCHANGED <<worldVars, disk, commands, mem, queue, due, cur,
                 deleteVars>>

Reconcile ==
  \/ \E j \in JobId : pc = "reconcile" /\ Launch(j)
  \/ pc = "reconcile" /\ \E h \in replicas : Retire(h)
  \/ TicksOver

----------------------------------------------------------------------------
(* delete *)

Tried(j) ==
  /\ pc = "delete"
  /\ j \in todo
  /\ todo' = todo \ {j}
  /\ UNCHANGED <<disk, abandoned, commands, pc, mem, queue, due, cur,
                 force>>

KillOk(j) ==
  /\ Tried(j)
  /\ mesh' = [mesh EXCEPT ![j] = NoJob]
  /\ UNCHANGED <<faults, failures>>

KillErr(j) ==
  /\ Tried(j)
  /\ Suffer("kill")
  /\ failures' = failures + 1
  /\ UNCHANGED mesh

Forgotten == {j \in Jobs(mem, cur) : Runs(j)}

\* A slip: the failures are only counted for the message.
ForgetAnyway ==
  /\ pc = "delete"
  /\ todo = {}
  /\ pc' = "save"
  /\ mem' = Without(mem, cur)
  /\ abandoned' = IF force THEN abandoned \cup Forgotten ELSE abandoned
  /\ UNCHANGED <<disk, mesh, faults, commands, queue, due, cur, deleteVars>>

\* With failures and without --force the entry is kept, with all its handles.
DeleteDone ==
  /\ pc = "delete"
  /\ todo = {}
  /\ pc' = "save"
  /\ IF failures > 0 /\ ~force
     THEN UNCHANGED <<mem, abandoned>>
     ELSE /\ mem' = Without(mem, cur)
                  /\ abandoned' = abandoned \cup Forgotten
  /\ UNCHANGED <<disk, mesh, faults, commands, queue, due, cur, deleteVars>>

----------------------------------------------------------------------------
(* store.save, and the ends of a process *)

Save ==
  /\ pc = "save"
  /\ disk' = [version |-> STORE_VERSION, deployments |-> mem]
  /\ pc' = "idle"
  /\ UNCHANGED <<worldVars, commands, mem, queue, due, cur, deleteVars>>

SaveFails ==
  /\ pc = "save"
  /\ Suffer("save")
  /\ pc' = "idle"
  /\ UNCHANGED <<disk, mesh, abandoned, commands, mem, queue, due, cur,
                 deleteVars>>

Crash ==
  /\ pc # "idle"
  /\ Suffer("crash")
  /\ pc' = "idle"
  /\ queue' = <<>>
  /\ due' = {}
  /\ UNCHANGED <<disk, mesh, abandoned, commands, mem, cur, deleteVars>>

\* Containers end between commands; that they end during a tick is the subject
\* of Controller.
JobDies(j) ==
  /\ pc = "idle"
  /\ Runs(j)
  /\ Suffer("die")
  /\ mesh' = [mesh EXCEPT ![j] = NoJob]
  /\ UNCHANGED <<disk, abandoned, commands, pc, mem, queue, due, cur,
                 deleteVars>>

Next ==
  \/ Command
  \/ NextApp \/ PreflightFails \/ NextKey \/ AllDone
  \/ Reconcile
  \/ \E j \in JobId : KillOk(j) \/ KillErr(j) \/ JobDies(j)
  \/ DeleteDone
  \/ Save \/ SaveFails \/ Crash

Spec == Init /\ [][Next]_vars

----------------------------------------------------------------------------
(* Properties *)

\* The handles are the record of what was launched (state.rs): whatever runs is
\* tracked, under its own deployment, in the state file or by the command that
\* is at work on it; except what the user told a delete to forget. A command that
\* is cut short may forget what it launched.
TrackedIn(store, j) ==
  \E k \in DOMAIN store : /\ j \in Jobs(store, k)
                          /\ Owner(store[k].spec) = mesh[j].owner

NoForgottenReplica ==
  faults.may \cap {"preflight", "save", "crash"} = {} =>
  \A j \in JobId \ abandoned :
    Runs(j) => TrackedIn(loaded, j) \/ (pc # "idle" /\ TrackedIn(mem, j))

\* A handle belongs to one deployment, by namespace and name: scaling, rolling
\* back or deleting one never acts on the replicas of another, and the revision
\* of a handle is the one that runs.
HandlesAreOwned ==
  pc # "idle" =>
    \A k \in DOMAIN mem : \A h \in mem[k].replicas :
      Runs(h.job) => /\ mesh[h.job].owner = Owner(mem[k].spec)
                     /\ mesh[h.job].revision = h.revision

\* Whatever cuts a command short (an error, a failed write, a crash), a replica
\* that the state file knows stays known as long as it runs.
SavedHandlesStay ==
  [][\A j \in JobId :
       Runs(j) /\ TrackedIn(loaded, j) /\ mesh'[j] # NoJob
         => j \in abandoned' \/ TrackedIn(loaded, j)']_vars

=============================================================================
