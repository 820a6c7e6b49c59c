--------------------------- MODULE CommandsProofs ---------------------------
(***************************************************************************)
(* What the commands make of the handles (Commands), for every initial      *)
(* state file and mesh that agree, every stack, every number of commands,   *)
(* and every way of cutting them short; and that undo goes back (History).  *)
(***************************************************************************)
EXTENDS MCCommands, TLAPS

----------------------------------------------------------------------------
(* The store as a value *)

\* The entries of a store are managed deployments, each under its own key.
Keyed(s) ==
  /\ s \in [DOMAIN s -> Entry]
  /\ \A k \in DOMAIN s : key(s[k].spec) = k

\* t has the replicas of s, whatever became of the specs.
SameReplicas(s, t) ==
  /\ DOMAIN s \subseteq DOMAIN t
  /\ \A k \in DOMAIN s : t[k].replicas = s[k].replicas
  /\ \A k \in DOMAIN t \ DOMAIN s : t[k].replicas = {}

\* The history stays a sequence of specs.
LEMMA PushType ==
  ASSUME NEW m \in Entry, NEW prior \in DeploymentSpec
  PROVE  /\ push_history(m, prior) \in Entry
         /\ push_history(m, prior).replicas = m.replicas
<1> DEFINE h == Append(m.history, prior)
<1>1. m.history \in Seq(DeploymentSpec) /\ h \in Seq(DeploymentSpec)
  BY DEF Entry
<1>2. DropOldest(h) \in Seq(DeploymentSpec)
  BY <1>1, HistoryAssumption DEF DropOldest
<1>3. push_history(m, prior) \in {m, [m EXCEPT !.history = DropOldest(h)]}
  BY DEF push_history
<1> HIDE DEF h
<1> QED BY <1>2, <1>3 DEF Entry

\* An entry whose spec is replaced keeps its shape.
LEMMA ReplacedType ==
  ASSUME NEW m \in Entry, NEW s \in DeploymentSpec
  PROVE  /\ replaced(m, s) \in Entry
         /\ replaced(m, s).spec = s
         /\ replaced(m, s).replicas = m.replicas
<1>1. m.spec \in DeploymentSpec
  BY DEF Entry
<1>2. PICK n \in Entry : /\ n.replicas = m.replicas
                         /\ replaced(m, s) = [n EXCEPT !.spec = s]
  BY <1>1, PushType DEF replaced
<1> QED BY <1>2 DEF Entry

\* An entry that is made by its first apply.
LEMMA FirstType ==
  ASSUME NEW s \in DeploymentSpec
  PROVE  /\ replaced(NewEntry, s) \in Entry
         /\ replaced(NewEntry, s).spec = s
         /\ replaced(NewEntry, s).replicas = {}
         /\ replaced(NewEntry, s).history = <<>>
<1>1. ~Outgoing(NewEntry, s)
  BY DEF Outgoing, NewEntry, NoSpec
<1>2. replaced(NewEntry, s) = [NewEntry EXCEPT !.spec = s]
  BY <1>1 DEF replaced
<1>3. replaced(NewEntry, s) =
        [spec |-> s, replicas |-> {}, history |-> <<>>, paused |-> FALSE]
  BY <1>2 DEF NewEntry
<1>4. <<>> \in Seq(DeploymentSpec)
  OBVIOUS
<1> QED BY <1>3, <1>4 DEF Entry

\* upsert changes the spec of one entry, or adds an entry without replicas.
LEMMA UpsertKeeps ==
  ASSUME NEW s, Keyed(s), NEW spc \in DeploymentSpec
  PROVE  /\ Keyed(upsert(s, spc))
         /\ SameReplicas(s, upsert(s, spc))
         /\ key(spc) \in DOMAIN upsert(s, spc)
<1> DEFINE k == key(spc)
           n == replaced(IF k \in DOMAIN s THEN s[k] ELSE NewEntry, spc)
<1>1. /\ n \in Entry
      /\ n.spec = spc
      /\ k \in DOMAIN s => n.replicas = s[k].replicas
      /\ k \notin DOMAIN s => n.replicas = {}
  <2>1. CASE k \in DOMAIN s
    BY <2>1, ReplacedType DEF Keyed
  <2>2. CASE k \notin DOMAIN s
    BY <2>2, FirstType
  <2> QED BY <2>1, <2>2
<1>2. upsert(s, spc) = [i \in DOMAIN s \cup {k} |-> IF i = k THEN n ELSE s[i]]
  BY DEF upsert, With
<1>3. DOMAIN upsert(s, spc) = DOMAIN s \cup {k}
  BY <1>2
<1>4. /\ upsert(s, spc)[k] = n
      /\ \A i \in DOMAIN s \ {k} : upsert(s, spc)[i] = s[i]
  BY <1>2
<1>5. Keyed(s)
  OBVIOUS
<1> DEFINE u == upsert(s, spc)
<1> HIDE DEF n, k, u
<1>6. u \in [DOMAIN u -> Entry]
  <2>1. \A i \in DOMAIN u : u[i] \in Entry
    BY <1>1, <1>3, <1>4, <1>5 DEF Keyed, u
  <2>2. u = [i \in DOMAIN u |-> u[i]]
    BY <1>2, <1>3 DEF u
  <2> QED BY <2>1, <2>2
<1>7. \A i \in DOMAIN u : key(u[i].spec) = i
  BY <1>1, <1>3, <1>4, <1>5 DEF Keyed, k, u
<1>8. SameReplicas(s, u)
  BY <1>1, <1>3, <1>4 DEF SameReplicas, u
<1> QED BY <1>3, <1>6, <1>7, <1>8 DEF Keyed, k, u

\* What a command puts in the place of an entry.
Successor(m, n) ==
  n \in Entry /\ n.replicas = m.replicas /\ key(n.spec) = key(m.spec)

\* A store keeps its keys and handles where an entry gives way to a successor.
LEMMA ReplaceKeeps ==
  ASSUME NEW s, Keyed(s), NEW k \in DOMAIN s, NEW n, Successor(s[k], n)
  PROVE  /\ Keyed([s EXCEPT ![k] = n])
         /\ SameReplicas(s, [s EXCEPT ![k] = n])
BY DEF Keyed, SameReplicas, Successor

LEMMA ScaleKeeps ==
  ASSUME NEW m \in Entry, NEW n \in Nat
  PROVE  Successor(m, scale(m, n))
BY DEF Successor, scale, key, Entry, DeploymentSpec

LEMMA PausedKeeps ==
  ASSUME NEW m \in Entry, NEW flag \in BOOLEAN
  PROVE  Successor(m, set_paused(m, flag))
BY DEF Successor, set_paused, key, Entry

LEMMA UndoKeeps ==
  ASSUME NEW m \in Entry, CanUndo(m)
  PROVE  Successor(m, undo(m))
<1>1. m.history \in Seq(DeploymentSpec) /\ m.history # <<>> /\ m.spec \in DeploymentSpec
  BY DEF Entry, CanUndo
<1>2. Last(m.history) \in DeploymentSpec /\ Front(m.history) \in Seq(DeploymentSpec)
  BY <1>1 DEF Last, Front
<1>3. /\ rolled(m, Last(m.history)) \in DeploymentSpec
      /\ key(rolled(m, Last(m.history))) = key(m.spec)
  BY <1>1, <1>2 DEF rolled, key, DeploymentSpec
<1> QED BY <1>2, <1>3 DEF Successor, undo, Entry

----------------------------------------------------------------------------
(* What the first command reads *)

\* What runs under a handle is what the handle says.
Owned(s, running) ==
  \A k \in DOMAIN s : \A h \in s[k].replicas :
    running[h.job] \in {NoJob, [owner |-> k, revision |-> h.revision]}

\* A handle for whatever runs, but for some jobs.
Complete(s, running, but) ==
  \A j \in JobId \ but : running[j] # NoJob => j \in AllJobs(s)

\* The migration of an entry gives it a namespace and keeps its handles.
LEMMA ForwardKeeps ==
  ASSUME NEW m \in Entry
  PROVE  /\ forward(m) \in Entry
         /\ forward(m).replicas = m.replicas
         /\ key(forward(m).spec)[2] = m.spec.name
<1> DEFINE ns == IF m.spec.namespace = "" THEN "default" ELSE m.spec.namespace
<1>1. m.spec \in DeploymentSpec /\ ns \in STRING \cup {"default"}
  BY DEF Entry, DeploymentSpec
<1>2. forward(m) = [m EXCEPT !.spec = [m.spec EXCEPT !.namespace = ns]]
  BY <1>1 DEF forward, Entry, DeploymentSpec
<1> HIDE DEF ns
<1>3. /\ [m.spec EXCEPT !.namespace = ns] \in DeploymentSpec
      /\ [m.spec EXCEPT !.namespace = ns].name = m.spec.name
  BY <1>1 DEF DeploymentSpec
<1> QED BY <1>2, <1>3 DEF Entry, key

\* A migrated file has the entries and the handles of the old one.
LEMMA MigrateSound ==
  ASSUME NEW file, NEW running, Sane(file, running)
  PROVE  /\ Keyed(migrate(file))
         /\ Owned(migrate(file), running)
         /\ Complete(migrate(file), running, {})
<1> DEFINE old == file.deployments
           new == migrate(file)
<1>1. /\ old \in [DOMAIN old -> Entry]
      /\ \A j \in JobId : running[j] # NoJob =>
           \E i \in DOMAIN old : \E h \in old[i].replicas : h.job = j
  BY DEF Sane
<1>2. CASE file.version >= STORE_VERSION
  <2>1. new = old
    BY <1>2 DEF migrate
  <2>2. Keyed(old)
    BY <1>1, <1>2 DEF Sane, Keyed
  <2>3. Owned(old, running)
    BY <1>2, <2>2 DEF Sane, Owned, Keyed
  <2>4. Complete(old, running, {})
    BY <1>1 DEF Complete, AllJobs, Jobs
  <2> QED BY <2>1, <2>2, <2>3, <2>4
<1>3. CASE ~(file.version >= STORE_VERSION)
  <2> DEFINE keys == {new_key(i, old[i]) : i \in DOMAIN old}
  <2>1. new = [k \in keys |-> forward(old[old_key(old, k)])]
    BY <1>3 DEF migrate
  <2>2. \A i \in DOMAIN old :
          /\ i = <<old[i].spec.name>>
          /\ new_key(i, old[i]) = key(forward(old[i]).spec)
    <3>1. \A i \in DOMAIN old : i = <<old[i].spec.name>>
      BY <1>3 DEF Sane
    <3>2. \A x : Len(<<x>>) = 1
      OBVIOUS
    <3>3. \A i \in DOMAIN old : Len(i) # 2
      BY <3>1, <3>2
    <3> QED BY <3>1, <3>3 DEF new_key
  <2>3. \A i \in DOMAIN old : i = <<new_key(i, old[i])[2]>>
    BY <1>1, <2>2, ForwardKeeps
  <2>4. \A i \in DOMAIN old : old_key(old, new_key(i, old[i])) = i
    BY <2>3 DEF old_key
  <2>5. /\ DOMAIN new = keys
        /\ \A i \in DOMAIN old : new[key(forward(old[i]).spec)] = forward(old[i])
    BY <2>1, <2>2, <2>4
  <2>6. \A k \in keys : \E i \in DOMAIN old : /\ k = key(forward(old[i]).spec)
                                            /\ new[k] = forward(old[i])
    BY <2>2, <2>5
  <2>7. Keyed(new)
    <3>1. \A k \in DOMAIN new : new[k] \in Entry /\ key(new[k].spec) = k
      BY <1>1, <2>5, <2>6, ForwardKeeps
    <3>2. new = [k \in DOMAIN new |-> new[k]]
      BY <2>1
    <3> HIDE DEF new
    <3> QED BY <3>1, <3>2 DEF Keyed
  <2>8. Owned(new, running)
    <3> SUFFICES ASSUME NEW k \in keys, NEW h \in new[k].replicas
                 PROVE  running[h.job] \in {NoJob, [owner |-> k, revision |-> h.revision]}
      BY <2>5 DEF Owned
    <3>1. PICK i \in DOMAIN old : /\ k = key(forward(old[i]).spec)
                                  /\ new[k] = forward(old[i])
      BY <2>6
    <3>2. h \in old[i].replicas
      BY <1>1, <3>1, ForwardKeeps
    <3> QED BY <1>3, <3>1, <3>2 DEF Sane
  <2>9. Complete(new, running, {})
    <3> SUFFICES ASSUME NEW j \in JobId, running[j] # NoJob
                 PROVE  j \in AllJobs(new)
      BY DEF Complete
    <3>1. PICK i \in DOMAIN old : \E h \in old[i].replicas : h.job = j
      BY <1>1
    <3>2. new_key(i, old[i]) \in DOMAIN new /\ new[new_key(i, old[i])].replicas = old[i].replicas
      BY <1>1, <2>2, <2>5, ForwardKeeps
    <3> HIDE DEF new
    <3> QED BY <3>1, <3>2 DEF AllJobs, Jobs
  <2> QED BY <2>7, <2>8, <2>9
<1> QED BY <1>2, <1>3

----------------------------------------------------------------------------
(* The invariant *)

Control ==
  /\ DOMAIN mesh = JobId
  /\ faults \in [may : SUBSET Fault, left : Nat]
  /\ pc \in {"idle", "next", "reconcile", "delete", "save"}
  /\ queue \in Seq(DeploymentSpec)
  /\ pc \in {"idle", "delete", "save"} => queue = <<>> /\ due = {}
  /\ queue # <<>> => due = {}
  /\ pc # "idle" => due \subseteq DOMAIN mem
  /\ pc \in {"reconcile", "delete"} => cur \in DOMAIN mem

\* The store that the next save or the next command will have.
current == IF pc = "idle" THEN loaded ELSE mem

Stores ==
  /\ Keyed(loaded) /\ Owned(loaded, mesh)
  /\ Keyed(current) /\ Owned(current, mesh)

\* What the process holds in memory has all that it loaded and that still runs.
Kept ==
  \A j \in JobId : Runs(j) /\ j \in AllJobs(loaded)
                     => j \in abandoned \cup AllJobs(current)

Whole ==
  faults.may \cap {"preflight", "save", "crash"} = {}
    => Complete(current, mesh, abandoned)

IInv == Control /\ Stores /\ Kept /\ Whole

\* A job is tracked where a handle of some entry names it.
LEMMA JobIsHeld ==
  ASSUME NEW s, NEW j
  PROVE  j \in AllJobs(s) <=> \E k \in DOMAIN s : \E h \in s[k].replicas : h.job = j
BY DEF AllJobs, Jobs

\* What the file tracks depends on the handles alone.
LEMMA SameJobs ==
  ASSUME NEW s, NEW t, SameReplicas(s, t), NEW running
  PROVE  /\ AllJobs(t) = AllJobs(s)
         /\ Owned(s, running) => Owned(t, running)
<1>1. \A k \in DOMAIN t : \/ k \in DOMAIN s /\ t[k].replicas = s[k].replicas
                         \/ t[k].replicas = {}
  BY DEF SameReplicas
<1>2. \A k \in DOMAIN s : k \in DOMAIN t /\ t[k].replicas = s[k].replicas
  BY DEF SameReplicas
<1>3. \A j : j \in AllJobs(t) <=> j \in AllJobs(s)
  BY <1>1, <1>2, JobIsHeld
<1> QED BY <1>1, <1>3 DEF Owned

LEMMA SameAsItself ==
  ASSUME NEW s
  PROVE  SameReplicas(s, s)
BY DEF SameReplicas

\* The initial file tracks what runs, under its own deployments.
LEMMA InitIInv ==
  Init => IInv
<1> SUFFICES ASSUME Init PROVE IInv
  OBVIOUS
<1>1. PICK old \in OldFiles : disk = old.file /\ mesh = old.mesh
  BY DEF Init
<1>2. Sane(disk, mesh)
  BY <1>1, CommandsAssumption
<1>3. pc = "idle" /\ current = loaded
  BY DEF Init, current
<1>4. Keyed(loaded) /\ Owned(loaded, mesh) /\ Complete(loaded, mesh, {})
  BY <1>2, MigrateSound DEF loaded
<1>5. Control
  <2>1. DOMAIN mesh = JobId
    BY <1>2 DEF Sane
  <2>2. faults \in [may : SUBSET Fault, left : Nat]
    BY CommandsAssumption DEF Init
  <2>3. <<>> \in Seq(DeploymentSpec)
    OBVIOUS
  <2> QED BY <2>1, <2>2, <2>3 DEF Init, Control
<1>6. Stores
  BY <1>3, <1>4 DEF Stores
<1>7. Kept
  BY <1>3 DEF Kept
<1>8. Whole
  BY <1>3, <1>4 DEF Whole, Complete
<1> QED BY <1>5, <1>6, <1>7, <1>8 DEF IInv

\* A step that changes neither the world nor the file, and the store in memory
\* only in its specs.
LEMMA QuietStep ==
  ASSUME IInv, Control', UNCHANGED <<worldVars, disk>>,
         pc' # "idle", Keyed(mem'), SameReplicas(current, mem')
  PROVE  IInv'
<1>1. loaded' = loaded /\ current' = mem'
  BY DEF loaded, current
<1>2. UNCHANGED <<mesh, abandoned, faults>>
  BY DEF worldVars
<1>3. AllJobs(current') = AllJobs(current) /\ Owned(current', mesh)
  BY <1>1, SameJobs DEF IInv, Stores
<1>4. Stores'
  BY <1>1, <1>2, <1>3 DEF IInv, Stores
<1>5. Kept'
  BY <1>1, <1>2, <1>3 DEF IInv, Kept, Runs
<1>6. Whole'
  BY <1>1, <1>2, <1>3 DEF IInv, Whole, Complete
<1> QED BY <1>4, <1>5, <1>6 DEF IInv

----------------------------------------------------------------------------
(* Commands begin *)

\* One lemma for each step of a command: starting, saving, changing an entry, ...
LEMMA BeginStep ==
  ASSUME IInv, NEW s, NEW next \in {"next", "delete", "save"}, Begin(s, next),
         Keyed(s), SameReplicas(loaded, s),
         queue' \in Seq(DeploymentSpec), due' \subseteq DOMAIN s,
         next # "next" => queue' = <<>> /\ due' = {} /\ (next = "delete" => cur' \in DOMAIN s),
         queue' = <<>> \/ due' = {}
  PROVE  IInv'
<1>1. /\ pc = "idle" /\ pc' = next /\ mem' = s
      /\ UNCHANGED <<worldVars, disk>>
  BY DEF Begin
<1>2. current = loaded
  BY <1>1 DEF current
<1>3. Control'
  BY <1>1 DEF IInv, Control, worldVars
<1> QED BY <1>1, <1>2, <1>3, QuietStep

\* The entry that a command changes has the replicas it had.
LEMMA ChangeStep ==
  ASSUME IInv, NEW k \in DOMAIN loaded, NEW n, Successor(loaded[k], n), Change(k, n)
  PROVE  IInv'
<1> DEFINE s == [loaded EXCEPT ![k] = n]
<1>1. Keyed(loaded)
  BY DEF IInv, Stores
<1>2. Keyed(s) /\ SameReplicas(loaded, s)
  BY <1>1, ReplaceKeeps
<1>3. DOMAIN s = DOMAIN loaded
  OBVIOUS
<1>4. Begin(s, "next") /\ due' = {k} /\ queue' = queue
  BY DEF Change
<1>5. queue = <<>>
  BY <1>4 DEF Begin, IInv, Control
<1> HIDE DEF s
<1>6. queue' \in Seq(DeploymentSpec)
  BY <1>4 DEF IInv, Control
<1> QED BY <1>2, <1>3, <1>4, <1>5, <1>6, BeginStep

LEMMA SavingStep ==
  ASSUME IInv, NEW s, Keyed(s), SameReplicas(loaded, s),
         Begin(s, "save"), UNCHANGED <<queue, due>>
  PROVE  IInv'
<1>1. queue = <<>> /\ due = {}
  BY DEF Begin, IInv, Control
<1>2. queue' \in Seq(DeploymentSpec)
  BY DEF IInv, Control
<1> QED BY <1>1, <1>2, BeginStep

LEMMA CommandStep ==
  ASSUME IInv, Command
  PROVE  IInv'
<1>1. /\ Keyed(loaded)
      /\ \A k \in DOMAIN loaded : loaded[k] \in Entry
  BY DEF IInv, Stores, Keyed
<1>2. SameReplicas(loaded, loaded)
  BY SameAsItself
<1>3. pc = "idle" => queue = <<>> /\ due = {} /\ queue \in Seq(DeploymentSpec)
  BY DEF IInv, Control
<1>4. ASSUME NEW stack \in Stacks, apply(stack) PROVE IInv'
  <2>1. stack \in Seq(DeploymentSpec)
    BY CommandsAssumption
  <2>2. Begin(loaded, "next") /\ queue' = stack /\ due' = {}
    BY <1>3, <1>4 DEF apply, Begin
  <2> QED BY <1>1, <1>2, <2>1, <2>2, BeginStep
<1>5. ASSUME NEW keys, keys \subseteq DOMAIN loaded, Pass(keys) PROVE IInv'
  <2>1. Begin(loaded, "next") /\ due' = keys /\ queue' = <<>>
    BY <1>3, <1>5 DEF Pass, Begin
  <2>2. queue' \in Seq(DeploymentSpec)
    BY <2>1
  <2> QED BY <1>1, <1>2, <1>5, <2>1, <2>2, BeginStep
<1>6. ASSUME NEW k \in DOMAIN loaded, NEW n \in Counts, Scale(k, n) PROVE IInv'
  <2>1. n \in Nat
    BY CommandsAssumption
  <2> QED BY <1>1, <1>6, <2>1, ScaleKeeps, ChangeStep DEF Scale
<1>7. ASSUME NEW k \in DOMAIN loaded, Status(k) PROVE IInv'
  <2>1. Successor(loaded[k], loaded[k])
    BY <1>1 DEF Successor
  <2> QED BY <1>7, <2>1, ChangeStep DEF Status
<1>8. ASSUME NEW k \in DOMAIN loaded, Undo(k) PROVE IInv'
  BY <1>1, <1>8, UndoKeeps, ChangeStep DEF Undo
<1>9. ASSUME NEW k \in DOMAIN loaded, Resume(k) PROVE IInv'
  BY <1>1, <1>9, PausedKeeps, ChangeStep DEF Resume
<1>10. ASSUME NEW k \in DOMAIN loaded, Pause(k) PROVE IInv'
  <2>1. Successor(loaded[k], set_paused(loaded[k], TRUE))
    BY <1>1, PausedKeeps
  <2> DEFINE s == [loaded EXCEPT ![k] = set_paused(loaded[k], TRUE)]
  <2>2. Keyed(s) /\ SameReplicas(loaded, s)
    BY <1>1, <2>1, ReplaceKeeps
  <2>3. Begin(s, "save") /\ UNCHANGED <<queue, due>>
    BY <1>10 DEF Pause
  <2> QED BY <2>2, <2>3, SavingStep
<1>11. ASSUME NEW k \in DOMAIN loaded, NEW f \in BOOLEAN, Delete(k, f) PROVE IInv'
  <2>1. Begin(loaded, "delete") /\ cur' = k /\ queue' = <<>> /\ due' = {}
    BY <1>3, <1>11 DEF Delete, Begin
  <2>2. queue' \in Seq(DeploymentSpec)
    BY <2>1
  <2> QED BY <1>1, <1>2, <2>1, <2>2, BeginStep
<1>12. ASSUME Get PROVE IInv'
  BY <1>1, <1>2, <1>12, SavingStep DEF Get
<1>13. \A ns : names_in(loaded, ns) \subseteq DOMAIN loaded
  BY DEF names_in
<1> QED BY <1>4, <1>5, <1>6, <1>7, <1>8, <1>9, <1>10, <1>11, <1>12, <1>13
        DEF Command

----------------------------------------------------------------------------
(* Commands go on *)

LEMMA NextAppStep ==
  ASSUME IInv, NextApp
  PROVE  IInv'
<1>1. /\ pc = "next" /\ queue # <<>> /\ queue \in Seq(DeploymentSpec)
      /\ due = {} /\ current = mem
  BY DEF NextApp, IInv, Control, current
<1>2. Head(queue) \in DeploymentSpec /\ Tail(queue) \in Seq(DeploymentSpec)
  BY <1>1
<1>3. Keyed(mem)
  BY <1>1 DEF IInv, Stores
<1>4. /\ Keyed(mem') /\ SameReplicas(mem, mem') /\ cur' \in DOMAIN mem'
  BY <1>2, <1>3, UpsertKeeps DEF NextApp
<1>5. Control'
  BY <1>1, <1>2, <1>4 DEF NextApp, IInv, Control, worldVars
<1> QED BY <1>1, <1>4, <1>5, QuietStep DEF NextApp

LEMMA NextKeyStep ==
  ASSUME IInv, NextKey \/ AllDone \/ TicksOver
  PROVE  IInv'
<1>1. /\ pc # "idle" /\ pc' # "idle" /\ current = mem /\ mem' = mem
      /\ UNCHANGED <<worldVars, disk>>
  BY DEF NextKey, AllDone, TicksOver, current
<1>2. Keyed(mem)
  BY <1>1 DEF IInv, Stores
<1>3. Control'
  BY DEF NextKey, AllDone, TicksOver, IInv, Control, worldVars
<1> QED BY <1>1, <1>2, <1>3, SameAsItself, QuietStep

\* ... being cut short ...
LEMMA CutShortStep ==
  ASSUME IInv, PreflightFails \/ SaveFails \/ Crash
  PROVE  IInv'
<1>1. /\ pc # "idle" /\ pc' = "idle" /\ UNCHANGED <<disk, mesh, abandoned>>
      /\ queue' = <<>> /\ due' = {}
  BY DEF PreflightFails, SaveFails, Crash, IInv, Control
<1>2. /\ \E f \in {"preflight", "save", "crash"} : f \in faults.may
      /\ faults' \in [may : SUBSET Fault, left : Nat]
      /\ faults'.may = faults.may
  BY DEF PreflightFails, SaveFails, Crash, Suffer, IInv, Control
<1>3. loaded' = loaded /\ current' = loaded
  BY <1>1 DEF loaded, current
<1>4. <<>> \in Seq(DeploymentSpec)
  OBVIOUS
<1>5. Control'
  BY <1>1, <1>2, <1>4 DEF IInv, Control
<1>6. Stores'
  BY <1>1, <1>3 DEF IInv, Stores
<1>7. Kept'
  BY <1>3 DEF Kept
<1>8. Whole'
  BY <1>2 DEF Whole
<1> QED BY <1>5, <1>6, <1>7, <1>8 DEF IInv

\* A container ends: what the handles say of the others is as true as it was.
LEMMA OwnedAfterEnd ==
  ASSUME NEW s, NEW r, Owned(s, r), Keyed(s), DOMAIN r = JobId, NEW j \in JobId
  PROVE  Owned(s, [r EXCEPT ![j] = NoJob])
<1>1. \A k \in DOMAIN s : \A h \in s[k].replicas : h.job \in JobId
  BY DEF Keyed, Entry
<1> QED BY <1>1 DEF Owned

\* ... deleting ...
LEMMA KillStep ==
  ASSUME IInv, NEW j \in JobId, KillOk(j) \/ KillErr(j) \/ JobDies(j)
  PROVE  IInv'
<1>1. /\ pc' = pc /\ mem' = mem
      /\ UNCHANGED <<disk, abandoned, queue, due, cur>>
      /\ mesh' \in {mesh, [mesh EXCEPT ![j] = NoJob]}
  BY DEF KillOk, KillErr, JobDies, Tried
<1>2. faults' \in [may : SUBSET Fault, left : Nat] /\ faults'.may = faults.may
  BY DEF KillOk, KillErr, JobDies, Suffer, IInv, Control
<1>3. loaded' = loaded /\ current' = current
  BY <1>1 DEF loaded, current
<1>4. DOMAIN mesh = JobId
  BY DEF IInv, Control
<1>5. \A i \in JobId : Runs(i)' => Runs(i) /\ mesh'[i] = mesh[i]
  BY <1>1, <1>4 DEF Runs
<1>6. Control'
  BY <1>1, <1>2 DEF IInv, Control
<1>7. Stores'
  BY <1>1, <1>3, <1>4, OwnedAfterEnd DEF IInv, Stores
<1>8. Kept'
  BY <1>1, <1>3, <1>5 DEF IInv, Kept
<1>9. Whole'
  BY <1>1, <1>2, <1>3, <1>5 DEF IInv, Whole, Complete, Runs
<1> QED BY <1>6, <1>7, <1>8, <1>9 DEF IInv

\* A tick puts other handles into the entry of cur.
LEMMA TickingStore ==
  ASSUME IInv, NEW handles, handles \in SUBSET [job : JobId, revision : STRING],
         Ticking(handles)
  PROVE  /\ pc = "reconcile" /\ pc' = pc /\ current = mem /\ current' = mem'
         /\ loaded' = loaded
         /\ cur \in DOMAIN mem /\ DOMAIN mem' = DOMAIN mem
         /\ \A k \in DOMAIN mem \ {cur} : mem'[k] = mem[k]
         /\ mem'[cur].replicas = handles
         /\ Keyed(mem) /\ Keyed(mem')
<1>1. /\ pc = "reconcile" /\ pc' = pc /\ UNCHANGED disk
      /\ mem' = [mem EXCEPT ![cur] = [mem[cur] EXCEPT !.replicas = handles]]
  BY DEF Ticking
<1>2. cur \in DOMAIN mem
  BY <1>1 DEF IInv, Control
<1>3. current = mem /\ current' = mem' /\ loaded' = loaded
  BY <1>1 DEF current, loaded
<1>4. Keyed(mem)
  BY <1>3 DEF IInv, Stores
<1>5. mem[cur] \in Entry
  BY <1>2, <1>4 DEF Keyed
<1> DEFINE n == [mem[cur] EXCEPT !.replicas = handles]
<1>6. n \in Entry /\ n.spec = mem[cur].spec /\ n.replicas = handles
  BY <1>5 DEF Entry
<1> HIDE DEF n
<1>7. mem' = [mem EXCEPT ![cur] = n]
  BY <1>1 DEF n
<1>8. Keyed(mem')
  BY <1>2, <1>4, <1>6, <1>7 DEF Keyed
<1> QED BY <1>1, <1>2, <1>3, <1>4, <1>6, <1>7, <1>8

LEMMA TickControl ==
  ASSUME IInv, NEW handles, Ticking(handles), DOMAIN mem' = DOMAIN mem,
         DOMAIN mesh' = DOMAIN mesh, UNCHANGED faults
  PROVE  Control'
BY DEF Ticking, IInv, Control

\* ... and the launches and retirements of a tick.
LEMMA LaunchStep ==
  ASSUME IInv, NEW j \in JobId, Launch(j)
  PROVE  IInv'
<1> DEFINE new == Handle(j, spec.revision)
           handles == replicas \cup {new}
           job == [owner |-> Owner(spec), revision |-> spec.revision]
<1>1. /\ ~Runs(j) /\ j \notin AllJobs(mem) /\ j \notin AllJobs(loaded)
      /\ Ticking(handles)
      /\ mesh' = [mesh EXCEPT ![j] = job]
      /\ UNCHANGED <<abandoned, faults>>
  BY DEF Launch, Fresh
<1>2. /\ cur \in DOMAIN mem /\ Keyed(mem) /\ pc = "reconcile"
      /\ DOMAIN mesh = JobId
  BY <1>1 DEF Ticking, IInv, Control, Stores, current
<1>3. mem[cur] \in Entry /\ key(mem[cur].spec) = cur
  BY <1>2 DEF Keyed
<1>4. /\ handles \in SUBSET [job : JobId, revision : STRING]
      /\ new.job = j /\ new.revision = job.revision
      /\ job.owner = cur
  BY <1>3 DEF replicas, spec, Handle, Owner, key, Entry, DeploymentSpec
<1>5. /\ mesh'[j] = job /\ DOMAIN mesh' = DOMAIN mesh
      /\ \A i \in JobId \ {j} : mesh'[i] = mesh[i]
  BY <1>1, <1>2
<1>6. job = [owner |-> cur, revision |-> new.revision]
  BY <1>4
<1> HIDE DEF new, job, handles
<1>7. /\ current = mem /\ current' = mem' /\ loaded' = loaded
      /\ DOMAIN mem' = DOMAIN mem
      /\ \A k \in DOMAIN mem \ {cur} : mem'[k] = mem[k]
      /\ mem'[cur].replicas = handles
      /\ Keyed(mem) /\ Keyed(mem')
  BY <1>1, <1>4, TickingStore
<1>8. /\ Keyed(loaded) /\ Owned(loaded, mesh) /\ Owned(mem, mesh)
  BY <1>7 DEF IInv, Stores
<1>9. \A h \in handles : h = new \/ h \in mem[cur].replicas
  BY DEF handles, replicas
<1>10. Control'
  BY <1>1, <1>5, <1>7, TickControl
<1>11. Owned(loaded, mesh')
  <2>1. \A k \in DOMAIN loaded : \A h \in loaded[k].replicas : h.job \in JobId /\ h.job # j
    BY <1>1, <1>8, JobIsHeld DEF Keyed, Entry
  <2> QED BY <1>5, <1>8, <2>1 DEF Owned
<1>12. Owned(mem', mesh')
  <2> SUFFICES ASSUME NEW k \in DOMAIN mem, NEW h \in mem'[k].replicas
               PROVE  mesh'[h.job] \in {NoJob, [owner |-> k, revision |-> h.revision]}
    BY <1>7 DEF Owned
  <2>1. CASE k = cur /\ h = new
    BY <1>4, <1>5, <1>6, <2>1
  <2>2. CASE h \in mem[k].replicas
    <3>1. h.job \in JobId /\ h.job # j
      BY <1>1, <1>7, <2>2, JobIsHeld DEF Keyed, Entry
    <3> QED BY <1>5, <1>8, <2>2, <3>1 DEF Owned
  <2> QED BY <1>7, <1>9, <2>1, <2>2
<1>13. j \in AllJobs(mem') /\ AllJobs(mem) \subseteq AllJobs(mem')
  <2>1. new \in mem'[cur].replicas /\ cur \in DOMAIN mem'
    BY <1>2, <1>7 DEF handles
  <2>2. \A k \in DOMAIN mem : k \in DOMAIN mem' /\ mem[k].replicas \subseteq mem'[k].replicas
    BY <1>7 DEF handles, replicas
  <2>3. j \in AllJobs(mem')
    BY <1>4, <2>1, JobIsHeld
  <2>4. \A i : i \in AllJobs(mem) => i \in AllJobs(mem')
    BY <2>2, JobIsHeld
  <2> QED BY <2>3, <2>4
<1>14. Stores'
  BY <1>7, <1>8, <1>11, <1>12 DEF Stores
<1>15. Kept'
  BY <1>1, <1>5, <1>7, <1>13 DEF IInv, Kept, Runs
<1>16. Whole'
  BY <1>1, <1>5, <1>7, <1>13 DEF IInv, Whole, Complete
<1> QED BY <1>10, <1>14, <1>15, <1>16 DEF IInv

LEMMA RetireStep ==
  ASSUME IInv, NEW g \in replicas, Retire(g)
  PROVE  IInv'
<1> DEFINE handles == replicas \ {g}
<1>1. /\ Ticking(handles)
      /\ mesh' = [mesh EXCEPT ![g.job] = NoJob]
      /\ UNCHANGED <<abandoned, faults>>
  BY DEF Retire
<1>2. /\ cur \in DOMAIN mem /\ Keyed(mem) /\ DOMAIN mesh = JobId
  BY <1>1 DEF Ticking, IInv, Control, Stores, current
<1>3. mem[cur] \in Entry
  BY <1>2 DEF Keyed
<1>4. handles \in SUBSET [job : JobId, revision : STRING] /\ g.job \in JobId
  BY <1>3 DEF replicas, Entry
<1>5. /\ DOMAIN mesh' = DOMAIN mesh /\ mesh'[g.job] = NoJob
      /\ \A i \in JobId \ {g.job} : mesh'[i] = mesh[i]
  BY <1>1, <1>2, <1>4
<1>6. /\ current = mem /\ current' = mem' /\ loaded' = loaded
      /\ DOMAIN mem' = DOMAIN mem
      /\ \A k \in DOMAIN mem \ {cur} : mem'[k] = mem[k]
      /\ mem'[cur].replicas = handles
      /\ Keyed(mem) /\ Keyed(mem')
  BY <1>1, <1>4, TickingStore
<1>7. Keyed(loaded) /\ Owned(loaded, mesh) /\ Owned(mem, mesh)
  BY <1>6 DEF IInv, Stores
<1>8. Control'
  BY <1>1, <1>5, <1>6, TickControl
<1>9. Owned(loaded, mesh') /\ Owned(mem, mesh')
  BY <1>1, <1>2, <1>4, <1>7, OwnedAfterEnd
<1>10. \A k \in DOMAIN mem : mem'[k].replicas \subseteq mem[k].replicas
  BY <1>6 DEF replicas
<1>11. Owned(mem', mesh')
  BY <1>6, <1>9, <1>10 DEF Owned
<1>12. ASSUME NEW i \in AllJobs(mem), i # g.job PROVE i \in AllJobs(mem')
  <2>1. PICK k \in DOMAIN mem : \E h \in mem[k].replicas : h.job = i
    BY <1>12, JobIsHeld
  <2>2. PICK h \in mem[k].replicas : h.job = i
    BY <2>1
  <2>3. h \in mem'[k].replicas
    BY <1>6, <1>12, <2>2 DEF replicas
  <2> QED BY <1>6, <2>2, <2>3, JobIsHeld
<1>13. Stores'
  BY <1>6, <1>7, <1>9, <1>11 DEF Stores
<1>14. \A i \in JobId : Runs(i)' => i # g.job /\ Runs(i)
  BY <1>5 DEF Runs
<1>15. Kept'
  BY <1>1, <1>6, <1>12, <1>14 DEF IInv, Kept
<1>16. Whole'
  BY <1>1, <1>6, <1>12, <1>14 DEF IInv, Whole, Complete, Runs
<1> QED BY <1>8, <1>13, <1>15, <1>16 DEF IInv

LEMMA DeleteDoneStep ==
  ASSUME IInv, DeleteDone
  PROVE  IInv'
<1>1. /\ pc = "delete" /\ pc' = "save"
      /\ UNCHANGED <<disk, mesh, faults, queue, due>>
  BY DEF DeleteDone
<1>2. /\ cur \in DOMAIN mem /\ queue = <<>> /\ due = {}
      /\ current = mem /\ current' = mem' /\ loaded' = loaded
  BY <1>1 DEF IInv, Control, current, loaded
<1>3. Keyed(mem) /\ Owned(mem, mesh)
  BY <1>2 DEF IInv, Stores
<1>4. Control'
  BY <1>1, <1>2 DEF IInv, Control
<1>5. CASE mem' = mem /\ abandoned' = abandoned
  BY <1>1, <1>2, <1>4, <1>5 DEF IInv, Stores, Kept, Whole, Complete, Runs
<1>6. CASE mem' = Without(mem, cur) /\ abandoned' = abandoned \cup Forgotten
  <2>1. /\ DOMAIN mem' = DOMAIN mem \ {cur}
        /\ \A k \in DOMAIN mem' : mem'[k] = mem[k]
        /\ mem' = [k \in DOMAIN mem' |-> mem'[k]]
    BY <1>6 DEF Without
  <2>2. Keyed(mem')
    BY <1>3, <2>1 DEF Keyed
  <2>3. Owned(mem', mesh)
    BY <1>3, <2>1 DEF Owned
  <2>4. Stores'
    BY <1>1, <1>2, <2>2, <2>3 DEF IInv, Stores
  <2>5. ASSUME NEW j \in JobId, Runs(j), j \in AllJobs(mem)
        PROVE  j \in abandoned' \cup AllJobs(mem')
    <3>1. PICK k \in DOMAIN mem : j \in Jobs(mem, k)
      BY <2>5 DEF AllJobs
    <3>2. CASE k = cur
      BY <1>6, <2>5, <3>1, <3>2 DEF Forgotten
    <3>3. CASE k # cur
      BY <2>1, <3>1, <3>3 DEF AllJobs, Jobs
    <3> QED BY <3>2, <3>3
  <2>6. abandoned \subseteq abandoned' /\ \A j \in JobId : Runs(j)' => Runs(j)
    BY <1>1, <1>6 DEF Runs
  <2>7. Kept'
    BY <1>2, <2>5, <2>6 DEF IInv, Kept
  <2>8. Whole'
    BY <1>1, <1>2, <2>5, <2>6 DEF IInv, Whole, Complete, Runs
  <2> QED BY <1>4, <2>4, <2>7, <2>8 DEF IInv
<1> QED BY <1>5, <1>6 DEF DeleteDone

\* What the file holds after a save is what the process had in memory.
LEMMA SaveStep ==
  ASSUME IInv, Save
  PROVE  /\ IInv'
         /\ loaded' = current /\ UNCHANGED <<mesh, abandoned>>
<1>1. /\ pc = "save" /\ pc' = "idle" /\ current = mem
      /\ disk' = [version |-> STORE_VERSION, deployments |-> mem]
      /\ UNCHANGED <<mesh, abandoned, faults, mem, queue, due, cur>>
  BY DEF Save, worldVars, current
<1>2. loaded' = mem /\ current' = mem
  BY <1>1 DEF loaded, migrate, current, STORE_VERSION
<1>3. Control'
  BY <1>1 DEF IInv, Control
<1>4. Stores'
  BY <1>1, <1>2 DEF IInv, Stores
<1>5. Kept'
  BY <1>2 DEF Kept
<1>6. Whole'
  BY <1>1, <1>2 DEF IInv, Whole, Complete
<1> QED BY <1>1, <1>2, <1>3, <1>4, <1>5, <1>6 DEF IInv

\* Nothing is lost where nothing happens.
LEMMA StutterStep ==
  ASSUME IInv, UNCHANGED vars
  PROVE  IInv'
BY DEF vars, worldVars, deleteVars, IInv, Control, Stores, Kept, Whole, Complete,
       current, loaded, Runs

\* Every step keeps the invariant.
LEMMA NextStep ==
  ASSUME IInv, [Next]_vars
  PROVE  IInv'
<1>1. CASE Command
  BY <1>1, CommandStep
<1>2. CASE NextApp \/ NextKey \/ AllDone \/ TicksOver
  BY <1>2, NextAppStep, NextKeyStep
<1>3. CASE Reconcile
  BY <1>3, LaunchStep, RetireStep, NextKeyStep DEF Reconcile
<1>4. CASE \E j \in JobId : KillOk(j) \/ KillErr(j) \/ JobDies(j)
  BY <1>4, KillStep
<1>5. CASE DeleteDone \/ Save
  BY <1>5, DeleteDoneStep, SaveStep
<1>6. CASE PreflightFails \/ SaveFails \/ Crash
  BY <1>6, CutShortStep
<1>7. CASE UNCHANGED vars
  BY <1>7, StutterStep
<1> QED BY <1>1, <1>2, <1>3, <1>4, <1>5, <1>6, <1>7 DEF Next

\* The invariant holds always.
LEMMA IInvTheorem ==
  Spec => []IInv
<1>1. Init => IInv
  BY InitIInv
<1>2. IInv /\ [Next]_vars => IInv'
  BY NextStep
<1> QED BY <1>1, <1>2, PTL DEF Spec

----------------------------------------------------------------------------
(* What the invariant says of the handles *)

\* A container that runs under a handle is what the handle says.
LEMMA OwnedRuns ==
  ASSUME NEW s, NEW running, Owned(s, running),
         NEW k \in DOMAIN s, NEW h \in s[k].replicas, running[h.job] # NoJob
  PROVE  running[h.job].owner = k /\ running[h.job].revision = h.revision
<1>1. running[h.job] = [owner |-> k, revision |-> h.revision]
  BY DEF Owned
<1> QED BY <1>1

LEMMA HeldIsTracked ==
  ASSUME NEW s, Keyed(s), Owned(s, mesh), NEW j \in AllJobs(s), Runs(j)
  PROVE  TrackedIn(s, j)
<1>1. PICK k \in DOMAIN s : \E h \in s[k].replicas : h.job = j
  BY JobIsHeld
<1>2. mesh[j].owner = k
  BY <1>1, OwnedRuns DEF Runs
<1>3. Owner(s[k].spec) = k
  BY DEF Keyed, key, Owner
<1> QED BY <1>1, <1>2, <1>3 DEF TrackedIn, Jobs

\* The handles that a command acts on are those of the deployment it acts on, and
\* tell the revision that runs (state.rs ReplicaState).
THEOREM HandlesTheorem ==
  Spec => []HandlesAreOwned
<1>1. ASSUME IInv PROVE HandlesAreOwned
  <2>1. pc # "idle" => Keyed(mem) /\ Owned(mem, mesh)
    BY <1>1 DEF IInv, Stores, current
  <2>2. pc # "idle" => \A k \in DOMAIN mem : Owner(mem[k].spec) = k
    BY <2>1 DEF Keyed, key, Owner
  <2> QED BY <2>1, <2>2, OwnedRuns DEF HandlesAreOwned, Runs
<1> QED BY <1>1, IInvTheorem, PTL

\* While commands run to their ends, whatever runs is in the state file or in the
\* memory of the command at work (main.rs saves after it has launched).
THEOREM NoForgottenTheorem ==
  Spec => []NoForgottenReplica
<1>1. ASSUME IInv PROVE NoForgottenReplica
  <2> SUFFICES ASSUME faults.may \cap {"preflight", "save", "crash"} = {},
                      NEW j \in JobId \ abandoned, Runs(j)
               PROVE  TrackedIn(loaded, j) \/ (pc # "idle" /\ TrackedIn(mem, j))
    BY DEF NoForgottenReplica
  <2>1. j \in AllJobs(current)
    BY <1>1 DEF IInv, Whole, Complete, Runs
  <2>2. TrackedIn(current, j)
    BY <1>1, <2>1, HeldIsTracked DEF IInv, Stores
  <2> QED BY <2>2 DEF current
<1> QED BY <1>1, IInvTheorem, PTL

\* Only a save changes the file.
LEMMA FileChanges ==
  ASSUME [Next]_vars
  PROVE  loaded' = loaded \/ Save
BY DEF Next, Command, apply, Scale, Status, Undo, Resume, Pause, Get, Delete, Pass,
       Change, Begin, NextApp, PreflightFails, NextKey, AllDone, Reconcile, Launch,
       Retire, Ticking, TicksOver, KillOk, KillErr, Tried, JobDies, DeleteDone,
       SaveFails, Crash, vars, loaded

\* A job that runs before and after a step was not launched by it.
LEMMA SavedHandleStep ==
  ASSUME IInv, [Next]_vars, NEW j \in JobId,
         Runs(j), TrackedIn(loaded, j), mesh'[j] # NoJob
  PROVE  j \in abandoned' \/ TrackedIn(loaded, j)'
<1>1. IInv'
  BY NextStep
<1>2. j \in AllJobs(loaded)
  BY DEF TrackedIn, AllJobs
<1>3. j \in AllJobs(loaded)' \/ j \in abandoned'
  <2>1. CASE loaded' = loaded
    BY <1>2, <2>1 DEF AllJobs, Jobs
  <2>2. CASE Save
    <3>1. loaded' = current /\ abandoned' = abandoned
      BY <2>2, SaveStep
    <3>2. j \in abandoned \cup AllJobs(current)
      BY <1>2 DEF IInv, Kept
    <3> QED BY <3>1, <3>2 DEF AllJobs, Jobs
  <2> QED BY <2>1, <2>2, FileChanges
<1>4. ASSUME j \in AllJobs(loaded)' PROVE TrackedIn(loaded, j)'
  <2>1. PICK k \in DOMAIN loaded' : \E h \in loaded'[k].replicas : h.job = j
    BY <1>4 DEF AllJobs, Jobs
  <2>2. mesh'[j].owner = k
    BY <1>1, <2>1, OwnedRuns DEF IInv, Stores
  <2>3. Owner(loaded'[k].spec) = k
    BY <1>1 DEF IInv, Stores, Keyed, key, Owner
  <2> QED BY <2>1, <2>2, <2>3 DEF TrackedIn, Jobs
<1> QED BY <1>3, <1>4

\* A command that is cut short (an error, a failed write, a crash) costs no handle
\* that was saved: the file is only ever replaced by a store that has the handles
\* of whatever runs and was loaded (state.rs Store::save).
THEOREM SavedHandlesTheorem ==
  Spec => SavedHandlesStay
<1>1. IInv /\ [Next]_vars =>
        [\A j \in JobId :
           Runs(j) /\ TrackedIn(loaded, j) /\ mesh'[j] # NoJob
             => j \in abandoned' \/ TrackedIn(loaded, j)']_vars
  BY SavedHandleStep
<1> QED BY <1>1, IInvTheorem, PTL DEF Spec, SavedHandlesStay

----------------------------------------------------------------------------
(* Undo (History). While nothing was picked from the middle of the history, the *)
(* history is the end of the trail, of which neighbours differ.                 *)

\* A revision that some apply brought, and not the blank one of a new entry.
Applied(rev) == rev # ""

EndOfTrail(m, t) ==
  /\ Len(m.history) <= Len(t)
  /\ \A i \in 1..Len(m.history) : m.history[i].revision = t[Len(t) - Len(m.history) + i]

NeighboursDiffer(m, t) ==
  /\ \A i \in 1..Len(t) : Applied(t[i])
  /\ \A i \in 1..Len(t) - 1 : t[i] # t[i + 1]
  /\ t # <<>> => t[Len(t)] # m.spec.revision
  /\ Applied(m.spec.revision)

Trailed(m, t) ==
  m \in Entry /\ t \in Seq(STRING) /\ EndOfTrail(m, t) /\ NeighboursDiffer(m, t)

HInv == ~picked => Trailed(entry, trail)

\* The operators of Store, by both of their names.
LEMMA SameStore ==
  ASSUME NEW x, NEW y
  PROVE  /\ H!replaced(x, y) = replaced(x, y)
         /\ H!scale(x, y) = scale(x, y)
         /\ H!set_paused(x, y) = set_paused(x, y)
         /\ H!CanUndo(x) = CanUndo(x)
         /\ H!undo(x) = undo(x)
         /\ H!NewEntry = NewEntry
<1>1. H!replaced(x, y) = replaced(x, y)
  <2>1. \A z : H!push_history(x, z) = push_history(x, z)
    BY DEF H!push_history, push_history, H!DropOldest, DropOldest, H!Last, Last
  <2> QED BY <2>1 DEF H!replaced, H!Outgoing, replaced, Outgoing
<1>2. H!scale(x, y) = scale(x, y) /\ H!set_paused(x, y) = set_paused(x, y)
  BY DEF H!scale, H!set_paused, scale, set_paused
<1>3. H!CanUndo(x) = CanUndo(x) /\ H!NewEntry = NewEntry
  BY DEF H!CanUndo, CanUndo, H!NewEntry, H!NoSpec, NewEntry, NoSpec
<1>4. H!undo(x) = undo(x)
  <2>1. \A z : H!rolled(x, z) = rolled(x, z)
    BY DEF H!rolled, rolled
  <2> QED BY <2>1 DEF H!undo, undo, H!Last, H!Front, Last, Front
<1> QED BY <1>1, <1>2, <1>3, <1>4

\* What is pushed is kept at the end; what is dropped is dropped at the front.
LEMMA DroppedAtTheFront ==
  ASSUME NEW h \in Seq(DeploymentSpec), h # <<>>
  PROVE  LET d == DropOldest(h)
         IN  /\ d \in Seq(DeploymentSpec) /\ d # <<>> /\ Len(d) <= Len(h)
             /\ \A i \in 1..Len(d) : d[i] = h[Len(h) - Len(d) + i]
<1> DEFINE d == DropOldest(h)
           n == Len(h) - MAX_HISTORY
<1>1. Len(h) \in Nat \ {0}
  OBVIOUS
<1>2. CASE Len(h) > MAX_HISTORY
  <2>1. d = SubSeq(h, n + 1, Len(h))
    BY <1>2 DEF DropOldest
  <2>2. n \in Nat /\ n + 1 \in 1..Len(h) /\ Len(h) - n = MAX_HISTORY
    BY <1>1, <1>2, HistoryAssumption
  <2> HIDE DEF d, n
  <2>3. Len(d) = Len(h) - n /\ d \in Seq(DeploymentSpec)
    BY <1>1, <2>1, <2>2, HistoryAssumption
  <2>4. \A i \in 1..Len(d) : d[i] = h[n + i]
    BY <1>1, <2>1, <2>2, <2>3
  <2> QED BY <1>1, <2>2, <2>3, <2>4, HistoryAssumption DEF d
<1>3. CASE ~(Len(h) > MAX_HISTORY)
  BY <1>1, <1>3 DEF DropOldest
<1> QED BY <1>2, <1>3

\* Appending to and dropping from the history.
LEMMA AppendFacts ==
  ASSUME NEW S, NEW q \in Seq(S), NEW e \in S
  PROVE  /\ Append(q, e) \in Seq(S) /\ Append(q, e) # <<>>
         /\ Len(Append(q, e)) = Len(q) + 1 /\ Len(q) \in Nat
         /\ Append(q, e)[Len(Append(q, e))] = e
         /\ \A i \in 1..Len(q) : Append(q, e)[i] = q[i]
OBVIOUS

LEMMA FrontFacts ==
  ASSUME NEW S, NEW q \in Seq(S), q # <<>>
  PROVE  /\ Front(q) \in Seq(S)
         /\ Len(Front(q)) = Len(q) - 1 /\ Len(q) \in Nat /\ Len(q) >= 1
         /\ \A i \in 1..Len(q) - 1 : Front(q)[i] = q[i]
<1>1. Len(q) \in Nat /\ Len(q) >= 1
  OBVIOUS
<1>2. Front(q) = SubSeq(q, 1, Len(q) - 1)
  BY DEF Front
<1> DEFINE n == Len(q) - 1
<1>3. n \in Nat
  BY <1>1
<1> HIDE DEF n
<1>4. SubSeq(q, 1, n) \in Seq(S) /\ Len(SubSeq(q, 1, n)) = n
  <2>1. n <= Len(q)
    BY <1>1 DEF n
  <2>2. SubSeq(q, 1, n) \in Seq(S)
    BY <1>1, <1>3, <2>1
  <2>3. Len(SubSeq(q, 1, n)) = n
    BY <1>1, <1>3, <2>1
  <2> QED BY <2>2, <2>3
<1>5. \A i \in 1..n : SubSeq(q, 1, n)[i] = q[i]
  BY <1>1, <1>3, <1>4
<1> QED BY <1>1, <1>2, <1>4, <1>5 DEF n

\* The places, counted from the ends, of what is kept.
LEMMA Places ==
  ASSUME NEW a \in Nat, NEW b \in Nat, a <= b, NEW c \in Nat, c <= a + 1,
         NEW i \in 1..c
  PROVE  /\ (a + 1) - c + i \in 1..a + 1
         /\ (b + 1) - c + i = b - a + ((a + 1) - c + i)
         /\ (a + 1) - c + i = a + 1 => (b + 1) - c + i = b + 1
         /\ (a + 1) - c + i # a + 1 => /\ (a + 1) - c + i \in 1..a
                                       /\ (b + 1) - c + i \in 1..b
<1> DEFINE j == (a + 1) - c + i
           k == (b + 1) - c + i
<1>1. j \in Int /\ k \in Int /\ k = b - a + j
  OBVIOUS
<1>2. j >= 1 /\ j <= a + 1
  OBVIOUS
<1> HIDE DEF j, k
<1>3. j = a + 1 => k = b + 1
  BY <1>1
<1>4. k >= 1
  BY <1>1, <1>2
<1>5. j # a + 1 => j <= a
  BY <1>1, <1>2
<1>6. j # a + 1 => k <= b
  BY <1>1, <1>5
<1>7. /\ j \in 1..a + 1 /\ k = b - a + j
      /\ j = a + 1 => k = b + 1
      /\ j # a + 1 => j \in 1..a /\ k \in 1..b
  BY <1>1, <1>2, <1>3, <1>4, <1>5, <1>6
<1> QED BY <1>7 DEF j, k

\* A change of revision: the outgoing spec is pushed, on trail and history.
LEMMA TrailGrows ==
  ASSUME NEW m, NEW t, Trailed(m, t),
         NEW s \in SpecsToApply, s.revision # m.spec.revision
  PROVE  Trailed(replaced(m, s), Append(t, m.spec.revision))
<1> DEFINE h == Append(m.history, m.spec)
           d == DropOldest(h)
           u == Append(t, m.spec.revision)
           n == replaced(m, s)
<1>1. /\ s \in DeploymentSpec /\ Applied(s.revision)
      /\ m.history \in Seq(DeploymentSpec) /\ m.spec \in DeploymentSpec
      /\ t \in Seq(STRING) /\ m.spec.revision \in STRING
  BY SpecsAssumption DEF Trailed, Entry, DeploymentSpec, Applied
<1>2. /\ Len(t) \in Nat /\ Len(m.history) \in Nat /\ Len(m.history) <= Len(t)
      /\ \A i \in 1..Len(m.history) :
           m.history[i].revision = t[Len(t) - Len(m.history) + i]
  <2>1. Len(t) \in Nat /\ Len(m.history) \in Nat
    BY <1>1
  <2> QED BY <2>1 DEF Trailed, EndOfTrail
<1>3. /\ \A i \in 1..Len(t) : Applied(t[i])
      /\ \A i \in 1..Len(t) - 1 : t[i] # t[i + 1]
      /\ Len(t) > 0 => t[Len(t)] # m.spec.revision
      /\ Applied(m.spec.revision)
  BY <1>1 DEF Trailed, NeighboursDiffer
<1>4. m.history # <<>> => Last(m.history).revision # m.spec.revision
  <2> SUFFICES ASSUME m.history # <<>>
               PROVE  m.history[Len(m.history)].revision # m.spec.revision
    BY DEF Last
  <2>1. Len(m.history) \in 1..Len(m.history) /\ Len(t) > 0
    BY <1>1, <1>2
  <2>2. Len(t) - Len(m.history) + Len(m.history) = Len(t)
    BY <1>2
  <2> QED BY <1>2, <1>3, <2>1, <2>2
<1>5. n = [[m EXCEPT !.history = d] EXCEPT !.spec = s]
  <2>1. Outgoing(m, s)
    BY <1>3 DEF Outgoing, Applied
  <2>2. push_history(m, m.spec) = [m EXCEPT !.history = d]
    BY <1>4 DEF push_history
  <2> QED BY <2>1, <2>2 DEF replaced
<1>6. /\ h \in Seq(DeploymentSpec) /\ h # <<>> /\ Len(h) = Len(m.history) + 1
      /\ h[Len(h)] = m.spec
      /\ \A i \in 1..Len(m.history) : h[i] = m.history[i]
  BY <1>1, AppendFacts
<1>7. /\ d \in Seq(DeploymentSpec) /\ d # <<>> /\ Len(d) <= Len(h)
      /\ \A i \in 1..Len(d) : d[i] = h[Len(h) - Len(d) + i]
  BY <1>6, DroppedAtTheFront
<1>8. /\ u \in Seq(STRING) /\ Len(u) = Len(t) + 1
      /\ u[Len(u)] = m.spec.revision
      /\ \A i \in 1..Len(t) : u[i] = t[i]
  BY <1>1, AppendFacts
<1> HIDE DEF d, h, u, n
<1>9. n \in Entry /\ n.history = d /\ n.spec = s
  BY <1>1, <1>5, <1>7 DEF Trailed, Entry
<1>10. NeighboursDiffer(n, u)
  <2>1. \A i \in 1..Len(u) : Applied(u[i])
    BY <1>2, <1>3, <1>8
  <2>2. \A i \in 1..Len(u) - 1 : u[i] # u[i + 1]
    BY <1>2, <1>3, <1>8
  <2> QED BY <1>1, <1>8, <1>9, <2>1, <2>2 DEF NeighboursDiffer
<1>11. Len(d) \in Nat
  BY <1>7
<1>12. ASSUME NEW i \in 1..Len(d)
       PROVE  d[i].revision = u[Len(u) - Len(d) + i]
  <2> DEFINE j == Len(h) - Len(d) + i
             k == Len(u) - Len(d) + i
  <2>1. /\ j \in 1..Len(h) /\ k = Len(t) - Len(m.history) + j
        /\ j = Len(h) => k = Len(u)
        /\ j # Len(h) => j \in 1..Len(m.history) /\ k \in 1..Len(t)
    <3> DEFINE a == Len(m.history)
               b == Len(t)
               c == Len(d)
    <3>1. Len(h) = a + 1 /\ Len(u) = b + 1 /\ c <= a + 1
      BY <1>6, <1>7, <1>8
    <3>2. a \in Nat /\ b \in Nat /\ c \in Nat /\ a <= b
      BY <1>2, <1>11
    <3> HIDE DEF a, b
    <3>3. /\ (a + 1) - c + i \in 1..a + 1
          /\ (b + 1) - c + i = b - a + ((a + 1) - c + i)
          /\ (a + 1) - c + i = a + 1 => (b + 1) - c + i = b + 1
          /\ (a + 1) - c + i # a + 1 => /\ (a + 1) - c + i \in 1..a
                                        /\ (b + 1) - c + i \in 1..b
      BY <3>1, <3>2, Places
    <3> QED BY <3>1, <3>3 DEF a, b
  <2>2. d[i] = h[j]
    BY <1>7
  <2> HIDE DEF j, k
  <2>3. CASE j = Len(h)
    BY <1>6, <1>8, <2>1, <2>2, <2>3 DEF k
  <2>4. CASE j # Len(h)
    BY <1>2, <1>6, <1>8, <2>1, <2>2, <2>4 DEF k
  <2> QED BY <2>3, <2>4
<1>13. EndOfTrail(n, u)
  BY <1>2, <1>6, <1>7, <1>8, <1>9, <1>11, <1>12 DEF EndOfTrail
<1> QED BY <1>8, <1>9, <1>10, <1>13 DEF Trailed, n, u

\* A plain undo takes the last off both, and what was the last is in force.
LEMMA TrailShrinks ==
  ASSUME NEW m, NEW t, Trailed(m, t), CanUndo(m)
  PROVE  /\ t # <<>>
         /\ Trailed(undo(m), Front(t))
         /\ undo(m).spec.revision # m.spec.revision
         /\ undo(m).spec.revision = Last(t)
<1> DEFINE h == m.history
           a == Len(h)
           b == Len(t)
           n == undo(m)
           u == Front(t)
           back == rolled(m, h[a])
<1>1. /\ h \in Seq(DeploymentSpec) /\ h # <<>> /\ m.spec \in DeploymentSpec
      /\ t \in Seq(STRING)
  BY DEF Trailed, Entry, CanUndo
<1>2. /\ a \in Nat /\ a >= 1 /\ b \in Nat /\ a <= b
      /\ \A i \in 1..a : h[i].revision = t[b - a + i]
  <2>1. a \in Nat /\ a >= 1 /\ b \in Nat
    BY <1>1, FrontFacts
  <2> QED BY <2>1 DEF Trailed, EndOfTrail
<1>3. t # <<>>
  BY <1>1, <1>2
<1>4. /\ \A i \in 1..b : Applied(t[i])
      /\ \A i \in 1..b - 1 : t[i] # t[i + 1]
      /\ t[b] # m.spec.revision
  BY <1>3 DEF Trailed, NeighboursDiffer
<1>5. /\ Front(h) \in Seq(DeploymentSpec) /\ Len(Front(h)) = a - 1
      /\ \A i \in 1..a - 1 : Front(h)[i] = h[i]
  BY <1>1, FrontFacts
<1>6. /\ u \in Seq(STRING) /\ Len(u) = b - 1
      /\ \A i \in 1..b - 1 : u[i] = t[i]
  BY <1>1, <1>3, FrontFacts
<1>7. h[a].revision = t[b]
  <2>1. a \in 1..a /\ b - a + a = b
    BY <1>2
  <2> QED BY <1>2, <2>1
<1>8. back \in DeploymentSpec /\ back.revision = h[a].revision
  <2>1. h[a] \in DeploymentSpec
    BY <1>1, <1>2
  <2> QED BY <1>1, <2>1 DEF rolled, DeploymentSpec
<1>9. n = [m EXCEPT !.spec = back, !.history = Front(h)]
  BY DEF undo, Last
<1> HIDE DEF back, h, n, u
<1>10. n \in Entry /\ n.spec = back /\ n.history = Front(h)
  BY <1>5, <1>8, <1>9 DEF Trailed, Entry, h
<1>11. n.spec.revision = t[b]
  BY <1>7, <1>8, <1>10
<1> HIDE DEF a, b
<1>12. NeighboursDiffer(n, u)
  <2>1. \A i \in 1..Len(u) : Applied(u[i])
    BY <1>2, <1>4, <1>6
  <2>2. \A i \in 1..Len(u) - 1 : u[i] # u[i + 1]
    BY <1>2, <1>4, <1>6
  <2>3. u # <<>> => u[Len(u)] # t[b]
    <3>1. u # <<>> => b - 1 \in 1..b - 1
      BY <1>2, <1>6
    <3>2. b - 1 + 1 = b
      BY <1>2
    <3> QED BY <1>4, <1>6, <3>1, <3>2
  <2>4. Applied(t[b])
    BY <1>2, <1>4
  <2> QED BY <1>11, <2>1, <2>2, <2>3, <2>4 DEF NeighboursDiffer
<1>13. EndOfTrail(n, u)
  <2>1. ASSUME NEW i \in 1..a - 1
        PROVE  Front(h)[i].revision = u[Len(u) - Len(Front(h)) + i]
    <3>1. /\ Len(u) - Len(Front(h)) + i = b - a + i
          /\ b - a + i \in 1..b - 1 /\ i \in 1..a
      BY <1>2, <1>5, <1>6
    <3> QED BY <1>2, <1>5, <1>6, <3>1
  <2>2. a - 1 <= b - 1
    BY <1>2
  <2> QED BY <1>5, <1>6, <1>10, <2>1, <2>2 DEF EndOfTrail
<1> QED BY <1>3, <1>4, <1>6, <1>10, <1>11, <1>12, <1>13 DEF Trailed, Last, n, u, b

\* The commands that leave history and revision alone.
LEMMA TrailStays ==
  ASSUME NEW m, NEW t, Trailed(m, t), NEW n \in Entry,
         n.history = m.history, n.spec.revision = m.spec.revision
  PROVE  Trailed(n, t)
BY DEF Trailed, EndOfTrail, NeighboursDiffer

\* One entry of the store: the history is a part of the trail, always.
LEMMA HistoryInit ==
  ASSUME H!Init
  PROVE  HInv
<1>1. PICK s \in SpecsToApply : entry = replaced(NewEntry, s)
  BY SameStore DEF H!Init
<1>2. trail = <<>>
  BY DEF H!Init
<1>3. s \in DeploymentSpec /\ Applied(s.revision)
  BY SpecsAssumption DEF Applied
<1>4. /\ entry \in Entry /\ entry.spec = s /\ entry.history = <<>>
  BY <1>1, <1>3, FirstType
<1>5. trail \in Seq(STRING) /\ Len(trail) = 0
  BY <1>2
<1>6. EndOfTrail(entry, trail)
  BY <1>4, <1>5 DEF EndOfTrail
<1>7. NeighboursDiffer(entry, trail)
  BY <1>2, <1>3, <1>4, <1>5 DEF NeighboursDiffer
<1> QED BY <1>4, <1>5, <1>6, <1>7 DEF HInv, Trailed

LEMMA HistoryStep ==
  ASSUME HInv, [H!Next]_(H!vars)
  PROVE  HInv'
<1> SUFFICES ASSUME ~picked'
             PROVE  Trailed(entry', trail')
  BY DEF HInv
<1>1. CASE UNCHANGED H!vars
  BY <1>1 DEF H!vars, HInv
<1>2. ASSUME NEW s \in SpecsToApply, H!apply(s)
      PROVE  Trailed(entry', trail')
  <2>1. ~picked /\ entry' = replaced(entry, s)
    BY <1>2, SameStore DEF H!apply
  <2>2. Trailed(entry, trail) /\ entry \in Entry
    BY <2>1 DEF HInv, Trailed
  <2>3. CASE s.revision = entry.spec.revision
    <3>1. trail' = trail
      BY <1>2, <2>3 DEF H!apply, H!revision
    <3>2. entry' = [entry EXCEPT !.spec = s]
      BY <2>1, <2>3 DEF replaced, Outgoing
    <3>3. s \in DeploymentSpec
      BY SpecsAssumption
    <3>4. /\ entry' \in Entry /\ entry'.history = entry.history
          /\ entry'.spec.revision = entry.spec.revision
      BY <2>2, <2>3, <3>2, <3>3 DEF Entry
    <3> QED BY <2>2, <3>1, <3>4, TrailStays
  <2>4. CASE s.revision # entry.spec.revision
    <3>1. trail' = Append(trail, entry.spec.revision)
      BY <1>2, <2>1, <2>4 DEF H!apply, H!revision
    <3> QED BY <2>1, <2>2, <2>4, <3>1, TrailGrows
  <2> QED BY <2>3, <2>4
<1>3. ASSUME NEW s \in SpecsToApply, H!UndoTo(s.revision)
      PROVE  FALSE
  BY <1>3 DEF H!UndoTo
<1>4. ASSUME NEW n \in Counts, H!Scale(n)
      PROVE  Trailed(entry', trail')
  <2>1. ~picked /\ trail' = trail /\ entry' = scale(entry, n)
    BY <1>4, SameStore DEF H!Scale
  <2>2. Trailed(entry, trail) /\ entry \in Entry /\ n \in Nat
    BY <2>1, CommandsAssumption DEF HInv, Trailed
  <2>3. /\ scale(entry, n) \in Entry
        /\ scale(entry, n).history = entry.history
        /\ scale(entry, n).spec.revision = entry.spec.revision
    BY <2>2 DEF scale, Entry, DeploymentSpec
  <2> QED BY <2>1, <2>2, <2>3, TrailStays
<1>5. ASSUME H!Undo
      PROVE  Trailed(entry', trail')
  <2>1. /\ ~picked /\ CanUndo(entry) /\ entry' = undo(entry)
        /\ trail' = IF trail = <<>> THEN trail ELSE H!Front(trail)
    BY <1>5, SameStore DEF H!Undo
  <2>2. Trailed(entry, trail)
    BY <2>1 DEF HInv
  <2>3. H!Front(trail) = Front(trail)
    BY DEF H!Front, Front
  <2> QED BY <2>1, <2>2, <2>3, TrailShrinks
<1>6. ASSUME H!PauseOrResume
      PROVE  Trailed(entry', trail')
  <2>1. /\ ~picked /\ trail' = trail
        /\ entry' = set_paused(entry, ~entry.paused)
    BY <1>6, SameStore DEF H!PauseOrResume
  <2>2. Trailed(entry, trail) /\ entry \in Entry
    BY <2>1 DEF HInv, Trailed
  <2>3. /\ entry' \in Entry /\ entry'.history = entry.history
        /\ entry'.spec = entry.spec
    BY <2>1, <2>2 DEF set_paused, Entry
  <2> QED BY <2>1, <2>2, <2>3, TrailStays
<1> QED BY <1>1, <1>2, <1>3, <1>4, <1>5, <1>6 DEF H!Next

\* rollout undo, "Roll back to the previous revision" (main.rs): whatever the
\* specs, and however short the history is kept, a plain undo brings back the
\* revision that the last change replaced.
THEOREM UndoTheorem ==
  H!Spec => UndoGoesBack
<1>1. H!Init => HInv
  BY HistoryInit
<1>2. HInv /\ [H!Next]_(H!vars) => HInv'
  BY HistoryStep
<1>3. HInv => [H!Undo /\ ~picked =>
                 /\ H!revision' # H!revision
                 /\ trail # <<>> /\ H!revision' = H!Last(trail)]_(H!vars)
  <2> SUFFICES ASSUME HInv, H!Undo, ~picked
               PROVE  /\ H!revision' # H!revision
                      /\ trail # <<>> /\ H!revision' = H!Last(trail)
    OBVIOUS
  <2>1. Trailed(entry, trail) /\ CanUndo(entry) /\ entry' = undo(entry)
    BY SameStore DEF H!Undo, HInv
  <2>2. H!Last(trail) = Last(trail)
    BY DEF H!Last, Last
  <2> QED BY <2>1, <2>2, TrailShrinks DEF H!revision
<1> QED BY <1>1, <1>2, <1>3, PTL DEF H!Spec, UndoGoesBack, H!UndoGoesBack

=============================================================================
