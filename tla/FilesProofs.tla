---------------------------- MODULE FilesProofs ----------------------------
(***************************************************************************)
(* Proofs about the files that processes share.                             *)
(*                                                                          *)
(* The state file (Sessions): when no session outlasts the stale time-out   *)
(* and no process dies in one, nobody ever breaks a lock: then the lock     *)
(* file names the one process inside, and the copy that process works on is *)
(* the state file itself. This is the invariant from which mutual exclusion *)
(* and the refinement of the ledger follow, for any number of processes.    *)
(*                                                                          *)
(* The secret store (Secrets): as long as one command at a time changes it, *)
(* whatever the command does before its rename is done to another file.     *)
(***************************************************************************)
EXTENDS MCFiles, TLAPS

\* The type invariant, with what it needs to be inductive: who looks at the
\* age of a lock has an attempt to use up.
Typed ==
  /\ TypeOK
  /\ \A p \in Proc : pc[p] = "stale?" => tries[p] > 0

\* The types hold at first ...
LEMMA TypedInit == Init => Typed
<1> SUFFICES ASSUME Init PROVE Typed
  OBVIOUS
<1>1. disk \in [Proc -> Nat]
  BY DEF Init
<1>2. copy \in [Proc -> [Proc -> Nat]]
  BY <1>1, Zenon DEF Init
<1>3. tries \in [Proc -> 0..Tries]
  <2>1. 0 \in 0..Tries
    BY SessionsAssumption
  <2> QED BY <2>1, Zenon DEF Init
<1>4. pc \in [Proc -> {"idle"}]
  BY Zenon DEF Init
<1>5. 0 \in 0..(StaleAfter + 1) /\ FaultPlans \subseteq [may : SUBSET Fault, crashes : Nat]
  BY SessionsAssumption
<1> QED BY <1>1, <1>2, <1>3, <1>4, <1>5 DEF Init, Typed, TypeOK, Inside

\* ... and every step keeps them.
LEMMA TypedStep == Typed /\ [Next]_vars => Typed'
<1> SUFFICES ASSUME Typed, [Next]_vars PROVE Typed'
  OBVIOUS
<1> USE SessionsAssumption DEF Typed, TypeOK, Inside
<1>1. CASE Clock
  BY <1>1 DEF Clock
<1>2. ASSUME NEW p \in Proc, Start(p) PROVE Typed'
  BY <1>2 DEF Start, Goto
<1>3. ASSUME NEW p \in Proc, CreateNew(p) PROVE Typed'
  BY <1>3 DEF CreateNew, Goto
<1>4. ASSUME NEW p \in Proc, AlreadyExists(p) PROVE Typed'
  BY <1>4 DEF AlreadyExists, Goto
<1>5. ASSUME NEW p \in Proc, GiveUp(p) PROVE Typed'
  BY <1>5 DEF GiveUp, Goto
<1>6. ASSUME NEW p \in Proc, CheckStale(p) PROVE Typed'
  <2>1. /\ pc[p] = "stale?"
        /\ \E s \in {"remove", "create"} : pc' = [pc EXCEPT ![p] = s]
        /\ tries' = [tries EXCEPT ![p] = @ - 1]
        /\ UNCHANGED <<lockfile, age, disk, copy, faults>>
    BY <1>6 DEF CheckStale, Goto, OneAttempt
  <2>2. tries[p] \in 0..Tries /\ tries[p] > 0
    BY <2>1
  <2> QED BY <2>1, <2>2
<1>7. ASSUME NEW p \in Proc, RemoveStale(p) PROVE Typed'
  BY <1>7 DEF RemoveStale, Goto
<1>8. ASSUME NEW p \in Proc, Load(p) PROVE Typed'
  BY <1>8 DEF Load, Goto
<1>9. ASSUME NEW p \in Proc, Work(p) PROVE Typed'
  <2>1. copy' \in [Proc -> [Proc -> Nat]]
    BY <1>9 DEF Work
  <2> QED BY <1>9, <2>1 DEF Work, Goto
<1>10. ASSUME NEW p \in Proc, WriteTemp(p) PROVE Typed'
  BY <1>10 DEF WriteTemp, Goto
<1>11. ASSUME NEW p \in Proc, Rename(p) PROVE Typed'
  BY <1>11 DEF Rename, Goto
<1>12. ASSUME NEW p \in Proc, Drop(p) PROVE Typed'
  BY <1>12 DEF Drop, Goto
<1>13. ASSUME NEW p \in Proc, Fail(p) PROVE Typed'
  BY <1>13 DEF Fail
<1>14. ASSUME NEW p \in Proc, Crash(p) PROVE Typed'
  BY <1>14 DEF Crash
<1>15. CASE UNCHANGED vars
  BY <1>15 DEF vars
<1> QED
  BY <1>1, <1>2, <1>3, <1>4, <1>5, <1>6, <1>7, <1>8, <1>9, <1>10, <1>11,
     <1>12, <1>13, <1>14, <1>15 DEF Next, Step

\* Every variable keeps its type, whatever goes wrong.
THEOREM TypeTheorem == Spec => []TypeOK
<1>1. Typed => TypeOK
  BY DEF Typed
<1> QED BY TypedInit, TypedStep, <1>1, PTL DEF Spec

----------------------------------------------------------------------------
(* Without long sessions and crashes no lock is broken. *)

\* The lock file names exactly the process inside.
LockNamesHolder == \A p \in Proc : Holding(p) <=> lockfile = p

\* A lock is removed by its holder before it is stale.
NobodyBreaks ==
  /\ age <= StaleAfter
  /\ \A p \in Proc : pc[p] # "remove"

\* What the holder has in memory is the state file, with its own work on top.
CopyIsCurrent ==
  \A p \in Proc :
    /\ pc[p] = "work" => copy[p] = disk
    /\ pc[p] \in {"write", "rename"} => copy[p] = [disk EXCEPT ![p] = @ + 1]

Locked == LockNamesHolder /\ NobodyBreaks /\ CopyIsCurrent

LockInv == Typed /\ (Orderly => Locked)

\* What may go wrong is decided at the start.
LEMMA OrderlyStays == Typed /\ [Next]_vars => Orderly' = Orderly
<1> SUFFICES ASSUME Typed, [Next]_vars PROVE faults'.may = faults.may
  BY DEF Orderly
<1>1. CASE \E p \in Proc : Crash(p)
  BY <1>1 DEF Crash, Typed, TypeOK
<1>2. CASE UNCHANGED faults
  BY <1>2
<1> QED
  BY <1>1, <1>2
  DEF Next, Step, Clock, Start, CreateNew, AlreadyExists, GiveUp, CheckStale,
      RemoveStale, Load, Work, WriteTemp, Rename, Drop, Fail, vars

\* The lock is free at first ...
LEMMA LockInit == Init => LockInv
<1> SUFFICES ASSUME Init PROVE LockInv
  OBVIOUS
<1>1. Typed
  BY TypedInit
<1>2. \A p \in Proc : pc[p] = "idle"
  BY DEF Init
<1>3. lockfile = NoProc /\ age = 0
  BY DEF Init
<1> QED
  BY <1>1, <1>2, <1>3, SessionsAssumption
  DEF LockInv, Locked, LockNamesHolder, NobodyBreaks, CopyIsCurrent, Holding,
      Inside

\* ... and every step keeps the invariant of the lock.
LEMMA LockStep == LockInv /\ [Next]_vars => LockInv'
<1> SUFFICES ASSUME LockInv, Orderly, [Next]_vars PROVE Locked'
  BY TypedStep, OrderlyStays DEF LockInv
<1>0. Typed' /\ Typed /\ Locked
  BY TypedStep DEF LockInv
<1> USE <1>0, SessionsAssumption
    DEF Locked, Typed, TypeOK, LockNamesHolder, NobodyBreaks, CopyIsCurrent,
        Holding, Inside
<1>1. CASE Clock
  <2>1. age < StaleAfter
    BY <1>1 DEF Clock, Owned, Orderly
  <2> QED BY <1>1, <2>1 DEF Clock
<1>2. ASSUME NEW p \in Proc, Start(p) PROVE Locked'
  BY <1>2 DEF Start, Goto
<1>3. ASSUME NEW p \in Proc, CreateNew(p) PROVE Locked'
  BY <1>3 DEF CreateNew, Goto
<1>4. ASSUME NEW p \in Proc, AlreadyExists(p) PROVE Locked'
  BY <1>4 DEF AlreadyExists, Goto
<1>5. ASSUME NEW p \in Proc, GiveUp(p) PROVE Locked'
  BY <1>5 DEF GiveUp, Goto
<1>6. ASSUME NEW p \in Proc, CheckStale(p) PROVE Locked'
  <2>1. ~is_stale
    BY DEF is_stale
  <2> QED BY <1>6, <2>1 DEF CheckStale, Goto
<1>7. ASSUME NEW p \in Proc, RemoveStale(p) PROVE Locked'
  BY <1>7 DEF RemoveStale, Goto
<1>8. ASSUME NEW p \in Proc, Load(p) PROVE Locked'
  BY <1>8 DEF Load, Goto
<1>9. ASSUME NEW p \in Proc, Work(p) PROVE Locked'
  <2>1. copy'[p] = [disk EXCEPT ![p] = @ + 1]
    BY <1>9 DEF Work, Goto
  <2>2. \A q \in Proc \ {p} : copy'[q] = copy[q] /\ pc'[q] = pc[q]
    BY <1>9 DEF Work, Goto
  <2>3. pc[p] = "work" /\ pc'[p] = "write"
        /\ UNCHANGED <<lockfile, age, disk>>
    BY <1>9 DEF Work, Goto
  <2>4. CopyIsCurrent'
    BY <2>1, <2>2, <2>3
  <2>5. LockNamesHolder' /\ NobodyBreaks'
    BY <2>2, <2>3
  <2> QED BY <2>4, <2>5
<1>10. ASSUME NEW p \in Proc, WriteTemp(p) PROVE Locked'
  BY <1>10 DEF WriteTemp, Goto
<1>11. ASSUME NEW p \in Proc, Rename(p) PROVE Locked'
  <2>1. \A q \in Proc \ {p} : ~Holding(q)
    BY <1>11 DEF Rename, Goto
  <2> QED BY <1>11, <2>1 DEF Rename, Goto
<1>12. ASSUME NEW p \in Proc, Drop(p) PROVE Locked'
  BY <1>12 DEF Drop, Goto
<1>13. ASSUME NEW p \in Proc, Fail(p) PROVE Locked'
  BY <1>13 DEF Fail
<1>14. ASSUME NEW p \in Proc, Crash(p) PROVE Locked'
  BY <1>14 DEF Crash, Orderly
<1>15. CASE UNCHANGED vars
  BY <1>15 DEF vars
<1> QED
  BY <1>1, <1>2, <1>3, <1>4, <1>5, <1>6, <1>7, <1>8, <1>9, <1>10, <1>11,
     <1>12, <1>13, <1>14, <1>15 DEF Next, Step

\* state.rs, StateLock: two processes are never between lock and unlock at the
\* same time, as long as no lock has to be broken.
THEOREM ExclusionTheorem == Spec => []MutualExclusion
<1>1. LockInv => MutualExclusion
  BY DEF LockInv, Locked, LockNamesHolder, MutualExclusion
<1> QED BY <1>1, LockInit, LockStep, PTL DEF Spec

\* Every step of a session is a commit of the ledger or a stutter.
LEMMA LedgerStep ==
  LockInv /\ [Next]_vars =>
    [L!Next]_(IF Orderly THEN disk ELSE [p \in Proc |-> 0])
<1> SUFFICES ASSUME LockInv, [Next]_vars, Orderly, disk' # disk PROVE L!Next
  BY OrderlyStays DEF LockInv
<1>1. PICK p \in Proc : Rename(p)
  BY DEF Next, Step, Clock, Start, CreateNew, AlreadyExists, GiveUp, CheckStale,
         RemoveStale, Load, Work, WriteTemp, Drop, Fail, Crash, vars
<1>2. disk' = [disk EXCEPT ![p] = @ + 1]
  BY <1>1 DEF Rename, Goto, LockInv, Locked, CopyIsCurrent
<1>3. Orderly'
  BY OrderlyStays DEF LockInv
<1> QED BY <1>1, <1>2, <1>3 DEF L!Next, L!Commit

\* state.rs: no update is lost. Sessions take effect one after the other, each
\* on top of all those before it, although every process works on its own copy
\* of the whole file.
THEOREM LedgerTheorem == Spec => ImplementsLedger
<1>1. Init => L!Init
  BY DEF Init, L!Init
<1> QED
  BY <1>1, LockInit, LockStep, LedgerStep, PTL DEF Spec, ImplementsLedger, L!Spec

----------------------------------------------------------------------------
(* The secret store *)

SecretStores == UNION {[N -> Values] : N \in SUBSET Names}

\* The two names are names of two inodes, and the file of the store is what the
\* commands that have ended well made of it.
FilesApart ==
  /\ content \in [Inodes -> SecretStores \cup {Torn}]
  /\ path \in Inodes \cup {None} /\ tmp \in Inodes \cup {None}
  /\ path = tmp => path = None
  /\ finished \in SecretStores
  /\ S!load = finished

\* What a command will save is its change of the store as it still is; it writes
\* to the temporary file, which has it when it comes to the rename.
Saves(w) ==
  /\ at \in [{w} -> {"idle", "open", "write", "rename"}]
  /\ mem = [v \in {w} |-> mem[v]] /\ op = [v \in {w} |-> op[v]]
  /\ fd = [v \in {w} |-> fd[v]]
  /\ at[w] # "idle" => op[w] \in S!Ops /\ mem[w] = S!Changed(finished, op[w])
  /\ at[w] # "write" => fd[w] = None
  /\ at[w] = "write" => fd[w] = tmp /\ tmp \in Inodes /\ content[tmp] = Torn
  /\ at[w] = "rename" => tmp \in Inodes /\ content[tmp] = mem[w]

\* A command makes a store of a store, and one that has nothing to do the same.
LEMMA ChangedStore ==
  ASSUME NEW s \in SecretStores, NEW o \in S!Ops
  PROVE  /\ S!Changed(s, o) \in SecretStores
         /\ S!NothingToDo(s, o) => S!remove(s, o.name) = s
<1>1. PICK N \in SUBSET Names : s \in [N -> Values]
  BY DEF SecretStores
<1>2. /\ o.name \in Names /\ o.kind \in {"set", "rm"}
      /\ o.kind = "set" => o.value \in Values
  BY DEF S!Ops
<1>3. S!set(s, o.name, o.value) \in [N \cup {o.name} -> Values] \/ o.kind # "set"
  BY <1>1, <1>2 DEF S!set
<1>4. S!remove(s, o.name) \in [N \ {o.name} -> Values]
  BY <1>1 DEF S!remove
<1>5. S!Changed(s, o) \in SecretStores
  <2>1. N \cup {o.name} \in SUBSET Names /\ N \ {o.name} \in SUBSET Names
    BY <1>2
  <2> QED
    BY <1>2, <1>3, <1>4, <2>1 DEF S!Changed, SecretStores
<1>6. S!NothingToDo(s, o) => S!remove(s, o.name) = s
  BY <1>1 DEF S!NothingToDo, S!remove
<1> QED
  BY <1>5, <1>6

\* No file is open at first, and none has been saved.
LEMMA SecretsInit ==
  ASSUME NEW w, Writers = {w}, S!Init
  PROVE  FilesApart /\ Saves(w)
<1>1. S!Empty \in SecretStores
  BY DEF S!Empty, SecretStores
<1> QED
  BY <1>1 DEF S!Init, FilesApart, Saves, S!load

\* What a step leaves alone, it leaves as it was.
LEMMA SecretsStutter ==
  ASSUME NEW w, Writers = {w}, FilesApart, Saves(w),
         UNCHANGED <<content, path, tmp, mem, op, fd, at, finished>>
  PROVE  FilesApart' /\ Saves(w)'
<1>1. S!load' = S!load
  BY DEF S!load
<1>2. FilesApart'
  BY <1>1 DEF FilesApart
<1>3. Saves(w)'
  BY DEF Saves
<1> QED
  BY <1>2, <1>3

\* One lemma for each step of a command on the secrets.
LEMMA BeginSecret ==
  ASSUME NEW w, Writers = {w}, FilesApart, Saves(w), NEW o \in S!Ops, S!Begin(w, o)
  PROVE  FilesApart' /\ Saves(w)'
<1>1. /\ at[w] = "idle" /\ UNCHANGED <<fd, content, path, tmp>>
      /\ S!load = finished /\ finished \in SecretStores
  BY DEF S!Begin, S!files, FilesApart
<1>2. S!load # Torn
  BY <1>1, SecretsAssumption DEF SecretStores
<1>3. CASE S!NothingToDo(S!load, o)
  <2>1. finished' = finished /\ UNCHANGED <<at, mem, op>>
    <3>1. finished' = S!remove(finished, o.name) /\ UNCHANGED <<at, mem, op>>
      BY <1>2, <1>3 DEF S!Begin
    <3> QED
      BY <1>1, <1>3, <3>1, ChangedStore
  <2> QED
    BY <1>1, <2>1, SecretsStutter
<1>4. CASE ~S!NothingToDo(S!load, o)
  <2>1. /\ at' = [at EXCEPT ![w] = "open"]
        /\ mem' = [mem EXCEPT ![w] = S!Changed(S!load, o)]
        /\ op' = [op EXCEPT ![w] = o]
        /\ finished' = finished
    BY <1>2, <1>4 DEF S!Begin
  <2>2. FilesApart'
    BY <1>1, <2>1 DEF FilesApart, S!load
  <2>3. /\ at'[w] = "open" /\ op'[w] = o /\ mem'[w] = S!Changed(finished, o)
        /\ at' \in [{w} -> {"idle", "open", "write", "rename"}]
        /\ mem' = [v \in {w} |-> mem'[v]] /\ op' = [v \in {w} |-> op'[v]]
    BY <1>1, <2>1 DEF Saves
  <2>4. Saves(w)'
    BY <1>1, <2>1, <2>3 DEF Saves
  <2> QED
    BY <2>2, <2>4
<1> QED
  BY <1>3, <1>4

LEMMA OpenSecret ==
  ASSUME NEW w, Writers = {w}, FilesApart, Saves(w), S!Open(w)
  PROVE  FilesApart' /\ Saves(w)'
<1> DEFINE fresh == CHOOSE i \in Inodes : i \notin {path, tmp} \cup {fd[v] : v \in Writers}
           inode == IF tmp = None THEN fresh ELSE tmp
<1>1. /\ at[w] = "open" /\ tmp' = inode /\ content' = [content EXCEPT ![inode] = Torn]
      /\ fd' = [fd EXCEPT ![w] = inode] /\ at' = [at EXCEPT ![w] = "write"]
      /\ UNCHANGED <<mem, op, finished, path>>
  BY DEF S!Open
<1>2. inode \in Inodes /\ inode # path
  <2>1. CASE tmp = None
    <3>1. fd[w] = None
      BY <1>1 DEF Saves
    <3>2. PICK i \in Inodes : i # path
      BY SecretsAssumption DEF FilesApart
    <3>3. i \notin {path, tmp} \cup {fd[v] : v \in Writers}
      BY <2>1, <3>1, <3>2, SecretsAssumption
    <3>4. fresh \in Inodes /\ fresh \notin {path, tmp} \cup {fd[v] : v \in Writers}
      BY <3>3
    <3> HIDE DEF fresh
    <3> QED
      BY <2>1, <3>4
  <2>2. CASE tmp # None
    BY <2>2 DEF FilesApart
  <2> QED
    BY <2>1, <2>2
<1> HIDE DEF inode
<1>3. /\ content' \in [Inodes -> SecretStores \cup {Torn}]
      /\ content'[inode] = Torn
      /\ path \in Inodes => content'[path] = content[path]
  BY <1>1, <1>2 DEF FilesApart
<1>4. S!load' = S!load
  BY <1>1, <1>3 DEF S!load, FilesApart
<1>5. FilesApart'
  BY <1>1, <1>2, <1>3, <1>4, SecretsAssumption DEF FilesApart
<1>6. /\ at'[w] = "write" /\ fd'[w] = inode
      /\ at' \in [{w} -> {"idle", "open", "write", "rename"}]
      /\ fd' = [v \in {w} |-> fd'[v]]
  BY <1>1 DEF Saves
<1>7. Saves(w)'
  BY <1>1, <1>2, <1>3, <1>6 DEF Saves
<1> QED
  BY <1>5, <1>7

LEMMA WriteSecret ==
  ASSUME NEW w, Writers = {w}, FilesApart, Saves(w), S!Write(w)
  PROVE  FilesApart' /\ Saves(w)'
<1>1. /\ at[w] = "write" /\ fd[w] = tmp /\ tmp \in Inodes /\ content[tmp] = Torn
      /\ content' = [content EXCEPT ![tmp] = S!Over(@, mem[w])]
      /\ fd' = [fd EXCEPT ![w] = None] /\ at' = [at EXCEPT ![w] = "rename"]
      /\ UNCHANGED <<mem, op, finished, path, tmp>>
  BY DEF S!Write, Saves
<1>2. /\ op[w] \in S!Ops /\ mem[w] = S!Changed(finished, op[w])
      /\ mem[w] \in SecretStores
  BY <1>1, ChangedStore DEF Saves, FilesApart
<1>3. S!Over(Torn, mem[w]) = mem[w]
  BY DEF S!Over
<1>4. /\ content' \in [Inodes -> SecretStores \cup {Torn}]
      /\ content'[tmp] = mem[w]
      /\ path \in Inodes => content'[path] = content[path]
  BY <1>1, <1>2, <1>3, SecretsAssumption DEF FilesApart
<1>5. S!load' = S!load
  BY <1>1, <1>4 DEF S!load, FilesApart
<1>6. FilesApart'
  BY <1>1, <1>4, <1>5 DEF FilesApart
<1>7. /\ at'[w] = "rename" /\ fd'[w] = None
      /\ at' \in [{w} -> {"idle", "open", "write", "rename"}]
      /\ fd' = [v \in {w} |-> fd'[v]]
  BY <1>1 DEF Saves
<1>8. Saves(w)'
  BY <1>1, <1>2, <1>4, <1>7 DEF Saves
<1> QED
  BY <1>6, <1>8

LEMMA RenameSecret ==
  ASSUME NEW w, Writers = {w}, FilesApart, Saves(w), S!Rename(w)
  PROVE  FilesApart' /\ Saves(w)'
<1>1. /\ at[w] = "rename" /\ tmp \in Inodes /\ tmp # None /\ content[tmp] = mem[w]
      /\ op[w] \in S!Ops /\ mem[w] = S!Changed(finished, op[w])
  BY SecretsAssumption DEF S!Rename, Saves
<1>2. /\ path' = tmp /\ tmp' = None /\ finished' = S!Changed(finished, op[w])
      /\ at' = [at EXCEPT ![w] = "idle"] /\ UNCHANGED <<content, mem, op, fd>>
  BY <1>1 DEF S!Rename
<1>3. S!load' = finished'
  BY <1>1, <1>2 DEF S!load
<1>4. finished' \in SecretStores
  BY <1>1, <1>2, ChangedStore DEF FilesApart
<1>5. FilesApart'
  BY <1>1, <1>2, <1>3, <1>4 DEF FilesApart
<1>6. at'[w] = "idle" /\ at' \in [{w} -> {"idle", "open", "write", "rename"}]
  BY <1>2 DEF Saves
<1>7. Saves(w)'
  BY <1>1, <1>2, <1>6 DEF Saves
<1> QED
  BY <1>5, <1>7

\* A crash leaves the file that the names say.
LEMMA CrashSecret ==
  ASSUME NEW w, Writers = {w}, FilesApart, Saves(w), S!Crash(w)
  PROVE  FilesApart' /\ Saves(w)'
<1>1. /\ at' = [at EXCEPT ![w] = "idle"] /\ fd' = [fd EXCEPT ![w] = None]
      /\ UNCHANGED <<mem, op, finished, content, path, tmp>>
  BY DEF S!Crash, S!files
<1>2. FilesApart'
  BY <1>1 DEF FilesApart, S!load
<1>3. /\ at'[w] = "idle" /\ at' \in [{w} -> {"idle", "open", "write", "rename"}]
      /\ fd'[w] = None /\ fd' = [v \in {w} |-> fd'[v]]
  BY <1>1 DEF Saves
<1>4. Saves(w)'
  BY <1>1, <1>3 DEF Saves
<1> QED
  BY <1>2, <1>4

\* Every step keeps the invariant of the secrets.
LEMMA SecretsStep ==
  ASSUME NEW w, Writers = {w}, FilesApart, Saves(w), [S!Next]_(S!vars)
  PROVE  FilesApart' /\ Saves(w)'
<1>1. CASE S!Next
  <2>1. \/ \E o \in S!Ops : S!Begin(w, o)
        \/ S!Open(w) \/ S!Write(w) \/ S!Rename(w) \/ S!Crash(w)
    BY <1>1 DEF S!Next
  <2> QED
    BY <2>1, BeginSecret, OpenSecret, WriteSecret, RenameSecret, CrashSecret
<1>2. CASE UNCHANGED S!vars
  BY <1>2, SecretsStutter DEF S!vars, S!files, S!writers
<1> QED
  BY <1>1, <1>2

\* "ce-gke secret set" and "rm" (secret_cmd): as long as no two commands change the
\* store at once, what the file has is what the commands that ended well made of
\* it, wherever the others died.
THEOREM FinishedTheorem ==
  ASSUME NEW w, Writers = {w}
  PROVE  S!Spec => []FinishedIsKept
<1>1. FilesApart => FinishedIsKept
  BY DEF FilesApart, FinishedIsKept, S!FinishedIsKept
<1>2. S!Init => FilesApart /\ Saves(w)
  BY SecretsInit
<1>3. FilesApart /\ Saves(w) /\ [S!Next]_(S!vars) => FilesApart' /\ Saves(w)'
  BY SecretsStep
<1> QED
  BY <1>1, <1>2, <1>3, PTL DEF S!Spec

=============================================================================
