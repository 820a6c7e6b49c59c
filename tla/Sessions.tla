------------------------------ MODULE Sessions ------------------------------
(***************************************************************************)
(* Processes that share one state file: StateLock::acquire, is_stale and    *)
(* drop, Store::load and Store::save (src/src/state.rs), and the frame that *)
(* main (src/src/main.rs) and a pass of run_daemon (src/src/daemon.rs) put  *)
(* around them: lock, load, work on the copy, save, unlock.                 *)
(*                                                                          *)
(* The work of a session is one mark on the copy it loaded. The file system *)
(* gives what the code asks of it: create_new and rename are atomic,        *)
(* remove_file removes whatever has the name.                               *)
(***************************************************************************)
EXTENDS Naturals

CONSTANTS
  Proc,         \* the ce-gke processes
  NoProc,       \* no lock file
  Tries,        \* attempts of one acquire (50 in the code)
  StaleAfter,   \* LOCK_STALE_SECS, in steps of the clock
  FaultPlans,   \* [may, crashes]: what may go wrong, and how many crashes
  MaxSessions   \* sessions of one process at most

Fault == {"long",   \* a session outlasts LOCK_STALE_SECS
          "crash",  \* a process dies between any two steps
          "error"}  \* a command or a file operation fails

ASSUME SessionsAssumption ==
  /\ NoProc \notin Proc
  /\ Tries \in Nat \ {0}
  /\ StaleAfter \in Nat
  /\ FaultPlans \subseteq [may : SUBSET Fault, crashes : Nat]
  /\ MaxSessions \in Nat

VARIABLES
  lockfile,  \* NoProc, or the process whose id is written in the lock file
  age,       \* steps of the clock since the lock file was created
  disk,      \* the state file: sessions of each process that are in it
  pc,        \* what each process does next
  tries,     \* attempts each acquire has left
  copy,      \* the store each process holds in memory
  faults     \* what may still go wrong

vars == <<lockfile, age, disk, pc, tries, copy, faults>>

\* From the creation of the lock file to its removal.
Inside == {"load", "work", "write", "rename", "release"}
Holding(p) == pc[p] \in Inside

Goto(p, from, to) == pc[p] = from /\ pc' = [pc EXCEPT ![p] = to]

Init ==
  /\ lockfile = NoProc
  /\ age = 0
  /\ disk = [p \in Proc |-> 0]
  /\ pc = [p \in Proc |-> "idle"]
  /\ tries = [p \in Proc |-> 0]
  /\ copy = [p \in Proc |-> disk]
  /\ faults \in FaultPlans

----------------------------------------------------------------------------
(* StateLock::acquire *)

Start(p) ==
  /\ disk[p] < MaxSessions
  /\ Goto(p, "idle", "create")
  /\ tries' = [tries EXCEPT ![p] = Tries]
  /\ UNCHANGED <<lockfile, age, disk, copy, faults>>

\* A slip: the file is opened whether or not it exists.
OpenAlways(p) ==
  /\ tries[p] > 0
  /\ Goto(p, "create", "load")
  /\ lockfile' = p
  /\ age' = 0
  /\ UNCHANGED <<disk, tries, copy, faults>>

CreateNew(p) ==
  /\ tries[p] > 0
  /\ lockfile = NoProc
  /\ Goto(p, "create", "load")
  /\ lockfile' = p
  /\ age' = 0
  /\ UNCHANGED <<disk, tries, copy, faults>>

AlreadyExists(p) ==
  /\ tries[p] > 0
  /\ lockfile # NoProc
  /\ Goto(p, "create", "stale?")
  /\ UNCHANGED <<lockfile, age, disk, tries, copy, faults>>

\* The loop is over, or the directory cannot be written to.
GiveUp(p) ==
  /\ tries[p] = 0 \/ "error" \in faults.may
  /\ Goto(p, "create", "idle")
  /\ UNCHANGED <<lockfile, age, disk, tries, copy, faults>>

\* A slip: a lock is never taken for stale.
NeverStale == FALSE

\* is_stale: the file may be gone by now; then it is not stale.
is_stale == lockfile # NoProc /\ age > StaleAfter

OneAttempt(p) == tries' = [tries EXCEPT ![p] = @ - 1]

CheckStale(p) ==
  /\ Goto(p, "stale?", IF is_stale THEN "remove" ELSE "create")
  /\ OneAttempt(p)
  /\ UNCHANGED <<lockfile, age, disk, copy, faults>>

\* remove_file: whatever lock file is there by now.
RemoveStale(p) ==
  /\ Goto(p, "remove", "create")
  /\ lockfile' = NoProc
  /\ UNCHANGED <<age, disk, tries, copy, faults>>

----------------------------------------------------------------------------
(* The session, and drop *)

Load(p) ==
  /\ Goto(p, "load", "work")
  /\ copy' = [copy EXCEPT ![p] = disk]
  /\ UNCHANGED <<lockfile, age, disk, tries, faults>>

\* A slip: the guard goes out of scope before the store is saved.
WorkAndUnlock(p) ==
  /\ Goto(p, "work", "write")
  /\ copy' = [copy EXCEPT ![p][p] = @ + 1]
  /\ lockfile' = NoProc
  /\ UNCHANGED <<age, disk, tries, faults>>

\* The command, or the reconcile pass, has changed the store in memory.
Work(p) ==
  /\ Goto(p, "work", "write")
  /\ copy' = [copy EXCEPT ![p][p] = @ + 1]
  /\ UNCHANGED <<lockfile, age, disk, tries, faults>>

\* save writes and syncs a temporary file of its own name, and renames it.
WriteTemp(p) ==
  /\ Goto(p, "write", "rename")
  /\ UNCHANGED <<lockfile, age, disk, tries, copy, faults>>

Rename(p) ==
  /\ Goto(p, "rename", "release")
  /\ disk' = copy[p]
  /\ UNCHANGED <<lockfile, age, tries, copy, faults>>

\* The operator ? anywhere after the lock: nothing is saved, the guard drops.
Fail(p) ==
  /\ "error" \in faults.may
  /\ pc[p] \in {"load", "work", "write", "rename"}
  /\ pc' = [pc EXCEPT ![p] = "release"]
  /\ UNCHANGED <<lockfile, age, disk, tries, copy, faults>>

\* drop: whatever lock file is there by now.
Drop(p) ==
  /\ Goto(p, "release", "idle")
  /\ lockfile' = NoProc
  /\ UNCHANGED <<age, disk, tries, copy, faults>>

Crash(p) ==
  /\ "crash" \in faults.may
  /\ faults.crashes > 0
  /\ pc[p] # "idle"
  /\ pc' = [pc EXCEPT ![p] = "idle"]
  /\ faults' = [faults EXCEPT !.crashes = @ - 1]
  /\ UNCHANGED <<lockfile, age, disk, tries, copy>>

Step(p) ==
  \/ CreateNew(p) \/ AlreadyExists(p) \/ GiveUp(p)
  \/ CheckStale(p) \/ RemoveStale(p)
  \/ Load(p) \/ Work(p) \/ WriteTemp(p) \/ Rename(p) \/ Drop(p)

----------------------------------------------------------------------------
(* Time. Beyond StaleAfter + 1 it makes no difference. Unless sessions may  *)
(* be long, the owner of a lock is done or dead before the lock is stale.   *)

Owned == lockfile # NoProc /\ Holding(lockfile)

Clock ==
  /\ lockfile # NoProc
  /\ age <= StaleAfter
  /\ age = StaleAfter => "long" \in faults.may \/ ~Owned
  /\ age' = age + 1
  /\ UNCHANGED <<lockfile, disk, pc, tries, copy, faults>>

Next == Clock \/ \E p \in Proc : Start(p) \/ Step(p) \/ Fail(p) \/ Crash(p)

Spec == Init /\ [][Next]_vars

\* The scheduler runs every process, time passes, and the daemon comes back
\* for its next pass. That a session fails, or crashes, is never assumed.
FairSpec ==
  /\ Spec
  /\ WF_vars(Clock)
  /\ \A p \in Proc : WF_vars(Step(p)) /\ WF_vars(Start(p))

----------------------------------------------------------------------------
(* Properties *)

\* The types of the variables; the clock stops once the lock is stale.
TypeOK ==
  /\ lockfile \in Proc \cup {NoProc}
  /\ age \in 0..(StaleAfter + 1)
  /\ disk \in [Proc -> Nat]
  /\ pc \in [Proc -> Inside \cup {"idle", "create", "stale?", "remove"}]
  /\ tries \in [Proc -> 0..Tries]
  /\ copy \in [Proc -> [Proc -> Nat]]
  /\ faults \in [may : SUBSET Fault, crashes : Nat]

\* No session outlasts the stale time-out, and no process dies in one.
Orderly == faults.may \cap {"long", "crash"} = {}

\* StateLock: at most one process is between lock and unlock, as long as no
\* lock has to be broken.
MutualExclusion ==
  Orderly => \A p, q \in Proc : Holding(p) /\ Holding(q) => p = q

\* "Two concurrent ce-gke processes cannot lose each other's updates"
\* (state.rs): the state file is a ledger, every save adds exactly one session
\* to it, although each process works on its own copy of the whole file.
L == INSTANCE SessionLedger WITH
       ledger <- IF Orderly THEN disk ELSE [p \in Proc |-> 0]
ImplementsLedger == L!Spec

\* "A stale lock left by a crashed process is broken so the orchestrator never
\* wedges permanently" (state.rs): a lock file whose creator is not in a
\* session any more does not stay, as long as somebody comes for the lock.
NeverWedged ==
  \A p \in Proc :
    lockfile = p /\ ~Holding(p) ~> \/ lockfile # p
                                   \/ Holding(p)
                                   \/ \A q \in Proc : disk[q] >= MaxSessions

=============================================================================
