------------------------------ MODULE Secrets ------------------------------
(***************************************************************************)
(* The secret store (src/src/secrets.rs): processes of the command line that  *)
(* set and remove secrets (secret_cmd, src/src/main.rs), each with the store *)
(* that it read when it started, and may die between any two of its steps.   *)
(*                                                                         *)
(* Files are inodes: the file of the store and the temporary file, which has *)
(* one name for all processes, are names of inodes, and a process that has   *)
(* opened the temporary file keeps writing to its inode after a rename.      *)
(* No lock is taken.  Secrets that no variable refers to are left out.       *)
(***************************************************************************)
EXTENDS Integers, FiniteSets

CONSTANTS
  Writers,      \* processes that change the store
  Names,
  Values,
  Inodes,
  Torn,         \* bytes that are no JSON: nothing, or parts of two writes
  None,
  MaxCommands   \* commands that are started

VARIABLES
  content,   \* inode -> a store or Torn
  path,      \* the inode of gke-secrets.json, or None
  tmp,       \* the inode of gke-secrets.json.tmp, or None
  pc, mem, op, fd,  \* of a writer: its place, the store it has, its command, its open file
  commands,
  finished   \* the store after the commands that have ended well

files == <<content, path, tmp>>
writers == <<pc, mem, op, fd, commands, finished>>
vars == <<files, writers>>

Empty == [n \in {} |-> None]
Ops == [kind : {"set"}, name : Names, value : Values]
         \cup [kind : {"rm"}, name : Names]

Init ==
  /\ content = [i \in Inodes |-> Torn]
  /\ path = None /\ tmp = None
  /\ pc = [w \in Writers |-> "idle"]
  /\ mem = [w \in Writers |-> Empty]
  /\ op = [w \in Writers |-> None]
  /\ fd = [w \in Writers |-> None]
  /\ commands = 0
  /\ finished = Empty

\* SecretStore::load: no file is an empty store, and Torn an error.
load == IF path = None THEN Empty ELSE content[path]

set(store, name, value) ==
  [n \in DOMAIN store \cup {name} |-> IF n = name THEN value ELSE store[n]]

remove(store, name) == [n \in DOMAIN store \ {name} |-> store[n]]

Changed(store, o) ==
  IF o.kind = "set" THEN set(store, o.name, o.value) ELSE remove(store, o.name)

\* A slip: only a new value is saved.
SavesOnlySets(store, o) == o.kind = "rm"

\* "No secret": nothing to save.
NothingToDo(store, o) == o.kind = "rm" /\ o.name \notin DOMAIN store

Begin(w, o) ==
  /\ pc[w] = "idle"
  /\ commands < MaxCommands
  /\ commands' = commands + 1
  /\ IF load = Torn
     THEN UNCHANGED <<pc, mem, op, finished>>
     ELSE IF NothingToDo(load, o)
     THEN /\ finished' = remove(finished, o.name)
          /\ UNCHANGED <<pc, mem, op>>
     ELSE /\ pc' = [pc EXCEPT ![w] = "open"]
          /\ mem' = [mem EXCEPT ![w] = Changed(load, o)]
          /\ op' = [op EXCEPT ![w] = o]
          /\ UNCHANGED finished
  /\ UNCHANGED <<fd, files>>

\* fs::write opens the temporary file, or makes it, and empties it.
Open(w) ==
  /\ pc[w] = "open"
  /\ LET fresh == CHOOSE i \in Inodes : i \notin {path, tmp} \cup {fd[v] : v \in Writers}
         inode == IF tmp = None THEN fresh ELSE tmp
     IN  /\ tmp' = inode
         /\ content' = [content EXCEPT ![inode] = Torn]
         /\ fd' = [fd EXCEPT ![w] = inode]
  /\ pc' = [pc EXCEPT ![w] = "write"]
  /\ UNCHANGED <<mem, op, commands, finished, path>>

\* What is in a file of which the start has been written over: more secrets are
\* more bytes.
Over(old, new) ==
  IF old # Torn /\ Cardinality(DOMAIN old) > Cardinality(DOMAIN new) THEN Torn ELSE new

Write(w) ==
  /\ pc[w] = "write"
  /\ content' = [content EXCEPT ![fd[w]] = Over(@, mem[w])]
  /\ fd' = [fd EXCEPT ![w] = None]
  /\ pc' = [pc EXCEPT ![w] = "rename"]
  /\ UNCHANGED <<mem, op, commands, finished, path, tmp>>

\* The rename gives the store whatever the temporary file is by now.  It fails
\* when another process has renamed it.
Rename(w) ==
  /\ pc[w] = "rename"
  /\ IF tmp = None
     THEN UNCHANGED <<path, tmp, finished>>
     ELSE /\ path' = tmp
          /\ tmp' = None
          /\ finished' = Changed(finished, op[w])
  /\ pc' = [pc EXCEPT ![w] = "idle"]
  /\ UNCHANGED <<content, mem, op, fd, commands>>

\* The process dies between two of its steps.
Crash(w) ==
  /\ pc[w] # "idle"
  /\ pc' = [pc EXCEPT ![w] = "idle"]
  /\ fd' = [fd EXCEPT ![w] = None]
  /\ UNCHANGED <<mem, op, commands, finished, files>>

Next ==
  \E w \in Writers :
    \/ \E o \in Ops : Begin(w, o)
    \/ Open(w) \/ Write(w) \/ Rename(w) \/ Crash(w)

Spec == Init /\ [][Next]_vars

----------------------------------------------------------------------------
(* Properties *)

\* No command that has ended well is undone by one that has not, or has not
\* ended yet: what is in the file is what the finished commands made of it.
FinishedIsKept == load = finished

=============================================================================
