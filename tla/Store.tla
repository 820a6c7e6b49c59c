-------------------------------- MODULE Store --------------------------------
(***************************************************************************)
(* The store of src/src/state.rs as a value, and what the commands of       *)
(* src/src/main.rs do to one entry of it: operators, used by History and by *)
(* Commands.                                                                *)
(*                                                                          *)
(* A store is a function from keys to managed deployments. A key is the     *)
(* pair <<namespace, name>>, or <<name>> in a file of version 0. A spec has *)
(* its identity, the revision of its pod template, the replica count, and   *)
(* "rest": every field that is part of neither (strategy, select, probes,   *)
(* service, dependencies).                                                  *)
(***************************************************************************)
EXTENDS Naturals, Sequences, FiniteSets, SequencesExt

CONSTANT MAX_HISTORY

ASSUME HistoryAssumption == MAX_HISTORY \in Nat \ {0}

STORE_VERSION == 1

\* Deployment. (No prover takes it that a literal is a string.)
DeploymentSpec == [namespace : STRING \cup {"default"}, name : STRING,
                   revision : STRING, replicas : Nat, rest : STRING]

\* The spec of ManagedDeployment::default(): its image is empty.
NoSpec == [namespace |-> "", name |-> "", revision |-> "", replicas |-> 0,
           rest |-> ""]

NewEntry == [spec |-> NoSpec, replicas |-> {}, history |-> <<>>,
             paused |-> FALSE]

\* A slip: the namespace is no part of the key.
key_of_name(spec) == <<"default", spec.name>>

key(spec) == <<spec.namespace, spec.name>>

\* Functions with one entry set, and with one entry less.
With(f, k, v) == [i \in DOMAIN f \cup {k} |-> IF i = k THEN v ELSE f[i]]
Without(f, k) == [i \in DOMAIN f \ {k} |-> f[i]]

----------------------------------------------------------------------------
(* ManagedDeployment::push_history and Store::upsert *)

\* drain: the newest MAX_HISTORY entries stay.
DropOldest(h) ==
  IF Len(h) > MAX_HISTORY THEN SubSeq(h, Len(h) - MAX_HISTORY + 1, Len(h))
  ELSE h

push_history(m, prior) ==
  IF m.history # <<>> /\ Last(m.history).revision = prior.revision THEN m
  ELSE [m EXCEPT !.history = DropOldest(Append(@, prior))]

\* A slip: what is compared is the whole spec.
OutgoingIfAnyChange(m, spec) == m.spec # spec

\* The entry holds a spec, of another revision than the new one.
Outgoing(m, spec) == m.spec.revision # "" /\ m.spec.revision # spec.revision

\* A slip: the entry is made anew.
replaced_anew(m, spec) ==
  [NewEntry EXCEPT !.spec = spec, !.history = Append(m.history, m.spec)]

replaced(m, spec) ==
  [(IF Outgoing(m, spec) THEN push_history(m, m.spec) ELSE m)
     EXCEPT !.spec = spec]

upsert(store, spec) ==
  LET k == key(spec)
      m == IF k \in DOMAIN store THEN store[k] ELSE NewEntry
  IN  With(store, k, replaced(m, spec))

----------------------------------------------------------------------------
(* main.rs: rollout undo. The count, the namespace and the name stay. *)

rolled(m, prior) ==
  [prior EXCEPT !.replicas = m.spec.replicas,
                !.namespace = m.spec.namespace,
                !.name = m.spec.name]

CanUndo(m) == m.history # <<>>

undo(m) == [m EXCEPT !.spec = rolled(m, Last(m.history)),
                     !.history = Front(m.history)]

\* --to-revision: the newest entry of that revision is taken out.
Positions(m, rev) == {i \in 1..Len(m.history) : m.history[i].revision = rev}

CanUndoTo(m, rev) == Positions(m, rev) # {}

undo_to(m, rev) ==
  LET i == CHOOSE i \in Positions(m, rev) : \A j \in Positions(m, rev) : j <= i
  IN  [m EXCEPT !.spec = rolled(m, m.history[i]),
                !.history = RemoveAt(@, i)]

\* main.rs: scale.
scale(m, n) == [m EXCEPT !.spec.replicas = n]

\* main.rs: rollout pause and resume.
set_paused(m, flag) == [m EXCEPT !.paused = flag]

----------------------------------------------------------------------------
(* Store::migrate, on a file [version, deployments] *)

forward(m) ==
  [m EXCEPT !.spec.namespace = IF @ = "" THEN "default" ELSE @]

new_key(k, m) == IF Len(k) = 2 THEN k ELSE key(forward(m).spec)

\* The old key of a new one; the keys of version 0 are the names, all different.
old_key(old, k) == CHOOSE i \in DOMAIN old : new_key(i, old[i]) = k

migrate(file) ==
  IF file.version >= STORE_VERSION THEN file.deployments
  ELSE LET old == file.deployments
       IN  [k \in {new_key(i, old[i]) : i \in DOMAIN old} |->
              forward(old[old_key(old, k)])]

=============================================================================
