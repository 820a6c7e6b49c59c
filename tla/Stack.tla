------------------------------- MODULE Stack -------------------------------
(***************************************************************************)
(* A manifest with several deployments: Stack (src/src/stack.rs) and         *)
(* apply_stack (src/src/main.rs), from the parsed text to the last app       *)
(* handed to the reconciler.  The sort is that of TopoSort.                  *)
(*                                                                         *)
(* The checks of a single deployment are down to the one about its           *)
(* dependencies; what happens to an app that is applied is the business of   *)
(* Commands and Controller.                                                  *)
(***************************************************************************)
EXTENDS TopoSort, SequencesExt

CONSTANTS
  Manifests,    \* [apps, namespace], each app [name, namespace, service, depends_on]
  CliNamespaces,
  Default,      \* the namespace "default"
  Unset,        \* no namespace in the text
  NoService

ASSUME StackAssumption ==
  /\ Default \in CliNamespaces
  /\ Unset # Default
  /\ \A m \in Manifests :
       /\ m.apps \in Seq(Range(m.apps))
       /\ \A i \in 1..Len(m.apps) : NoService \notin m.apps[i].depends_on

VARIABLES
  manifest,
  cli,      \* the --namespace of the command line
  apps,
  stage,    \* what the command is doing
  applied   \* keys handed to the reconciler so far

stackVars == <<manifest, cli, apps, stage, applied>>
vars == <<stackVars, sortVars>>

key(app) == <<app.namespace, app.name>>

Apps == Range(apps)

Publishes(app, ns, s) == app.namespace = ns /\ app.service = s

\* A namespace for every app that is still at the default.
shift(as, ns) ==
  [i \in DOMAIN as |-> IF as[i].namespace = Default THEN [as[i] EXCEPT !.namespace = ns]
                                                    ELSE as[i]]

\* serde: a namespace that is not in the text is the default.
parsed(as) ==
  [i \in DOMAIN as |-> IF as[i].namespace = Unset THEN [as[i] EXCEPT !.namespace = Default]
                                                  ELSE as[i]]

apply_namespace(m) ==
  IF m.namespace = Unset THEN parsed(m.apps) ELSE shift(parsed(m.apps), m.namespace)

AppValid(app) == app.service \notin app.depends_on

UniqueKeys(as) == \A i, j \in DOMAIN as : key(as[i]) = key(as[j]) => i = j

DepsResolve(as) ==
  \A i \in DOMAIN as : \A s \in as[i].depends_on :
    \E j \in DOMAIN as : Publishes(as[j], as[i].namespace, s)

\* Stack::validate, but for the cycles.
validate(as) ==
  /\ as # <<>>
  /\ \A i \in DOMAIN as : AppValid(as[i])
  /\ UniqueKeys(as)
  /\ DepsResolve(as)

\* A slip: the last app that publishes a service, in whatever namespace.
OwnerAnywhere(as, ns, s) ==
  LET of == SelectLastInSeq(as, LAMBDA app : app.service = s)
  IN  IF of = 0 THEN {} ELSE {key(as[of])}

\* service_owner: the last app of the file that publishes the service in the
\* namespace, if any does.
service_owner(as, ns, s) ==
  LET of == SelectLastInSeq(as, LAMBDA app : Publishes(app, ns, s))
  IN  IF of = 0 THEN {} ELSE {key(as[of])}

\* apply_order: every key with the keys that own what its apps depend on.
DepsMap(as) ==
  [k \in {key(app) : app \in Range(as)} |->
     UNION {UNION {service_owner(as, app.namespace, s) \ {k} : s \in app.depends_on} :
              app \in {a \in Range(as) : key(a) = k}}]

Init ==
  /\ manifest \in Manifests
  /\ cli \in CliNamespaces
  /\ apps = apply_namespace(manifest)
  /\ stage = "validate"
  /\ applied = <<>>
  /\ Begun(<<>>, deps, indegree, ready, order)

BeginSort(next) ==
  /\ Begun(DepsMap(apps), deps', indegree', ready', order')
  /\ stage' = next
  /\ UNCHANGED <<manifest, cli, apps, applied>>

Reject ==
  /\ stage' = "rejected"
  /\ UNCHANGED <<manifest, cli, apps, applied, sortVars>>

\* from_manifest, and again after the command line has moved the apps.
Validate ==
  /\ stage \in {"validate", "revalidate"}
  /\ IF validate(apps)
     THEN BeginSort(IF stage = "validate" THEN "sort" ELSE "resort")
     ELSE Reject

Sorting == stage \in {"sort", "resort", "order"}

Sort ==
  /\ Sorting
  /\ SortNext
  /\ UNCHANGED stackVars

CycleFound == Sorting /\ SortOver /\ Cyclic /\ Reject

ShiftNamespace ==
  /\ stage = "sort" /\ SortOver /\ ~Cyclic /\ cli # Default
  /\ apps' = shift(apps, cli)
  /\ stage' = "revalidate"
  /\ UNCHANGED <<manifest, cli, applied, sortVars>>

\* The order that the apps are applied in is computed anew.
ComputeOrder ==
  /\ stage = "resort" \/ (stage = "sort" /\ cli = Default)
  /\ SortOver /\ ~Cyclic
  /\ BeginSort("order")

StartApplying ==
  /\ stage = "order" /\ SortOver /\ ~Cyclic
  /\ stage' = "apply"
  /\ UNCHANGED <<manifest, cli, apps, applied, sortVars>>

\* An app passes its checks and is reconciled to convergence, or not.
ApplyNext ==
  /\ stage = "apply"
  /\ Len(applied) < Len(order)
  /\ applied' = Append(applied, order[Len(applied) + 1])
  /\ UNCHANGED <<manifest, cli, apps, stage, sortVars>>

Abort ==
  /\ stage = "apply"
  /\ Len(applied) < Len(order)
  /\ stage' = "failed"
  /\ UNCHANGED <<manifest, cli, apps, applied, sortVars>>

Finish ==
  /\ stage = "apply"
  /\ Len(applied) = Len(order)
  /\ stage' = "done"
  /\ UNCHANGED <<manifest, cli, apps, applied, sortVars>>

Next ==
  \/ Validate \/ Sort \/ CycleFound \/ ShiftNamespace
  \/ ComputeOrder \/ StartApplying \/ ApplyNext \/ Abort \/ Finish

Spec == Init /\ [][Next]_vars

----------------------------------------------------------------------------
(* Properties *)

\* apply_order, "so producers come up before consumers": when an app is applied,
\* whatever it depends on has an app, in its namespace, that was applied before.
ConsumersLast ==
  \A i \in 1..Len(applied) : \A app \in {a \in Apps : key(a) = applied[i]} :
    \A s \in app.depends_on :
      \E j \in 1..(i - 1) : \E p \in Apps :
        key(p) = applied[j] /\ Publishes(p, app.namespace, s)

=============================================================================
