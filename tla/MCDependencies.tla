--------------------------- MODULE MCDependencies ---------------------------
(***************************************************************************)
(* Dependencies between deployments: the sort alone (TopoSort), a stack that *)
(* is checked, sorted and applied (Stack), and the gates that hold back what *)
(* waits for a producer (Gates). A behaviour is about one of them.           *)
(***************************************************************************)
EXTENDS Stack, TLC

CONSTANTS db, cache, web, App, depends_on, healthy, FaultPlans

VARIABLES
  about,  \* what a behaviour is about
  replica, gone, record, advertised, faults, pc, seen, readiness

G == INSTANCE Gates

gateVars == <<replica, gone, record, advertised, faults, pc, seen, readiness>>
all == <<about, vars, gateVars>>

\* The part that a behaviour is not about has one initial state.
StackIdle ==
  /\ manifest = <<>> /\ cli = Default /\ apps = <<>>
  /\ stage = "idle" /\ applied = <<>>
GatesIdle == G!Init /\ faults.left = 1

MCInit ==
  \/ about = "sort" /\ SortInit /\ StackIdle /\ GatesIdle
  \/ about = "stack" /\ Init /\ GatesIdle
  \/ about = "gates" /\ G!Init /\ Begun(<<>>, deps, indegree, ready, order) /\ StackIdle

GateStep(A) == about = "gates" /\ A /\ UNCHANGED <<about, vars>>

MCNext ==
  \/ about = "sort" /\ SortNext /\ UNCHANGED <<about, stackVars, gateVars>>
  \/ about = "stack" /\ Next /\ UNCHANGED <<about, gateVars>>
  \/ GateStep(G!Next)

\* The fairness of Gates: every deployment is ticked again and again, hosts start
\* what they accepted, and the DHT drops what is not advertised again.
MCSpec ==
  /\ MCInit /\ [][MCNext]_all
  /\ \A a \in App : /\ WF_all(GateStep(G!Tick(a)))
                    /\ WF_all(GateStep(G!Starts(a)))
                    /\ WF_all(GateStep(G!ExpiresInTime(a)))

----------------------------------------------------------------------------
(* The sort: every map from some of three keys, loops and all, and every graph *)
(* without loops over four. Keys are those of the apps below, in the order of  *)
(* the strings "default/a", "default/b", ...                                   *)

Namespaces == {"default", "ops", "team"}
Keys == Namespaces \X {"a", "b", "c"}
KeyRank ==
  [k \in Keys |->
     3 * (CASE k[1] = "default" -> 0 [] k[1] = "ops" -> 1 [] k[1] = "team" -> 2)
       + (CASE k[2] = "a" -> 0 [] k[2] = "b" -> 1 [] k[2] = "c" -> 2)]

Three == {"default"} \X {"a", "b", "c"}
Four == Three \cup {<<"ops", "a">>}
SmallGraphs ==
  UNION {[D -> SUBSET Three] : D \in SUBSET Three}
    \cup {g \in [Four -> SUBSET Four] : \A n \in Four : n \notin g[n]}

(* Stacks: three apps, of one namespace or of two, and two apps that may have *)
(* one name.                                                                  *)

AppOf(name, ns, service, needs) ==
  [name |-> name, namespace |-> ns, service |-> service, depends_on |-> needs]

AppsNamed(name, nss) ==
  {AppOf(name, ns, s, d) : ns \in nss, s \in {"none", "x", "y"}, d \in SUBSET {"x", "y"}}

Texts(nss) ==
  AppsNamed("a", {"unset"}) \X AppsNamed("b", nss) \X AppsNamed("c", {"unset"})
    \cup AppsNamed("a", nss) \X (AppsNamed("a", nss) \cup AppsNamed("b", nss))
    \cup {<<>>}

SmallFiles == [apps : Texts({"unset", "team"}), namespace : {"unset", "team"}]

(* Gates: web depends on both others, cache on db: a chain and a short cut. *)

Chain == db :> {} @@ cache :> {db} @@ web :> {db, cache}
WebIsStrict == db :> {} @@ cache :> {} @@ web :> {db}

\* One failure of any kind; or lookups that fail and records that are lost.
Plans == {[may |-> {"end", "lookup", "expire", "gone"}, left |-> 1],
          [may |-> {"lookup", "expire"}, left |-> 2]}

\* "The next tick retries" (Controller::tick).
AllUp == about = "gates" => G!AllUp

\* "Do not advertise a service whose own dependencies are unmet"
\* (Controller::tick).
OutageSpreads == G!OutageSpreads

=============================================================================
