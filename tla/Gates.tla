-------------------------------- MODULE Gates --------------------------------
(***************************************************************************)
(* Deployments that depend on each other's services, each reconciled by its *)
(* own controller: Controller::evaluate_deps and the discovery step of      *)
(* Controller::tick (src/src/controller.rs), Gate::evaluate                 *)
(* (src/src/deps.rs), CeDriver::service_ready (src/src/driver.rs) and the   *)
(* provider records of the DHT between them.                                *)
(*                                                                          *)
(* Every deployment wants one replica and publishes one service, named as   *)
(* the deployment itself. What a tick does with several replicas is in      *)
(* Controller; how a stack of such deployments is put in order, in Stack.   *)
(***************************************************************************)
EXTENDS Naturals, FiniteSets

CONSTANTS
  App,        \* deployments
  depends_on, \* App -> the services it depends on
  healthy,    \* App -> those of them it wants healthy
  FaultPlans  \* [may, left]: what may go wrong, and how often

Fault == {"end",     \* a container ends
          "lookup",  \* locate() returns an error
          "expire",  \* a record is lost although it is advertised
          "gone"}    \* no host takes the app any more

VARIABLES
  replica,     \* App -> "none", "Pending", "Running" or "Failed"
  gone,        \* apps that no host takes
  record,      \* services with a provider record on the DHT
  advertised,  \* TickReport::service_advertised of each app's last tick
  faults,      \* what may still go wrong
  pc,          \* App -> "idle" or "resolve"
  seen,        \* App -> the phase that the tick's refresh has learned
  readiness    \* App -> what the tick has learned of its dependencies so far

world == <<replica, gone, record, faults>>
vars == <<world, advertised, pc, seen, readiness>>

Suffer(f) ==
  /\ f \in faults.may
  /\ faults.left > 0
  /\ faults' = [faults EXCEPT !.left = @ - 1]

NoReadiness == [s \in {} |-> "Absent"]

Init ==
  /\ replica = [a \in App |-> "none"]
  /\ gone = {}
  /\ record = {}
  /\ advertised = [a \in App |-> FALSE]
  /\ faults \in FaultPlans
  /\ pc = [a \in App |-> "idle"]
  /\ seen = [a \in App |-> "none"]
  /\ readiness = [a \in App |-> NoReadiness]

----------------------------------------------------------------------------
(* A tick of the controller of a: refresh, one lookup after the other, act. *)

Refresh(a) ==
  /\ pc[a] = "idle"
  /\ pc' = [pc EXCEPT ![a] = "resolve"]
  /\ seen' = [seen EXCEPT ![a] = replica[a]]
  /\ readiness' = [readiness EXCEPT ![a] = NoReadiness]
  /\ UNCHANGED <<world, advertised>>

\* A record of a provider that is alive: the orchestrator's own node is.
service_ready(s) == IF s \in record THEN "Healthy" ELSE "Absent"

\* unwrap_or: a lookup that fails finds nothing.
Lookup(a, s) ==
  /\ pc[a] = "resolve"
  /\ s \in depends_on[a] \ DOMAIN readiness[a]
  /\ \E observed \in {service_ready(s), "Absent"} :
       /\ IF observed = service_ready(s) THEN UNCHANGED faults
          ELSE Suffer("lookup")
       /\ readiness' = [readiness EXCEPT ![a] =
            [t \in DOMAIN @ \cup {s} |-> IF t = s THEN observed ELSE @[t]]]
  /\ UNCHANGED <<replica, gone, record, advertised, pc, seen>>

met(a, s) ==
  CASE readiness[a][s] = "Absent"      -> FALSE
    [] readiness[a][s] = "LivePresent" -> s \notin healthy[a]
    [] readiness[a][s] = "Healthy"     -> TRUE

unmet(a) == {s \in depends_on[a] : ~met(a, s)}

is_ready(a) == unmet(a) = {}

\* A slip: what has failed counts as a replica.
PlaceOnlyFirst(a) == seen[a] = "none"

\* The planner reaps what has ended and wants a replica in its place; the
\* placement is held while the gate is closed.
MustPlace(a) == seen[a] \in {"none", "Failed"}

\* A slip: the gate holds up the placements alone.
AdvertiseWhileWaiting(a) == seen[a] = "Running"

MayAdvertise(a) == seen[a] = "Running" /\ is_ready(a)

Act(a) ==
  /\ pc[a] = "resolve"
  /\ DOMAIN readiness[a] = depends_on[a]
  /\ pc' = [pc EXCEPT ![a] = "idle"]
  /\ replica' = [replica EXCEPT ![a] =
       IF ~MustPlace(a) THEN @
       ELSE IF is_ready(a) /\ a \notin gone THEN "Pending" ELSE "none"]
  /\ advertised' = [advertised EXCEPT ![a] = MayAdvertise(a)]
  /\ record' = IF MayAdvertise(a) THEN record \cup {a} ELSE record
  /\ UNCHANGED <<gone, faults, seen, readiness>>

Tick(a) == Refresh(a) \/ Act(a) \/ \E s \in App : Lookup(a, s)

----------------------------------------------------------------------------
(* The mesh *)

Starts(a) ==
  /\ replica[a] = "Pending"
  /\ replica' = [replica EXCEPT ![a] = "Running"]
  /\ UNCHANGED <<gone, record, faults, advertised, pc, seen, readiness>>

Ends(a) ==
  /\ replica[a] \in {"Pending", "Running"}
  /\ Suffer("end")
  /\ replica' = [replica EXCEPT ![a] = "Failed"]
  /\ UNCHANGED <<gone, record, advertised, pc, seen, readiness>>

\* The hosts that took a are off the mesh, and with them its replica.
Goes(a) ==
  /\ a \notin gone
  /\ Suffer("gone")
  /\ gone' = gone \cup {a}
  /\ replica' = [replica EXCEPT ![a] = IF @ = "none" THEN @ ELSE "Failed"]
  /\ UNCHANGED <<record, advertised, pc, seen, readiness>>

\* A record lives longer than the time between two ticks: it expires when the
\* last tick has not advertised it again, or by a fault.
Expires(a) ==
  /\ a \in record
  /\ record' = record \ {a}
  /\ UNCHANGED <<replica, gone, advertised, pc, seen, readiness>>

ExpiresInTime(a) == ~advertised[a] /\ Expires(a) /\ UNCHANGED faults
ExpiresEarly(a) == advertised[a] /\ Expires(a) /\ Suffer("expire")

Next ==
  \E a \in App :
    \/ Tick(a) \/ Starts(a) \/ Ends(a) \/ Goes(a)
    \/ ExpiresInTime(a) \/ ExpiresEarly(a)

Spec == Init /\ [][Next]_vars

\* The daemon ticks every deployment again and again (run_daemon); hosts start
\* what they accepted, and the DHT drops what is not advertised again.
FairSpec ==
  /\ Spec
  /\ \A a \in App : WF_vars(Tick(a)) /\ WF_vars(Starts(a)) /\ WF_vars(ExpiresInTime(a))

----------------------------------------------------------------------------
(* Properties *)

\* The least set that has S and all that its members depend on.
Upstream(S) ==
  {b \in App :
     \A T \in SUBSET App : S \subseteq T /\ (\A a \in T : depends_on[a] \subseteq T) => b \in T}

\* "The next tick retries" (Controller::tick): once nothing fails any more,
\* every app that does not depend on one that is gone runs and is on the DHT.
AllUp ==
  <>[](\A a \in App :
         Upstream({a}) \cap gone = {} => replica[a] = "Running" /\ a \in record)

\* "Do not advertise a service whose own dependencies are unmet"
\* (Controller::tick): when a producer is gone for good, the services of all
\* that depend on it, however remotely, leave the DHT, though their replicas run.
OutageSpreads ==
  \A a, p \in App : p \in Upstream({a}) /\ p \in gone ~> [](a \notin record)

\* Deployments that wait for each other's services are accepted one by one
\* (apply_one in main.rs looks at a single manifest): each depends on another one of W.
Circular(W) == \A a \in W : depends_on[a] \cap W # {}

\* Such deployments never come up, whatever the others do and whatever fails: the
\* gate of none of them ever opens (Gate::evaluate).
CircleStaysDown ==
  \A W \in SUBSET App : Circular(W) => \A a \in W : replica[a] = "none" /\ a \notin record

=============================================================================
