-------------------------------- MODULE Probe --------------------------------
(***************************************************************************)
(* How a controller learns the phases of its replicas: the refresh of       *)
(* src/src/controller.rs asks CeDriver::phase (src/src/driver.rs), which    *)
(* sends a request to the host agent `ce-gke serve` (serve_cmd of           *)
(* src/src/main.rs, src/src/serve.rs, src/src/protocol.rs) and falls back   *)
(* to the payer's record of the job when no answer comes in time.           *)
(*                                                                          *)
(* All jobs are on one host. A request carries a job and a grant; of the    *)
(* grant it matters whether the host honors it: never, always, or only when *)
(* it knows its own tags (a grant for hosts with some tag). The node keeps  *)
(* replies apart by token: a reply to a request that has timed out is lost. *)
(***************************************************************************)
EXTENDS Naturals, FiniteSets

CONSTANTS
  Job,               \* the jobs of a deployment
  Grant,             \* the grant of the deployment: "none" or one of Grants
  require_grant,     \* serve --require-grant
  failure_threshold, \* Controller::failure_threshold
  FaultPlans         \* [may, left]: what may go wrong, and how often

Grants == {"none", "valid", "tagged", "expired"}

Fault == {"agent",   \* the agent stops, with the requests it has fetched
          "late",    \* an answer takes longer than probe_timeout_ms
          "garbled", \* a reply cannot be decoded
          "local",   \* the orchestrator's own node does not answer job()
          "jobs",    \* the host's node does not answer jobs()
          "atlas"}   \* the host's node does not answer atlas()

VARIABLES
  status,   \* the host's job table
  payer,    \* the payer's record of the jobs, which lags behind
  agent,    \* whether the agent runs
  mail,     \* requests the host's node keeps for messages(): [job, late]
  batch,    \* requests the agent has fetched and not yet answered
  faults,   \* what may still go wrong
  pc,       \* the driver: "idle", "waiting" or "fallback"
  job,      \* the job the driver asks for
  reply,    \* the reply that has come in, or NoReply
  todo,     \* jobs that this refresh has still to ask for
  updates,  \* what it has learned: job -> a phase, or "miss"
  phase,    \* the phases of the tracked replicas
  refresh_failures

hostVars == <<status, payer>>
agentVars == <<agent, mail, batch>>
driverVars == <<pc, job, reply, todo, updates, phase, refresh_failures>>
vars == <<hostVars, agentVars, driverVars, faults>>

Over == {"awaiting_settlement", "settled", "failed"}
Status == {"pending", "running"} \cup Over

\* A slip: a job that waits for its settlement still counts.
until_settled(s) ==
  CASE s = "pending" -> "Pending"
    [] s \in {"running", "awaiting_settlement"} -> "Running"
    [] s = "settled" -> "Succeeded"
    [] OTHER -> "Failed"

\* Phase::from_job_status.
from_job_status(s) ==
  CASE s = "pending" -> "Pending"
    [] s = "running" -> "Running"
    [] s \in {"settled", "awaiting_settlement"} -> "Succeeded"
    [] OTHER -> "Failed"

\* A ProbeReply: the phase and whether a probe has passed.
Reply(p, passed) == [phase |-> p, probe_passed |-> passed]
failed == Reply("Failed", "false")
NoReply == Reply("none", "none")

Suffer(f) ==
  /\ f \in faults.may
  /\ faults.left > 0
  /\ faults' = [faults EXCEPT !.left = @ - 1]

Init ==
  /\ faults \in FaultPlans
  /\ status = [j \in Job |-> "pending"]
  /\ payer = status
  /\ agent = TRUE
  /\ mail = {}
  /\ batch = {}
  /\ pc = "idle"
  /\ job \in Job
  /\ reply = NoReply
  /\ todo = Job
  /\ updates = [j \in {} |-> "miss"]
  /\ phase = [j \in Job |-> "Pending"]
  /\ refresh_failures = [j \in Job |-> 0]

----------------------------------------------------------------------------
(* CeDriver::phase, called by Controller::refresh for one job after the     *)
(* other. A replica that was given up is asked for again only if its kill   *)
(* has failed; here it always is.                                           *)

Ask ==
  /\ pc = "idle"
  /\ job' \in todo
  /\ todo' = todo \ {job'}
  /\ mail' = mail \cup {[job |-> job', late |-> FALSE]}
  /\ reply' = NoReply
  /\ pc' = "waiting"
  /\ UNCHANGED <<hostVars, agent, batch, faults, updates, phase, refresh_failures>>

Learn(what) ==
  /\ updates' = [j \in DOMAIN updates \cup {job} |-> IF j = job THEN what ELSE updates[j]]
  /\ pc' = "idle"
  /\ UNCHANGED <<hostVars, job, reply, todo, phase, refresh_failures>>

effective_phase(r) == IF r.probe_passed = "false" THEN "Failed" ELSE r.phase

Receive ==
  /\ pc = "waiting"
  /\ reply # NoReply
  /\ Learn(effective_phase(reply))
  /\ UNCHANGED <<agentVars, faults>>

\* The request ends without a usable reply: the time-out, which comes for sure
\* when the agent is down or has lost the request, or a reply that cannot be
\* decoded. A later answer to the request finds nobody.
LateNow(msgs) == {[m EXCEPT !.late = TRUE] : m \in msgs}
Lost == ~agent \/ [job |-> job, late |-> FALSE] \notin mail \cup batch

\* A slip: a host that does not answer is taken for dead.
FailOnTimeout ==
  /\ pc = "waiting"
  /\ \/ reply = NoReply /\ Lost /\ UNCHANGED faults
     \/ reply = NoReply /\ ~Lost /\ Suffer("late")
     \/ reply # NoReply /\ Suffer("garbled")
  /\ Learn("Failed")
  /\ mail' = LateNow(mail)
  /\ batch' = LateNow(batch)
  /\ UNCHANGED agent

NoAnswer ==
  /\ pc = "waiting"
  /\ \/ reply = NoReply /\ Lost /\ UNCHANGED faults
     \/ reply = NoReply /\ ~Lost /\ Suffer("late")
     \/ reply # NoReply /\ Suffer("garbled")
  /\ pc' = "fallback"
  /\ mail' = LateNow(mail)
  /\ batch' = LateNow(batch)
  /\ UNCHANGED <<hostVars, agent, job, reply, todo, updates, phase,
                 refresh_failures>>

\* The payer's record, or an error.
Fallback ==
  /\ pc = "fallback"
  /\ \/ Learn(from_job_status(payer[job])) /\ UNCHANGED faults
     \/ Learn("miss") /\ Suffer("local")
  /\ UNCHANGED agentVars

\* The updates of refresh, all at once: a phase, or one more failure in a row.
Threshold == IF failure_threshold > 1 THEN failure_threshold ELSE 1

\* Counters beyond the threshold make no difference.
Misses(j) ==
  IF updates[j] # "miss" THEN 0
  ELSE IF refresh_failures[j] < Threshold THEN refresh_failures[j] + 1
  ELSE Threshold

Apply ==
  /\ pc = "idle"
  /\ todo = {}
  /\ todo' = Job
  /\ updates' = [j \in {} |-> "miss"]
  /\ refresh_failures' = [j \in Job |-> Misses(j)]
  /\ phase' = [j \in Job |->
       IF updates[j] # "miss" THEN updates[j]
       ELSE IF Misses(j) >= Threshold THEN "Failed" ELSE phase[j]]
  /\ UNCHANGED <<hostVars, agentVars, faults, pc, job, reply>>

Driver == Ask \/ Receive \/ NoAnswer \/ Fallback \/ Apply

----------------------------------------------------------------------------
(* serve_cmd and handle_probe *)

Fetch ==
  /\ agent
  /\ batch = {}
  /\ mail # {}
  /\ batch' = mail
  /\ mail' = {}
  /\ UNCHANGED <<hostVars, agent, driverVars, faults>>

\* ce-cap's verdict on the grant; tags is whether the host knows its own.
authorized(tags) ==
  CASE Grant = "none"    -> ~require_grant
    [] Grant = "valid"   -> TRUE
    [] Grant = "tagged"  -> tags
    [] Grant = "expired" -> FALSE

\* jobs is whether the job table could be fetched; if not, it is empty, and no
\* job is known. An agent runs no probe command of its own.
handle_probe(j, jobs, tags) ==
  IF ~authorized(tags) THEN failed
  ELSE Reply(IF jobs THEN from_job_status(status[j]) ELSE "Failed", "none")

Calls(jobs, tags) ==
  \/ jobs /\ tags /\ UNCHANGED faults
  \/ ~jobs /\ tags /\ Suffer("jobs")
  \/ jobs /\ ~tags /\ Suffer("atlas")

Answer(m) ==
  /\ agent
  /\ m \in batch
  /\ batch' = batch \ {m}
  /\ \E jobs, tags \in BOOLEAN :
       /\ Calls(jobs, tags)
       /\ reply' = IF m.late THEN reply ELSE handle_probe(m.job, jobs, tags)
  /\ UNCHANGED <<hostVars, agent, mail, pc, job, todo, updates, phase,
                 refresh_failures>>

AgentStops ==
  /\ agent
  /\ Suffer("agent")
  /\ agent' = FALSE
  /\ batch' = {}
  /\ UNCHANGED <<hostVars, mail, driverVars>>

AgentStarts ==
  /\ ~agent
  /\ agent' = TRUE
  /\ UNCHANGED <<hostVars, mail, batch, driverVars, faults>>

Serve == Fetch \/ \E m \in batch : Answer(m)

----------------------------------------------------------------------------
(* The host, and the payer's record of it *)

Moves(j) ==
  \/ status[j] = "pending" /\ status' = [status EXCEPT ![j] = "running"]
  \/ status[j] = "running" /\ status' = [status EXCEPT ![j] = "awaiting_settlement"]
  \/ status[j] \in {"pending", "running"} /\ status' = [status EXCEPT ![j] = "failed"]
  \/ status[j] = "awaiting_settlement" /\ status' = [status EXCEPT ![j] = "settled"]

JobMoves(j) ==
  /\ Moves(j)
  /\ UNCHANGED <<payer, agentVars, driverVars, faults>>

PayerLearns(j) ==
  /\ payer[j] # status[j]
  /\ payer' = [payer EXCEPT ![j] = status[j]]
  /\ UNCHANGED <<status, agentVars, driverVars, faults>>

Next ==
  \/ Driver \/ Serve \/ AgentStops \/ AgentStarts
  \/ \E j \in Job : JobMoves(j) \/ PayerLearns(j)

Spec == Init /\ [][Next]_vars

\* The daemon refreshes again and again, requests end by their time-out, the
\* agent polls while it runs, and settlement tells the payer in the end. That
\* an agent that has stopped is started again is not assumed.
FairSpec ==
  /\ Spec
  /\ WF_vars(Driver)
  /\ WF_vars(Serve)
  /\ \A j \in Job : WF_vars(PayerLearns(j))

----------------------------------------------------------------------------
(* Properties *)

\* The agent can learn what it answers.
AgentInformed == faults.may \cap {"jobs", "atlas"} = {}

\* "A single transient local-API blip must not mark the whole fleet failed"
\* (controller.rs): a replica that is not over is given up only after
\* failure_threshold failures in a row.
GivenUpRightly ==
  [][AgentInformed =>
       \A j \in Job :
         phase[j] # "Failed" /\ phase'[j] = "Failed"
           => status[j] \in Over \/ refresh_failures'[j] >= Threshold]_vars

\* Self-healing starts with noticing: a job that is over is seen to be over,
\* with or without an agent, whatever fails, and stays so.
EndIsNoticed ==
  \A j \in Job : status[j] \in Over ~> [](phase[j] \in {"Failed", "Succeeded"})

=============================================================================
