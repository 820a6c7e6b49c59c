---------------------------- MODULE UpkeepProofs ----------------------------
(***************************************************************************)
(* Proofs about what keeps deployments alive (MCUpkeep), for any number of  *)
(* deployments, jobs and faults.                                            *)
(*                                                                          *)
(* The daemon (Daemon): during a pass the lock is its own, and the store in *)
(* memory tracks every container that runs; between passes the state file   *)
(* does.                                                                    *)
(*                                                                          *)
(* The probes (Probe): what a controller may find in an answer, and what it *)
(* has learned, is about a job that is over whenever it is "Failed".        *)
(***************************************************************************)
EXTENDS MCUpkeep, TLAPS

Replicas == UNION {[S -> {"Running", "Failed"}] : S \in SUBSET JobId}
Deployments == [Key -> [count : Count, replicas : Replicas]]

DaemonTyped ==
  /\ disk \in Deployments /\ mem \in Deployments
  /\ todo \subseteq Filter
  /\ pc \in {"check", "acquire", "pass", "sleep", "stopped", "failed"}

\* In a pass, and at no other time, the lock is the daemon's.
PassHasLock == pc = "pass" <=> lock = "daemon"

\* What runs is tracked by the store that is in force.
RunsTracked ==
  /\ pc \in {"check", "acquire", "sleep", "stopped"} => runs \subseteq D!Tracked(disk)
  /\ pc = "pass" => runs \subseteq D!Tracked(mem)

DaemonInv == DaemonTyped /\ PassHasLock /\ RunsTracked

\* Nothing runs at first.
LEMMA DaemonInit == D!Init => DaemonInv
<1> SUFFICES ASSUME D!Init PROVE DaemonInv
  OBVIOUS
<1>1. [j \in {} |-> "Running"] \in Replicas
  <2>1. [j \in {} |-> "Running"] \in [{} -> {"Running", "Failed"}]
    OBVIOUS
  <2> QED
    BY <2>1 DEF Replicas
<1>2. disk \in Deployments /\ mem = disk
  BY <1>1 DEF D!Init, Deployments
<1> QED
  BY <1>2 DEF D!Init, DaemonInv, DaemonTyped, PassHasLock, RunsTracked

\* A tick tracks what it starts.
LEMMA TickStep ==
  ASSUME DaemonInv, NEW k \in Filter, D!Tick(k)
  PROVE  DaemonInv'
<1>1. /\ pc = "pass" /\ pc' = pc /\ lock' = lock /\ disk' = disk /\ todo' = todo \ {k}
      /\ k \in Key /\ runs \subseteq D!Tracked(mem) /\ mem \in Deployments
  BY DaemonAssumption DEF D!Tick, DaemonInv, DaemonTyped, RunsTracked
<1> DEFINE reps == D!Refreshed(mem[k].replicas)
           live == D!Live(reps)
<1>2. /\ DOMAIN reps = DOMAIN mem[k].replicas
      /\ \A j \in DOMAIN reps : reps[j] \in {"Running", "Failed"}
  <2>1. PICK S \in SUBSET JobId : mem[k].replicas \in [S -> {"Running", "Failed"}]
    BY <1>1 DEF Deployments, Replicas
  <2> QED
    BY <2>1 DEF D!Refreshed
<1>3. PICK victims \in SUBSET live, placed \in SUBSET D!Free :
        LET gone == (victims \cup (DOMAIN reps \ live)) \ silent
            kept == DOMAIN reps \ gone
        IN  /\ runs' = (runs \ gone) \cup placed
            /\ mem' = [mem EXCEPT ![k].replicas =
                 [j \in kept \cup placed |-> IF j \in placed THEN "Running" ELSE reps[j]]]
  BY DEF D!Tick
<1> DEFINE gone == (victims \cup (DOMAIN reps \ live)) \ silent
           kept == DOMAIN reps \ gone
           r == [j \in kept \cup placed |-> IF j \in placed THEN "Running" ELSE reps[j]]
<1>4. /\ kept \subseteq DOMAIN mem[k].replicas /\ gone \cap kept = {}
      /\ DOMAIN mem[k].replicas \subseteq kept \cup gone
      /\ placed \in SUBSET JobId /\ r \in [kept \cup placed -> {"Running", "Failed"}]
  BY <1>2 DEF D!Free
<1>5. runs' = (runs \ gone) \cup placed /\ mem' = [mem EXCEPT ![k].replicas = r]
  BY <1>3
<1> HIDE DEF r, gone, kept, reps, live
<1>6. /\ mem' \in Deployments
      /\ mem'[k].replicas = r
      /\ \A q \in Key \ {k} : mem'[q] = mem[q]
  <2> DEFINE c == [mem[k] EXCEPT !.replicas = r]
  <2>1. mem[k] \in [count : Count, replicas : Replicas]
    BY <1>1 DEF Deployments
  <2>2. kept \cup placed \in SUBSET JobId
    <3>1. PICK S \in SUBSET JobId : mem[k].replicas \in [S -> {"Running", "Failed"}]
      BY <2>1 DEF Replicas
    <3>2. DOMAIN mem[k].replicas = S
      BY <3>1
    <3> QED
      BY <1>4, <3>2
  <2>3. r \in Replicas
    BY <1>4, <2>2 DEF Replicas
  <2>4. c \in [count : Count, replicas : Replicas] /\ c.replicas = r
    BY <2>1, <2>3
  <2>5. mem' = [mem EXCEPT ![k] = c]
    BY <1>5
  <2> HIDE DEF c
  <2> QED
    BY <1>1, <2>4, <2>5 DEF Deployments
<1>7. runs' \subseteq D!Tracked(mem')
  <2> SUFFICES ASSUME NEW j \in runs' PROVE \E q \in Key : j \in DOMAIN mem'[q].replicas
    BY DEF D!Tracked
  <2>0. DOMAIN mem'[k].replicas = kept \cup placed
    BY <1>4, <1>6
  <2>1. CASE j \in placed
    BY <1>1, <2>0, <2>1
  <2>2. CASE j \notin placed
    <3>1. j \in runs /\ j \notin gone
      BY <1>5, <2>2
    <3>2. PICK q \in Key : j \in DOMAIN mem[q].replicas
      BY <1>1, <3>1 DEF D!Tracked
    <3> QED
      BY <1>4, <1>6, <2>0, <3>1, <3>2
  <2> QED
    BY <2>1, <2>2
<1>8. D!Tracked(mem)' = D!Tracked(mem')
  BY DEF D!Tracked
<1> QED
  BY <1>1, <1>6, <1>7, <1>8 DEF DaemonInv, DaemonTyped, PassHasLock, RunsTracked

\* A command changes a count, and no replicas.
LEMMA CommandStep ==
  ASSUME DaemonInv, D!CommandEnds
  PROVE  DaemonInv'
<1>1. PICK k \in Key, n \in Count : disk' = [disk EXCEPT ![k].count = n]
  BY DEF D!CommandEnds
<1>2. /\ lock = "command" /\ lock' = "free" /\ disk \in Deployments
      /\ UNCHANGED <<runs, pc, mem, todo>> /\ pc # "pass"
  BY DEF D!CommandEnds, D!daemonVars, DaemonInv, DaemonTyped, PassHasLock
<1>3. \A q \in Key : disk[q] \in [count : Count, replicas : Replicas]
  BY <1>2 DEF Deployments
<1>4. disk' = [disk EXCEPT ![k] = [disk[k] EXCEPT !.count = n]]
  BY <1>1
<1>5. /\ [disk[k] EXCEPT !.count = n] \in [count : Count, replicas : Replicas]
      /\ [disk[k] EXCEPT !.count = n].replicas = disk[k].replicas
  BY <1>3
<1>6. disk' \in Deployments /\ \A q \in Key : disk'[q].replicas = disk[q].replicas
  BY <1>2, <1>4, <1>5 DEF Deployments
<1>7. D!Tracked(disk)' = D!Tracked(disk)
  BY <1>6 DEF D!Tracked
<1> QED
  BY <1>2, <1>6, <1>7 DEF DaemonInv, DaemonTyped, PassHasLock, RunsTracked

\* Every step keeps the invariant of the daemon.
LEMMA DaemonNext == DaemonInv /\ [D!Next]_(D!vars) => DaemonInv'
<1> SUFFICES ASSUME DaemonInv, [D!Next]_(D!vars) PROVE DaemonInv'
  OBVIOUS
<1> USE DEF DaemonInv, DaemonTyped, PassHasLock, RunsTracked
<1>1. CASE D!Check
  BY <1>1 DEF D!Check, D!Tracked
<1>2. CASE D!Acquire
  BY <1>2 DEF D!Acquire, D!Tracked
<1>3. CASE D!Attempt
  BY <1>3 DEF D!Attempt, D!Tracked
<1>4. ASSUME NEW k \in Filter, D!Tick(k) PROVE DaemonInv'
  BY <1>4, TickStep
<1>5. CASE D!SavePass
  BY <1>5 DEF D!SavePass, D!Tracked
<1>6. CASE D!SaveFails
  BY <1>6 DEF D!SaveFails, D!Tracked
<1>7. CASE D!Wake
  BY <1>7 DEF D!Wake, D!Tracked
<1>8. CASE D!Signal
  BY <1>8 DEF D!Signal, D!daemonVars, D!Tracked
<1>9. CASE D!CommandLocks
  BY <1>9 DEF D!CommandLocks, D!daemonVars, D!Tracked
<1>10. CASE D!CommandEnds
  BY <1>10, CommandStep
<1>11. ASSUME NEW j \in JobId, D!ContainerEnds(j) PROVE DaemonInv'
  BY <1>11 DEF D!ContainerEnds, D!daemonVars, D!Tracked
<1>12. ASSUME NEW j \in JobId, D!HostFallsSilent(j) PROVE DaemonInv'
  BY <1>12 DEF D!HostFallsSilent, D!daemonVars, D!Tracked
<1>13. CASE UNCHANGED D!vars
  BY <1>13 DEF D!vars, D!daemonVars, D!Tracked
<1> QED
  BY <1>1, <1>2, <1>3, <1>4, <1>5, <1>6, <1>7, <1>8, <1>9, <1>10, <1>11, <1>12, <1>13
     DEF D!Next, D!Step

\* "A clean stop" (run_daemon): between two passes, and when it has stopped, no
\* container runs that the state file does not track, whatever failed or ended, and
\* however commands came between.
THEOREM StopTheorem == D!Spec => []NothingLostOnStop
<1>1. DaemonInv => NothingLostOnStop
  BY DEF DaemonInv, RunsTracked, NothingLostOnStop, D!NothingLostOnStop
<1> QED
  BY DaemonInit, DaemonNext, <1>1, PTL DEF D!Spec

----------------------------------------------------------------------------
(* The probes *)

Requests == [job : Job, late : BOOLEAN]
Replies == [phase : {"Pending", "Running", "Succeeded", "Failed", "none"},
            probe_passed : {"none", "false"}]

ProbeTyped ==
  /\ mishaps \in [may : SUBSET P!Fault, left : Nat]
  /\ status \in [Job -> P!Status] /\ payer \in [Job -> P!Status]
  /\ mail \subseteq Requests /\ batch \subseteq Requests
  /\ driver \in {"idle", "waiting", "fallback"} /\ job \in Job /\ toAsk \subseteq Job
  /\ reply \in Replies /\ DOMAIN updates \subseteq Job

\* The payer's record lags behind, and nothing comes back from its end.
PayerLags == \A j \in Job : payer[j] \in P!Over => status[j] \in P!Over

\* A refresh has learned of every job that it has asked for.
Learned ==
  \A j \in Job \ toAsk : j \in DOMAIN updates \/ (driver # "idle" /\ j = job)

\* The one request that may still be answered is about the job that the driver
\* waits for, is in one place, and has not been answered yet.
OneFresh ==
  /\ \A m \in mail \cup batch :
       ~m.late => driver = "waiting" /\ m.job = job /\ reply = P!NoReply
  /\ \A m \in mail \cap batch : m.late

\* A job that an answer, or what was learned, makes "Failed" is over.
FailedIsOver ==
  /\ driver = "waiting" /\ P!effective_phase(reply) = "Failed" => status[job] \in P!Over
  /\ \A j \in DOMAIN updates : updates[j] = "Failed" => status[j] \in P!Over

ProbeInv ==
  ProbeTyped /\ PayerLags /\ Learned /\ OneFresh /\ (P!AgentInformed => FailedIsOver)

\* What may go wrong is decided at the start.
LEMMA InformedStays ==
  ASSUME ProbeTyped, [P!Next]_(P!vars)
  PROVE  /\ mishaps' \in [may : SUBSET P!Fault, left : Nat]
         /\ P!AgentInformed' = P!AgentInformed
<1>1. ASSUME NEW f, P!Suffer(f) PROVE mishaps' \in [may : SUBSET P!Fault, left : Nat]
                                      /\ mishaps'.may = mishaps.may
  <2>1. mishaps.left \in Nat /\ mishaps.left > 0
    BY <1>1 DEF P!Suffer, ProbeTyped
  <2>2. mishaps.left - 1 \in Nat
    BY <2>1
  <2> QED
    BY <1>1, <2>2 DEF P!Suffer, ProbeTyped
<1>2. UNCHANGED mishaps \/ \E f : P!Suffer(f)
  BY DEF P!Next, P!Driver, P!Serve, P!Ask, P!Receive, P!Learn, P!NoAnswer, P!Fallback,
         P!Apply, P!Fetch, P!Answer, P!Calls, P!AgentStops, P!AgentStarts, P!JobMoves,
         P!PayerLearns, P!vars
<1> QED
  BY <1>1, <1>2 DEF P!AgentInformed, ProbeTyped

\* A job that is over stays so.
LEMMA OverStays ==
  ASSUME ProbeTyped, NEW j \in Job, P!Moves(j)
  PROVE  /\ status' \in [Job -> P!Status]
         /\ \A i \in Job : status[i] \in P!Over => status'[i] \in P!Over
BY DEF ProbeTyped, P!Moves, P!Status, P!Over

\* from_job_status makes "Failed" only of a job that is over.
LEMMA FailedStatus ==
  ASSUME NEW s \in P!Status
  PROVE  /\ P!from_job_status(s) \in {"Pending", "Running", "Succeeded", "Failed"}
         /\ P!from_job_status(s) = "Failed" => s \in P!Over
BY DEF P!Status, P!Over, P!from_job_status

\* Nothing has been asked at first.
LEMMA ProbeInit == P!Init => ProbeInv
<1> SUFFICES ASSUME P!Init PROVE ProbeInv
  OBVIOUS
<1>1. ProbeTyped
  BY ProbeAssumption DEF P!Init, ProbeTyped, P!Status, P!NoReply, P!Reply, Replies
<1>2. status = [j \in Job |-> "pending"] /\ payer = status /\ "pending" \notin P!Over
  BY DEF P!Init, P!Over
<1>3. P!effective_phase(reply) # "Failed"
  BY DEF P!Init, P!effective_phase, P!NoReply, P!Reply
<1> QED
  BY <1>1, <1>2, <1>3
     DEF P!Init, ProbeInv, PayerLags, Learned, OneFresh, FailedIsOver

\* The host and the payer's record move; the driver and the agent do not.
LEMMA HostMoves ==
  ASSUME ProbeInv, NEW j \in Job, P!JobMoves(j) \/ P!PayerLearns(j)
  PROVE  ProbeInv'
<1>1. /\ UNCHANGED <<agent, mail, batch, driver, job, reply, toAsk, updates, phase,
                     refresh_failures, mishaps>>
      /\ ProbeTyped /\ PayerLags /\ Learned /\ OneFresh
  BY DEF P!JobMoves, P!PayerLearns, P!agentVars, P!driverVars, ProbeInv
<1>2. /\ status' \in [Job -> P!Status] /\ payer' \in [Job -> P!Status]
      /\ \A i \in Job : status[i] \in P!Over => status'[i] \in P!Over
      /\ PayerLags'
  <2>1. CASE P!JobMoves(j)
    BY <1>1, <2>1, OverStays DEF P!JobMoves, ProbeTyped, PayerLags
  <2>2. CASE P!PayerLearns(j)
    BY <1>1, <2>2 DEF P!PayerLearns, ProbeTyped, PayerLags
  <2> QED
    BY <2>1, <2>2
<1>3. ProbeTyped'
  BY <1>1, <1>2 DEF ProbeTyped
<1>4. Learned' /\ OneFresh'
  BY <1>1 DEF Learned, OneFresh
<1>5. ASSUME P!AgentInformed' PROVE FailedIsOver'
  <2>1. FailedIsOver
    BY <1>1, <1>5 DEF ProbeInv, P!AgentInformed
  <2>2. P!effective_phase(reply)' = P!effective_phase(reply)
    BY <1>1 DEF P!effective_phase
  <2>3. DOMAIN updates \subseteq Job
    BY <1>1 DEF ProbeTyped
  <2> QED
    BY <1>1, <1>2, <2>1, <2>2, <2>3 DEF FailedIsOver, ProbeTyped
<1> QED
  BY <1>2, <1>3, <1>4, <1>5 DEF ProbeInv

\* One lemma for each step of the driver: asking, ...
LEMMA AskStep ==
  ASSUME ProbeInv, P!Ask
  PROVE  ProbeInv'
<1>1. /\ driver = "idle" /\ job' \in toAsk /\ toAsk' = toAsk \ {job'}
      /\ mail' = mail \cup {[job |-> job', late |-> FALSE]}
      /\ reply' = P!NoReply /\ driver' = "waiting"
      /\ UNCHANGED <<status, payer, batch, mishaps, updates>>
  BY DEF P!Ask, P!hostVars
<1>2. \A m \in mail \cup batch : m.late
  BY <1>1 DEF ProbeInv, OneFresh
<1>3. ProbeTyped'
  <2>1. [job |-> job', late |-> FALSE] \in Requests
    BY <1>1 DEF ProbeInv, ProbeTyped, Requests
  <2> QED
    BY <1>1, <2>1 DEF ProbeInv, ProbeTyped, P!NoReply, P!Reply, Replies
<1>4. PayerLags' /\ Learned'
  BY <1>1 DEF ProbeInv, PayerLags, Learned
<1>5. OneFresh'
  BY <1>1, <1>2 DEF OneFresh
<1>6. P!AgentInformed' => FailedIsOver'
  BY <1>1 DEF ProbeInv, FailedIsOver, P!AgentInformed, P!effective_phase, P!NoReply, P!Reply
<1> QED
  BY <1>3, <1>4, <1>5, <1>6 DEF ProbeInv

\* What the driver learns of a job ends its request.
LEMMA LearnStep ==
  ASSUME ProbeInv, NEW what, P!Learn(what), UNCHANGED <<mail, batch>>,
         driver # "waiting" \/ reply # P!NoReply,
         P!AgentInformed /\ what = "Failed" => status[job] \in P!Over,
         [P!Next]_(P!vars)
  PROVE  ProbeInv'
<1>1. /\ updates' = [j \in DOMAIN updates \cup {job} |-> IF j = job THEN what ELSE updates[j]]
      /\ driver' = "idle" /\ UNCHANGED <<status, payer, job, reply, toAsk>>
  BY DEF P!Learn, P!hostVars
<1>2. /\ mishaps' \in [may : SUBSET P!Fault, left : Nat]
      /\ P!AgentInformed' = P!AgentInformed
  BY InformedStays DEF ProbeInv
<1>3. ProbeTyped' /\ PayerLags'
  BY <1>1, <1>2 DEF ProbeInv, ProbeTyped, PayerLags
<1>4. Learned'
  BY <1>1 DEF ProbeInv, Learned
<1>5. OneFresh'
  BY <1>1 DEF ProbeInv, OneFresh
<1>6. P!AgentInformed' => FailedIsOver'
  BY <1>1, <1>2 DEF ProbeInv, FailedIsOver
<1> QED
  BY <1>3, <1>4, <1>5, <1>6 DEF ProbeInv

\* ... giving up an answer ...
LEMMA NoAnswerStep ==
  ASSUME ProbeInv, P!NoAnswer
  PROVE  ProbeInv'
<1>1. /\ driver = "waiting" /\ driver' = "fallback"
      /\ mail' = P!LateNow(mail) /\ batch' = P!LateNow(batch)
      /\ UNCHANGED <<status, payer, job, reply, toAsk, updates>>
  BY DEF P!NoAnswer, P!hostVars
<1>2. /\ mishaps' \in [may : SUBSET P!Fault, left : Nat]
      /\ P!AgentInformed' = P!AgentInformed
  BY InformedStays DEF ProbeInv, P!Next, P!Driver
<1>3. ASSUME NEW S \in SUBSET Requests
      PROVE  P!LateNow(S) \subseteq Requests /\ \A m \in P!LateNow(S) : m.late
  BY DEF P!LateNow, Requests
<1>4. mail' \subseteq Requests /\ batch' \subseteq Requests /\ \A m \in mail' \cup batch' : m.late
  BY <1>1, <1>3 DEF ProbeInv, ProbeTyped
<1>5. ProbeTyped' /\ PayerLags'
  BY <1>1, <1>2, <1>4 DEF ProbeInv, ProbeTyped, PayerLags
<1>6. Learned'
  BY <1>1 DEF ProbeInv, Learned
<1>7. OneFresh'
  BY <1>4 DEF OneFresh
<1>8. P!AgentInformed' => FailedIsOver'
  BY <1>1, <1>2 DEF ProbeInv, FailedIsOver
<1> QED
  BY <1>5, <1>6, <1>7, <1>8 DEF ProbeInv

\* ... and applying what was learned.
LEMMA ApplyStep ==
  ASSUME ProbeInv, P!Apply
  PROVE  ProbeInv'
<1>1. /\ driver = "idle" /\ toAsk' = Job /\ updates' = [j \in {} |-> "miss"]
      /\ UNCHANGED <<status, payer, mail, batch, mishaps, driver, job, reply>>
  BY DEF P!Apply, P!hostVars, P!agentVars
<1>2. ProbeTyped' /\ PayerLags' /\ Learned' /\ OneFresh'
  BY <1>1 DEF ProbeInv, ProbeTyped, PayerLags, Learned, OneFresh
<1>3. FailedIsOver'
  BY <1>1 DEF FailedIsOver
<1> QED
  BY <1>2, <1>3 DEF ProbeInv

\* The agent stops, starts or fetches; the driver does not notice.
LEMMA AgentStep ==
  ASSUME ProbeInv, P!Fetch \/ P!AgentStops \/ P!AgentStarts
  PROVE  ProbeInv'
<1>1. /\ UNCHANGED <<status, payer, driver, job, reply, toAsk, updates>>
      /\ \/ batch = {} /\ batch' = mail /\ mail' = {}
         \/ batch' = {} /\ mail' = mail
         \/ batch' = batch /\ mail' = mail
  BY DEF P!Fetch, P!AgentStops, P!AgentStarts, P!hostVars, P!driverVars
<1>2. /\ mishaps' \in [may : SUBSET P!Fault, left : Nat]
      /\ P!AgentInformed' = P!AgentInformed
  BY InformedStays DEF ProbeInv, P!Next, P!Serve
<1>3. ProbeTyped' /\ PayerLags' /\ Learned'
  BY <1>1, <1>2 DEF ProbeInv, ProbeTyped, PayerLags, Learned
<1>4. OneFresh'
  BY <1>1 DEF ProbeInv, OneFresh
<1>5. P!AgentInformed' => FailedIsOver'
  <2>1. P!effective_phase(reply)' = P!effective_phase(reply)
    BY <1>1 DEF P!effective_phase
  <2> QED
    BY <1>1, <1>2, <2>1 DEF ProbeInv, FailedIsOver
<1> QED
  BY <1>3, <1>4, <1>5 DEF ProbeInv

\* An answer is the truth about the job, from an agent that can learn it and whose
\* host honors the grant.
LEMMA AnswerStep ==
  ASSUME ProbeInv, P!authorized(TRUE), NEW m \in batch, P!Answer(m)
  PROVE  ProbeInv'
<1>1. /\ batch' = batch \ {m} /\ m \in Requests
      /\ UNCHANGED <<status, payer, mail, driver, job, toAsk, updates>>
  BY DEF P!Answer, P!hostVars, ProbeInv, ProbeTyped
<1>2. PICK jobs \in BOOLEAN, tags \in BOOLEAN :
        /\ P!Calls(jobs, tags)
        /\ reply' = IF m.late THEN reply ELSE P!handle_probe(m.job, jobs, tags)
  BY DEF P!Answer
<1>3. /\ mishaps' \in [may : SUBSET P!Fault, left : Nat]
      /\ P!AgentInformed' = P!AgentInformed
  BY InformedStays DEF ProbeInv, P!Next, P!Serve
<1>4. m.job \in Job /\ status[m.job] \in P!Status
  BY <1>1 DEF Requests, ProbeInv, ProbeTyped
<1>5. /\ P!handle_probe(m.job, jobs, tags) \in Replies
      /\ P!handle_probe(m.job, jobs, tags) # P!NoReply
  BY <1>4, FailedStatus DEF P!handle_probe, P!failed, P!Reply, P!NoReply, Replies
<1>6. ProbeTyped'
  BY <1>1, <1>2, <1>3, <1>5 DEF ProbeInv, ProbeTyped
<1>7. PayerLags' /\ Learned'
  BY <1>1 DEF ProbeInv, PayerLags, Learned
<1>8. CASE m.late
  <2>1. reply' = reply
    BY <1>2, <1>8
  <2>2. OneFresh'
    BY <1>1, <2>1 DEF ProbeInv, OneFresh
  <2>3. P!effective_phase(reply)' = P!effective_phase(reply)
    BY <2>1 DEF P!effective_phase
  <2>4. P!AgentInformed' => FailedIsOver'
    BY <1>1, <1>3, <2>3 DEF ProbeInv, FailedIsOver
  <2> QED
    BY <1>6, <1>7, <2>2, <2>4 DEF ProbeInv
<1>9. CASE ~m.late
  <2>1. reply' = P!handle_probe(job, jobs, tags) /\ m.job = job
    BY <1>2, <1>9 DEF ProbeInv, OneFresh
  <2>2. \A n \in mail \cup batch : n.late \/ n = m
    BY <1>1, <1>9 DEF ProbeInv, ProbeTyped, OneFresh, Requests
  <2>3. \A n \in mail' \cup batch' : n.late
    BY <1>1, <1>9, <2>2 DEF ProbeInv, OneFresh
  <2>4. OneFresh'
    BY <2>3 DEF OneFresh
  <2>5. ASSUME P!AgentInformed PROVE FailedIsOver'
    <3>1. jobs = TRUE /\ tags = TRUE
      BY <1>2, <2>5 DEF P!Calls, P!Suffer, P!AgentInformed
    <3>2. reply' = P!Reply(P!from_job_status(status[job]), "none")
      BY <2>1, <3>1 DEF P!handle_probe
    <3>3. P!effective_phase(reply)' = P!from_job_status(status[job])
      BY <3>2 DEF P!effective_phase, P!Reply
    <3>4. P!from_job_status(status[job]) = "Failed" => status[job] \in P!Over
      BY <1>4, <2>1, FailedStatus
    <3> QED
      BY <1>1, <2>5, <3>3, <3>4 DEF ProbeInv, FailedIsOver
  <2> QED
    BY <1>3, <1>6, <1>7, <2>4, <2>5 DEF ProbeInv
<1> QED
  BY <1>8, <1>9

\* Every step keeps the invariant of the probe.
LEMMA ProbeNext ==
  ASSUME ProbeInv, P!authorized(TRUE), [P!Next]_(P!vars)
  PROVE  ProbeInv'
<1>1. CASE P!Ask
  BY <1>1, AskStep
<1>2. CASE P!Receive
  <2>1. /\ reply # P!NoReply /\ P!Learn(P!effective_phase(reply)) /\ driver = "waiting"
        /\ UNCHANGED <<mail, batch>>
    BY <1>2 DEF P!Receive, P!agentVars
  <2>2. P!AgentInformed /\ P!effective_phase(reply) = "Failed" => status[job] \in P!Over
    BY <2>1 DEF ProbeInv, FailedIsOver
  <2> QED
    BY <2>1, <2>2, LearnStep
<1>3. CASE P!NoAnswer
  BY <1>3, NoAnswerStep
<1>4. CASE P!Fallback
  <2>1. /\ driver = "fallback" /\ UNCHANGED <<mail, batch>>
        /\ P!Learn(P!from_job_status(payer[job])) \/ P!Learn("miss")
    BY <1>4 DEF P!Fallback, P!agentVars
  <2>2. P!from_job_status(payer[job]) = "Failed" => status[job] \in P!Over
    BY FailedStatus DEF ProbeInv, ProbeTyped, PayerLags
  <2> QED
    BY <2>1, <2>2, LearnStep
<1>5. CASE P!Apply
  BY <1>5, ApplyStep
<1>6. CASE P!Fetch \/ P!AgentStops \/ P!AgentStarts
  BY <1>6, AgentStep
<1>7. ASSUME NEW m \in batch, P!Answer(m) PROVE ProbeInv'
  BY <1>7, AnswerStep
<1>8. ASSUME NEW j \in Job, P!JobMoves(j) \/ P!PayerLearns(j) PROVE ProbeInv'
  BY <1>8, HostMoves
<1>9. CASE UNCHANGED P!vars
  BY <1>9 DEF P!vars, P!hostVars, P!agentVars, P!driverVars, ProbeInv, ProbeTyped,
              PayerLags, Learned, OneFresh, FailedIsOver, P!AgentInformed, P!effective_phase
<1> QED
  BY <1>1, <1>2, <1>3, <1>4, <1>5, <1>6, <1>7, <1>8, <1>9
     DEF P!Next, P!Driver, P!Serve

\* "A single transient local-API blip must not mark the whole fleet failed"
\* (Controller::refresh): where the host honors the grant and its agent can learn
\* what it answers, whatever requests and answers are lost, late or garbled.
THEOREM GivenUpTheorem ==
  ASSUME P!authorized(TRUE)
  PROVE  P!Spec => GivenUpRightly
<1> DEFINE Rightly ==
      P!AgentInformed =>
        \A j \in Job :
          phase[j] # "Failed" /\ phase'[j] = "Failed"
            => status[j] \in P!Over \/ refresh_failures'[j] >= P!Threshold
<1>1. ProbeInv /\ [P!Next]_(P!vars) => [Rightly]_(P!vars)
  <2> SUFFICES ASSUME ProbeInv, P!Next, P!AgentInformed, NEW j \in Job,
                      phase[j] # "Failed", phase'[j] = "Failed"
               PROVE  status[j] \in P!Over \/ refresh_failures'[j] >= P!Threshold
    OBVIOUS
  <2>1. CASE P!Apply
    <3>1. /\ driver = "idle" /\ toAsk = {} /\ refresh_failures'[j] = P!Misses(j)
          /\ phase'[j] = IF updates[j] # "miss" THEN updates[j]
                         ELSE IF P!Misses(j) >= P!Threshold THEN "Failed" ELSE phase[j]
      BY <2>1 DEF P!Apply
    <3>2. j \in DOMAIN updates
      BY <3>1 DEF ProbeInv, Learned
    <3> QED
      BY <3>1, <3>2 DEF ProbeInv, FailedIsOver
  <2>2. CASE UNCHANGED phase
    BY <2>2
  <2> QED
    BY <2>1, <2>2 DEF P!Next, P!Driver, P!Serve, P!Ask, P!Receive, P!Learn, P!NoAnswer,
       P!Fallback, P!Fetch, P!Answer, P!AgentStops, P!AgentStarts, P!JobMoves,
       P!PayerLearns, P!driverVars
<1>2. ProbeInv /\ [P!Next]_(P!vars) => ProbeInv'
  BY ProbeNext
<1> QED
  BY ProbeInit, <1>1, <1>2, PTL DEF P!Spec, GivenUpRightly, P!GivenUpRightly

=============================================================================
