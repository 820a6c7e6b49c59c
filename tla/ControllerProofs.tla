------------------------- MODULE ControllerProofs -------------------------
(***************************************************************************)
(* Theorems about Controller: for every set of job ids, hosts and           *)
(* revisions, every sequence of valid specs, every threshold and every set  *)
(* and number of failures.                                                  *)
(***************************************************************************)
EXTENDS Controller, RolloutProofs

----------------------------------------------------------------------------
(* Types *)

\* What is tracked exists on the mesh, as the job it is tracked as; what is to
\* be killed is tracked.
Handles ==
  /\ \A j \in DOMAIN replicas : /\ mesh[j] \in Job
                                /\ mesh[j].revision = replicas[j].revision
  /\ pc = "kill" => kills \subseteq DOMAIN replicas
  /\ pc = "substitute" => alternates \subseteq DOMAIN replicas
  /\ pc \in {"idle", "plan"} => kills = {}

TypeInv == TypeOK /\ Handles

\* The kills of a plan are of replicas it was given.
LEMMA StepType ==
  ASSUME NEW dep, NEW reps, Plannable(dep, reps), NEW s \in plan_step(dep, reps)
  PROVE  s.to_place \in Nat /\ s.to_kill \subseteq DOMAIN reps /\ s.done \in BOOLEAN
<1>1. /\ Cardinality(NewLive(reps, dep.revision)) \in Nat
      /\ Cardinality(Live(reps)) \in Nat
  BY CensusLemma DEF Plannable
<1>2. /\ NewLive(reps, dep.revision) \subseteq DOMAIN reps
      /\ OldLive(reps, dep.revision) \subseteq DOMAIN reps
      /\ OldReady(reps, dep.revision) \subseteq DOMAIN reps
      /\ TerminalJobs(reps) \subseteq DOMAIN reps
  BY DEF NewLive, OldLive, OldReady, Live, Ready, TerminalJobs
<1>3. /\ SatSub(dep.replicas, Cardinality(NewLive(reps, dep.revision))) \in Nat
      /\ SurgePlacements(dep, reps) \in Nat
  BY <1>1 DEF SatSub, MinOf, SurgePlacements, SurgeCeiling, Plannable
<1>4. \A V \in Excess(reps, NewLive(reps, dep.revision), dep.replicas) :
        V \subseteq DOMAIN reps
  BY <1>2 DEF Excess
<1>5. \A R \in Retirements(dep, reps) : R \subseteq DOMAIN reps
  BY <1>2 DEF Retirements
<1>6. CASE dep.strategy = "Recreate" /\ OldLive(reps, dep.revision) # {}
  <2>1. s = [to_place |-> 0,
             to_kill |-> TerminalJobs(reps) \cup OldLive(reps, dep.revision),
             done |-> FALSE]
    BY <1>6 DEF plan_step, plan_recreate
  <2>. QED
    BY <2>1, <1>2
<1>7. CASE dep.strategy = "Recreate" /\ OldLive(reps, dep.revision) = {}
  <2>1. PICK V \in Excess(reps, NewLive(reps, dep.revision), dep.replicas) :
          /\ s.to_place = SatSub(dep.replicas,
                                 Cardinality(NewLive(reps, dep.revision)))
          /\ s.to_kill = TerminalJobs(reps) \cup V
          /\ s.done = RolledOut(dep, reps)
    BY <1>7 DEF plan_step, plan_recreate
  <2>2. RolledOut(dep, reps) \in BOOLEAN
    BY DEF RolledOut
  <2>. QED
    BY <2>1, <2>2, <1>2, <1>3, <1>4
<1>8. CASE dep.strategy # "Recreate" /\ RolledOut(dep, reps)
  <2>1. s = [to_place |-> 0, to_kill |-> TerminalJobs(reps), done |-> TRUE]
    BY <1>8 DEF plan_step, plan_rolling
  <2>. QED
    BY <2>1, <1>2
<1>9. CASE dep.strategy # "Recreate" /\ ~RolledOut(dep, reps)
  <2>1. PICK V \in Excess(reps, NewLive(reps, dep.revision), dep.replicas),
             R \in Retirements(dep, reps) :
          /\ s.to_place = SurgePlacements(dep, reps)
          /\ s.to_kill = TerminalJobs(reps) \cup V \cup R
                           \cup (OldLive(reps, dep.revision) \ Ready(reps))
          /\ s.done = FALSE
    BY <1>9 DEF plan_step, plan_rolling
  <2>. QED
    BY <2>1, <1>2, <1>3, <1>4, <1>5
<1>. QED
  BY <1>6, <1>7, <1>8, <1>9

\* The spec in force is a valid deployment.
LEMMA SpecType == TypeOK => d \in Deployment(Revision) /\ target \in Revision
<1>. SUFFICES ASSUME TypeOK PROVE d \in Deployment(Revision) /\ target \in Revision
  OBVIOUS
<1>1. gen \in 1..Len(Specs)
  BY DEF TypeOK
<1>2. d \in Deployment(Revision)
  BY <1>1, SpecsAssumption DEF d
<1>. QED
  BY <1>2 DEF target, Deployment

\* The tracked fleet is one the planners accept.
LEMMA FleetType == TypeOK => Plannable(d, replicas)
<1>. SUFFICES ASSUME TypeOK PROVE Plannable(d, replicas)
  OBVIOUS
<1>1. d \in Deployment(Revision)
  BY SpecType
<1>2. IsFiniteSet(DOMAIN replicas) /\ replicas \in [DOMAIN replicas -> Replica]
  BY DEF TypeOK
<1>. QED
  BY <1>1, <1>2 DEF Plannable, Deployment, Replica

\* The variables an attempt to kill a replica may change stay well typed, and
\* every other tracked replica stays tracked and exists.
LEMMA KillOutcome ==
  ASSUME TypeInv, NEW j \in DOMAIN replicas, Killed(j) \/ NotKilled(j)
  PROVE  /\ mesh' \in [JobId -> Job \cup {NoJob}]
         /\ faults' \in Nat
         /\ unanswered' \in [JobId -> Nat]
         /\ DOMAIN replicas' \subseteq JobId
         /\ IsFiniteSet(DOMAIN replicas')
         /\ replicas' \in [DOMAIN replicas' -> Replica]
         /\ \A i \in DOMAIN replicas' : /\ mesh'[i] \in Job
                                        /\ mesh'[i].revision = replicas'[i].revision
         /\ DOMAIN replicas \ {j} \subseteq DOMAIN replicas'
         /\ replicas' = replicas \/ replicas' = Forget(replicas, j)
<1>. USE DEF TypeInv, TypeOK, Handles
<1>1. j \in JobId /\ mesh[j] \in Job /\ "Failed" \in Phase
  BY DEF Phase, Terminal
<1>2. CASE Killed(j)
  <2>1. /\ mesh' = [mesh EXCEPT ![j] = NoJob]
        /\ replicas' = Forget(replicas, j)
        /\ unanswered' = [unanswered EXCEPT ![j] = 0]
        /\ faults' = faults
    BY <1>2 DEF Killed
  <2>2. DOMAIN replicas' = DOMAIN replicas \ {j}
    BY <2>1 DEF Forget
  <2>3. IsFiniteSet(DOMAIN replicas')
    BY <2>2, FS_RemoveElement
  <2>4. \A i \in DOMAIN replicas' : replicas'[i] = replicas[i] /\ mesh'[i] = mesh[i]
    BY <2>1, <2>2 DEF Forget
  <2>5. replicas' \in [DOMAIN replicas' -> Replica]
    BY <2>1, <2>2 DEF Forget
  <2>. QED
    BY <2>1, <2>2, <2>3, <2>4, <2>5
<1>3. CASE NotKilled(j)
  <2>1. replicas' = replicas /\ unanswered' = unanswered
    BY <1>3 DEF NotKilled
  <2>2. faults' \in Nat
    BY <1>3 DEF NotKilled, Suffer
  <2>3. mesh' = mesh \/ mesh' = [mesh EXCEPT ![j].phase = "Failed"]
    BY <1>3 DEF NotKilled
  <2>4. [mesh[j] EXCEPT !.phase = "Failed"] \in Job
    BY <1>1 DEF Job
  <2>5. /\ mesh' \in [JobId -> Job \cup {NoJob}]
        /\ \A i \in DOMAIN replicas : mesh'[i] \in Job
                                     /\ mesh'[i].revision = mesh[i].revision
    BY <2>3, <2>4, <1>1 DEF Job
  <2>. QED
    BY <2>1, <2>2, <2>5
<1>. QED
  BY <1>2, <1>3

\* Every type of every variable, and the handles, hold throughout.
LEMMA InitType == Init => TypeInv
<1>. SUFFICES ASSUME Init PROVE TypeInv
  OBVIOUS
<1>1. DOMAIN replicas = {} /\ DOMAIN refresh_failures = {}
  BY DEF Init
<1>2. IsFiniteSet(DOMAIN replicas)
  BY <1>1, FS_EmptySet
<1>3. gen \in 1..Len(Specs)
  BY SpecsAssumption DEF Init
<1>4. /\ replicas \in [DOMAIN replicas -> Replica]
      /\ refresh_failures \in [DOMAIN refresh_failures -> Nat]
      /\ mesh \in [JobId -> Job \cup {NoJob}]
      /\ unanswered \in [JobId -> Nat]
  BY <1>1 DEF Init
<1>5. /\ step.to_place \in Nat /\ step.to_kill = {} /\ step.done \in BOOLEAN
  BY DEF Init, NoStep
<1>6. /\ stuck = {} /\ faults = 0 /\ pc = "idle" /\ kills = {}
      /\ kill_failures = 0 /\ alternates = {} /\ excess = 0 /\ candidates = {}
      /\ to_place = 0 /\ attempts_left = 0 /\ place_failures = 0
  BY DEF Init
<1>7. depends_on_ready \in BOOLEAN /\ advertised \in BOOLEAN /\ gate_ready \in BOOLEAN
  BY DEF Init
<1>8. TypeOK
  BY <1>1, <1>2, <1>3, <1>4, <1>5, <1>6, <1>7 DEF TypeOK
<1>. QED
  BY <1>1, <1>6, <1>8 DEF TypeInv, Handles

LEMMA RefreshType == TypeInv /\ Refresh => TypeInv'
<1>. SUFFICES ASSUME TypeInv, Refresh PROVE TypeInv'
  OBVIOUS
<1>. USE DEF TypeInv, TypeOK, Handles
<1>1. PICK missed \in SUBSET DOMAIN replicas :
        /\ faults' = faults \/ faults' = faults + Cardinality(missed)
        /\ replicas' = [j \in DOMAIN replicas |->
             [replicas[j] EXCEPT !.phase =
                IF j \in missed THEN MissedPhase(j) ELSE mesh[j].phase]]
        /\ refresh_failures' = CountMisses(missed)
        /\ unanswered' = [j \in JobId |->
             IF j \in missed THEN unanswered[j] + 1 ELSE 0]
  BY DEF Refresh
<1>2. faults' \in Nat
  <2>1. Cardinality(missed) \in Nat
    BY FS_Subset, FS_CardinalityType
  <2>. QED
    BY <1>1, <2>1
<1>3. \A j \in JobId : Misses(j) \in Nat
  BY DEF Misses
<1>4. DOMAIN refresh_failures' \subseteq JobId
      /\ refresh_failures' \in [DOMAIN refresh_failures' -> Nat]
  BY <1>1, <1>3 DEF CountMisses
<1>5. \A j \in DOMAIN replicas :
        (IF j \in missed THEN MissedPhase(j) ELSE mesh[j].phase) \in Phase
  BY DEF MissedPhase, Phase, Terminal, Job, Replica
<1>6. /\ DOMAIN replicas' = DOMAIN replicas
      /\ \A j \in DOMAIN replicas : /\ replicas'[j] \in Replica
                                   /\ replicas'[j].revision = replicas[j].revision
  BY <1>1, <1>5 DEF Replica
<1>7. replicas' \in [DOMAIN replicas' -> Replica]
  BY <1>1, <1>6
<1>8. unanswered' \in [JobId -> Nat]
  BY <1>1
<1>9. IsFiniteSet(DOMAIN replicas') /\ DOMAIN replicas' \subseteq JobId
  BY <1>6
<1>. HIDE DEF TypeInv, TypeOK, Handles
<1>10. TypeOK'
  BY <1>2, <1>4, <1>7, <1>8, <1>9 DEF Refresh, killVars, placeVars, TypeInv, TypeOK
<1>11. Handles'
  <2>1. \A j \in DOMAIN replicas' : /\ mesh'[j] \in Job
                                    /\ mesh'[j].revision = replicas'[j].revision
    BY <1>6 DEF Refresh, TypeInv, Handles
  <2>2. pc' = "plan" /\ kills' = kills
    BY DEF Refresh, killVars
  <2>3. kills = {}
    BY DEF Refresh, TypeInv, Handles
  <2>. QED
    BY <2>1, <2>2, <2>3 DEF Handles
<1>. QED
  BY <1>10, <1>11 DEF TypeInv

LEMMA PlanType == TypeInv /\ Plan => TypeInv'
<1>. SUFFICES ASSUME TypeInv, Plan PROVE TypeInv'
  OBVIOUS
<1>1. step'.to_place \in Nat /\ step'.to_kill \subseteq DOMAIN replicas
      /\ step'.done \in BOOLEAN
  BY FleetType, StepType DEF Plan, TypeInv
<1>2. gate_ready' \in BOOLEAN
  <2>1. depends_on_ready \in BOOLEAN
    BY DEF TypeInv, TypeOK
  <2>2. gate_ready' = depends_on_ready \/ gate_ready' = FALSE
    BY DEF Plan
  <2>. QED
    BY <2>1, <2>2, Zenon
<1>3. faults' \in Nat
  BY DEF Plan, Suffer, TypeInv, TypeOK
<1>. QED
  BY <1>1, <1>2, <1>3 DEF Plan, TypeInv, TypeOK, Handles, keptVars, placeVars

LEMMA KillType == ASSUME NEW j \in JobId PROVE TypeInv /\ Kill(j) => TypeInv'
<1>. SUFFICES ASSUME TypeInv, Kill(j) PROVE TypeInv'
  OBVIOUS
<1>1. j \in DOMAIN replicas /\ (Killed(j) \/ NotKilled(j))
  BY DEF Kill, TypeInv, Handles
<1>2. /\ kills' = kills \ {j}
      /\ kill_failures' \in Nat
      /\ pc = "kill" /\ pc' = "kill"
  BY DEF Kill, TypeInv, TypeOK
<1>. QED
  BY <1>1, <1>2, KillOutcome DEF Kill, TypeInv, TypeOK, Handles, placeVars

LEMMA KillsDoneType == TypeInv /\ KillsDone => TypeInv'
<1>. SUFFICES ASSUME TypeInv, KillsDone PROVE TypeInv'
  OBVIOUS
<1>1. NewLive(replicas, target) \subseteq DOMAIN replicas
  BY DEF NewLive, Live
<1>2. OnTargetExcess \in Int
  <2>1. Cardinality(NewLive(replicas, target)) \in Nat
    BY FleetType, CensusLemma DEF TypeInv, Plannable
  <2>. QED
    BY <2>1, FleetType DEF OnTargetExcess, TypeInv, Plannable
<1>. QED
  BY <1>1, <1>2 DEF KillsDone, TypeInv, TypeOK, Handles, meshVars, keptVars, placeVars

LEMMA SubstituteType ==
  ASSUME NEW j \in JobId PROVE TypeInv /\ Substitute(j) => TypeInv'
<1>. SUFFICES ASSUME TypeInv, Substitute(j) PROVE TypeInv'
  OBVIOUS
<1>1. j \in DOMAIN replicas /\ (Killed(j) \/ NotKilled(j))
  BY DEF Substitute, TypeInv, Handles
<1>2. /\ alternates' = alternates \ {j}
      /\ kill_failures' \in Nat
      /\ excess' \in Int
      /\ pc = "substitute" /\ pc' = "substitute"
  BY DEF Substitute, TypeInv, TypeOK, SatSub
<1>. QED
  BY <1>1, <1>2, KillOutcome DEF Substitute, TypeInv, TypeOK, Handles, placeVars

LEMMA SubstitutesDoneType == TypeInv /\ SubstitutesDone => TypeInv'
BY DEF SubstitutesDone, TypeInv, TypeOK, Handles, meshVars, keptVars, killVars,
       placeVars

LEMMA RankType == TypeInv /\ Rank => TypeInv'
<1>. SUFFICES ASSUME TypeInv, Rank PROVE TypeInv'
  OBVIOUS
<1>. USE DEF TypeInv, TypeOK, Handles
<1>1. CASE step.to_place > 0 /\ gate_ready
  <2>1. candidates' \subseteq Node /\ faults' \in Nat
    BY <1>1 DEF Rank, Suffer
  <2>2. Cardinality(candidates') \in Nat
    BY <2>1, ParameterAssumption, FS_Subset, FS_CardinalityType
  <2>3. attempts_left' \in Nat
    BY <1>1, <2>2 DEF Rank, MaxAttempts
  <2>. QED
    BY <1>1, <2>1, <2>3 DEF Rank, keptVars, killVars
<1>2. CASE ~(step.to_place > 0 /\ gate_ready)
  BY <1>2 DEF Rank, keptVars, killVars
<1>. QED
  BY <1>1, <1>2

LEMMA PlacementsDoneType == TypeInv /\ PlacementsDone => TypeInv'
<1>. SUFFICES ASSUME TypeInv, PlacementsDone PROVE TypeInv'
  OBVIOUS
<1>1. place_failures' \in Nat
  BY DEF PlacementsDone, TypeInv, TypeOK
<1>2. pc' = "advertise"
  BY DEF PlacementsDone
<1>. QED
  BY <1>1, <1>2
     DEF PlacementsDone, TypeInv, TypeOK, Handles, meshVars, keptVars, killVars

\* What a deploy does to the controller's variables and to the mesh: it starts a
\* job where none was, or nothing.
LEMMA DeployOutcome ==
  ASSUME TypeInv, NEW n \in Node, Deploy(n)
  PROVE  \/ \E j \in JobId :
              /\ mesh[j] = NoJob /\ j \notin DOMAIN replicas
              /\ mesh' = [mesh EXCEPT ![j] = Started(n)]
              /\ replicas' = [i \in DOMAIN replicas \cup {j} |->
                   IF i = j THEN Started(n) ELSE replicas[i]]
              /\ to_place' = to_place - 1
              /\ UNCHANGED <<faults, candidates>>
         \/ /\ replicas' = replicas
            /\ to_place' = to_place
            /\ candidates' = candidates \ {n}
            /\ faults' \in Nat
            /\ \/ mesh' = mesh
               \/ \E j \in JobId : /\ mesh[j] = NoJob /\ j \notin DOMAIN replicas
                                   /\ mesh' = [mesh EXCEPT ![j] = Started(n)]
<1>1. \A j \in JobId : mesh[j] = NoJob => j \notin DOMAIN replicas
  <2>1. NoJob \notin Job
    BY DEF NoJob, Job, Phase, Alive, Terminal
  <2>. QED
    BY <2>1 DEF TypeInv, Handles
<1>2. CASE \E j \in JobId : DeployOk(n, j)
  BY <1>1, <1>2 DEF DeployOk, Fresh
<1>3. CASE DeployErr(n)
  <2>1. faults' \in Nat
    BY <1>3 DEF DeployErr, Suffer, TypeInv, TypeOK
  <2>2. \/ mesh' = mesh
        \/ \E j \in JobId : Fresh(j) /\ mesh' = [mesh EXCEPT ![j] = Started(n)]
    BY <1>3 DEF DeployErr
  <2>. QED
    BY <1>1, <1>3, <2>1, <2>2 DEF DeployErr, Fresh
<1>. QED
  BY <1>2, <1>3 DEF Deploy

LEMMA DeployType == ASSUME NEW n \in Node PROVE TypeInv /\ Deploy(n) => TypeInv'
<1>. SUFFICES ASSUME TypeInv, Deploy(n) PROVE TypeInv'
  OBVIOUS
<1>1. Started(n) \in Job /\ Started(n) \in Replica
  BY SpecType DEF Started, Job, Replica, Phase, Alive, TypeInv
<1>2. /\ attempts_left' \in Nat
      /\ to_place \in Nat /\ to_place > 0
      /\ pc = "place" /\ pc' = "place"
  BY DEF Deploy, TypeInv, TypeOK
<1>3. ASSUME NEW j \in JobId, mesh[j] = NoJob, j \notin DOMAIN replicas,
             mesh' = [mesh EXCEPT ![j] = Started(n)]
      PROVE  /\ mesh' \in [JobId -> Job \cup {NoJob}]
             /\ mesh'[j] = Started(n)
             /\ \A i \in DOMAIN replicas : mesh'[i] = mesh[i]
  BY <1>1, <1>3 DEF TypeInv, TypeOK
<1>4. CASE \E j \in JobId :
             /\ mesh[j] = NoJob /\ j \notin DOMAIN replicas
             /\ mesh' = [mesh EXCEPT ![j] = Started(n)]
             /\ replicas' = [i \in DOMAIN replicas \cup {j} |->
                  IF i = j THEN Started(n) ELSE replicas[i]]
             /\ to_place' = to_place - 1
             /\ UNCHANGED <<faults, candidates>>
  <2>1. PICK j \in JobId :
             /\ mesh[j] = NoJob /\ j \notin DOMAIN replicas
             /\ mesh' = [mesh EXCEPT ![j] = Started(n)]
             /\ replicas' = [i \in DOMAIN replicas \cup {j} |->
                  IF i = j THEN Started(n) ELSE replicas[i]]
             /\ to_place' = to_place - 1
             /\ UNCHANGED <<faults, candidates>>
    BY <1>4
  <2>2. DOMAIN replicas' = DOMAIN replicas \cup {j}
    BY <2>1
  <2>3. IsFiniteSet(DOMAIN replicas')
    <3>1. IsFiniteSet(DOMAIN replicas)
      BY DEF TypeInv, TypeOK
    <3>2. IsFiniteSet(DOMAIN replicas \cup {j})
      BY <3>1, FS_AddElement
    <3>. QED
      BY <2>2, <3>2
  <2>4. /\ replicas' \in [DOMAIN replicas' -> Replica]
        /\ DOMAIN replicas' \subseteq JobId
    <3>1. replicas \in [DOMAIN replicas -> Replica] /\ DOMAIN replicas \subseteq JobId
      BY DEF TypeInv, TypeOK
    <3>. QED
      BY <1>1, <2>1, <2>2, <3>1
  <2>5. \A i \in DOMAIN replicas' : /\ mesh'[i] \in Job
                                    /\ mesh'[i].revision = replicas'[i].revision
    BY <1>1, <1>3, <2>1, <2>2 DEF TypeInv, Handles
  <2>6. mesh' \in [JobId -> Job \cup {NoJob}]
    BY <1>3, <2>1
  <2>7. to_place' \in Nat
    BY <1>2, <2>1
  <2>. QED
    BY <1>2, <2>1, <2>3, <2>4, <2>5, <2>6, <2>7
       DEF Deploy, TypeInv, TypeOK, Handles, killVars
<1>5. CASE /\ replicas' = replicas
           /\ to_place' = to_place
           /\ candidates' = candidates \ {n}
           /\ faults' \in Nat
           /\ \/ mesh' = mesh
              \/ \E j \in JobId : /\ mesh[j] = NoJob /\ j \notin DOMAIN replicas
                                  /\ mesh' = [mesh EXCEPT ![j] = Started(n)]
  <2>1. /\ mesh' \in [JobId -> Job \cup {NoJob}]
        /\ \A i \in DOMAIN replicas : mesh'[i] = mesh[i]
    BY <1>3, <1>5 DEF TypeInv, TypeOK
  <2>. QED
    BY <1>2, <1>5, <2>1 DEF Deploy, TypeInv, TypeOK, Handles, killVars
<1>. QED
  BY <1>4, <1>5, DeployOutcome

LEMMA AdvertiseType == TypeInv /\ Advertise => TypeInv'
<1>. SUFFICES ASSUME TypeInv, Advertise PROVE TypeInv'
  OBVIOUS
<1>1. advertised' \in BOOLEAN
  <2>1. advertised' = TRUE \/ advertised' = advertised
    BY DEF Advertise
  <2>2. advertised \in BOOLEAN
    BY DEF TypeInv, TypeOK
  <2>. QED
    BY <2>1, <2>2, Zenon
<1>2. faults' \in Nat
  BY DEF Advertise, Suffer, TypeInv, TypeOK
<1>3. step'.to_place \in Nat /\ step'.to_kill = {} /\ step'.done \in BOOLEAN
  BY DEF Advertise, NoStep
<1>4. gate_ready' \in BOOLEAN
  BY DEF Advertise
<1>. QED
  BY <1>1, <1>2, <1>3, <1>4 DEF Advertise, TypeInv, TypeOK, Handles, keptVars

\* The environment changes phases, and what nobody tracks.
LEMMA EnvironmentType == TypeInv /\ Environment => TypeInv'
<1>. SUFFICES ASSUME TypeInv, Environment PROVE TypeInv'
  OBVIOUS
<1>1. UNCHANGED tickVars
  BY DEF Environment, JobStarts, JobEnds, HostSticks, DependencyLost,
         DependencyBack, RecordExpires, Apply
<1>2. /\ mesh' \in [JobId -> Job \cup {NoJob}]
      /\ \A j \in DOMAIN replicas : /\ mesh'[j] \in Job
                                    /\ mesh'[j].revision = mesh[j].revision
  <2>1. ASSUME NEW j \in JobId, NEW p \in Phase, mesh[j] # NoJob,
               mesh' = [mesh EXCEPT ![j].phase = p]
        PROVE  /\ mesh' \in [JobId -> Job \cup {NoJob}]
               /\ \A i \in DOMAIN replicas : /\ mesh'[i] \in Job
                                             /\ mesh'[i].revision = mesh[i].revision
    <3>1. mesh[j] \in Job
      BY <2>1 DEF TypeInv, TypeOK
    <3>2. [mesh[j] EXCEPT !.phase = p] \in Job
          /\ [mesh[j] EXCEPT !.phase = p].revision = mesh[j].revision
      BY <3>1 DEF Job
    <3>. QED
      BY <2>1, <3>1, <3>2 DEF TypeInv, TypeOK, Handles
  <2>2. ASSUME NEW j \in JobId, JobStarts(j) PROVE <1>2!1 /\ <1>2!2
    <3>1. mesh[j] # NoJob
      BY <2>2 DEF JobStarts, NoJob
    <3>. QED
      BY <2>1, <2>2, <3>1 DEF JobStarts, Phase, Alive
  <2>3. ASSUME NEW j \in JobId, JobEnds(j) PROVE <1>2!1 /\ <1>2!2
    <3>1. CASE j \in DOMAIN replicas
      <4>1. PICK p \in Endings : mesh' = [mesh EXCEPT ![j].phase = p]
        BY <2>3, <3>1 DEF JobEnds
      <4>2. p \in Phase
        BY ParameterAssumption DEF Phase
      <4>. QED
        BY <2>1, <2>3, <4>1, <4>2 DEF JobEnds, Running
    <3>2. CASE j \notin DOMAIN replicas
      BY <2>3, <3>2 DEF JobEnds, TypeInv, TypeOK, Handles
    <3>. QED
      BY <3>1, <3>2
  <2>4. CASE mesh' = mesh
    BY <2>4 DEF TypeInv, TypeOK, Handles
  <2>. QED
    BY <2>2, <2>3, <2>4 DEF Environment, HostSticks, DependencyLost,
       DependencyBack, RecordExpires, Apply
<1>3. faults' \in Nat
  BY DEF Environment, JobStarts, JobEnds, HostSticks, DependencyLost,
         DependencyBack, RecordExpires, Apply, Suffer, TypeInv, TypeOK
<1>4. stuck' \subseteq Node
  BY DEF Environment, JobStarts, JobEnds, HostSticks, DependencyLost,
         DependencyBack, RecordExpires, Apply, TypeInv, TypeOK
<1>5. gen' \in 1..Len(Specs)
  BY SpecsAssumption
     DEF Environment, JobStarts, JobEnds, HostSticks, DependencyLost,
         DependencyBack, RecordExpires, Apply, TypeInv, TypeOK
<1>6. depends_on_ready' \in BOOLEAN /\ advertised' \in BOOLEAN
  <2>1. depends_on_ready \in BOOLEAN /\ advertised \in BOOLEAN
    BY DEF TypeInv, TypeOK
  <2>2. \/ depends_on_ready' = depends_on_ready
        \/ depends_on_ready' = TRUE
        \/ depends_on_ready' = FALSE
    BY DEF Environment, JobStarts, JobEnds, HostSticks, DependencyLost,
           DependencyBack, RecordExpires, Apply
  <2>3. advertised' = advertised \/ advertised' = FALSE
    BY DEF Environment, JobStarts, JobEnds, HostSticks, DependencyLost,
           DependencyBack, RecordExpires, Apply
  <2>. QED
    BY <2>1, <2>2, <2>3, Zenon
<1>. QED
  BY <1>1, <1>2, <1>3, <1>4, <1>5, <1>6
     DEF TypeInv, TypeOK, Handles, tickVars, keptVars, killVars, placeVars

\* The types, and what is tracked, are an inductive invariant.
LEMMA TypeInvariance == Spec => []TypeInv
<1>1. Init => TypeInv
  BY InitType
<1>2. TypeInv /\ [Next]_vars => TypeInv'
  <2>. SUFFICES ASSUME TypeInv, [Next]_vars PROVE TypeInv'
    OBVIOUS
  <2>1. CASE Tick
    BY <2>1, RefreshType, PlanType, KillType, KillsDoneType, SubstituteType,
       SubstitutesDoneType, RankType, DeployType, PlacementsDoneType,
       AdvertiseType DEF Tick
  <2>2. CASE Environment
    BY <2>2, EnvironmentType
  <2>3. CASE UNCHANGED vars
    BY <2>3 DEF vars, meshVars, keptVars, killVars, placeVars, TypeInv, TypeOK,
                Handles
  <2>. QED
    BY <2>1, <2>2, <2>3 DEF Next
<1>. QED
  BY <1>1, <1>2, PTL DEF Spec

\* Every variable keeps its type: what a tick tracks stays a finite set of
\* replicas, and what it is about to kill or place stays well formed
\* (controller.rs, tick).
THEOREM TypeTheorem == Spec => []TypeOK
<1>1. TypeInv => TypeOK
  BY DEF TypeInv
<1>. QED
  BY <1>1, TypeInvariance, PTL

----------------------------------------------------------------------------
(* What a tick promises of the replicas it tracks: the plan is made from a  *)
(* snapshot and stays safe to carry out, in any order and with any success, *)
(* while the mesh moves on.                                                 *)

(***************************************************************************)
(* The inductive invariant: what the rest of the tick may rely on at each   *)
(* of its parts. The planners' lemmas establish it when the plan is made.   *)
(***************************************************************************)

\* What remains to be killed leaves enough behind if all of it is killed.
KillsLeaveEnough ==
  pc = "kill" =>
    /\ kills \cap NewLive(replicas, target) # {}
         => Cardinality(NewLive(replicas, target) \ kills) >= d.replicas
    /\ Rolling /\ kills \cap Ready(replicas) # {}
         => Cardinality(Ready(replicas) \ kills) >= AvailabilityFloor(d)

\* Substitution knows how many replicas there are too many.
ExcessExact ==
  pc = "substitute" =>
    /\ alternates \subseteq NewLive(replicas, target)
    /\ excess = Cardinality(NewLive(replicas, target)) - d.replicas

\* The number n of replicas may still be placed.
Room(n) ==
  n > 0 =>
    /\ Rolling => Cardinality(Live(replicas)) + n <= SurgeCeiling(d)
    /\ ~Rolling => OldLive(replicas, target) = {}

RoomToPlace ==
  /\ pc \in {"kill", "substitute", "rank"} => Room(step.to_place)
  /\ pc = "place" => Room(to_place)

\* A step that says the rollout is done is right to the end of the tick.
DoneStands ==
  /\ pc \in {"kill", "substitute", "rank", "advertise"} /\ step.done =>
       /\ RolledOut(d, replicas)
       /\ step.to_place = 0
  /\ pc = "kill" /\ step.done => kills \cap Live(replicas) = {}
  /\ pc = "place" => ~step.done

TickInv == KillsLeaveEnough /\ ExcessExact /\ RoomToPlace /\ DoneStands

SafetyInv == TypeInv /\ TickInv

----------------------------------------------------------------------------
(* The census of the tracked fleet is finite. *)
LEMMA TrackedCensus ==
  ASSUME TypeInv
  PROVE  /\ IsFiniteSet(Live(replicas)) /\ Cardinality(Live(replicas)) \in Nat
         /\ IsFiniteSet(Ready(replicas)) /\ Cardinality(Ready(replicas)) \in Nat
         /\ IsFiniteSet(NewLive(replicas, target))
         /\ Cardinality(NewLive(replicas, target)) \in Nat
         /\ d.replicas \in Nat
         /\ SurgeCeiling(d) \in Nat
         /\ AvailabilityFloor(d) \in Nat
<1>1. Plannable(d, replicas)
  BY FleetType DEF TypeInv
<1>2. /\ d.replicas \in Nat /\ d.max_surge \in Nat /\ d.max_unavailable \in Nat
      /\ IsFiniteSet(DOMAIN replicas)
      /\ \A j \in DOMAIN replicas : replicas[j].phase \in Phase
  BY <1>1 DEF Plannable
<1>3. SurgeCeiling(d) \in Nat /\ AvailabilityFloor(d) \in Nat
  BY <1>2 DEF SurgeCeiling, AvailabilityFloor, SatSub
<1>. QED
  BY <1>2, <1>3, CensusLemma

\* A done step asks for no live replica to be killed and none to be placed.
LEMMA DoneStep ==
  ASSUME NEW dep, NEW reps, Plannable(dep, reps), NEW s \in plan_step(dep, reps),
         s.done
  PROVE  /\ RolledOut(dep, reps)
         /\ s.to_place = 0
         /\ s.to_kill \cap Live(reps) = {}
<1>1. /\ TerminalJobs(reps) \cap Live(reps) = {}
      /\ IsFiniteSet(NewLive(reps, dep.revision))
      /\ Cardinality(NewLive(reps, dep.revision)) \in Nat
      /\ dep.replicas \in Nat
  BY CensusLemma DEF Plannable
<1>2. CASE dep.strategy = "Recreate"
  <2>0. s \in plan_recreate(dep, reps)
    BY <1>2 DEF plan_step
  <2>1. OldLive(reps, dep.revision) = {}
    BY <2>0 DEF plan_recreate
  <2>2. PICK V \in Excess(reps, NewLive(reps, dep.revision), dep.replicas) :
          /\ s.to_place = SatSub(dep.replicas,
                                 Cardinality(NewLive(reps, dep.revision)))
          /\ s.to_kill = TerminalJobs(reps) \cup V
          /\ s.done = RolledOut(dep, reps)
    BY <2>0, <2>1, RecreateParts
  <2>3. RolledOut(dep, reps)
    BY <2>2
  <2>4. Cardinality(NewLive(reps, dep.revision)) = dep.replicas
    BY <2>3 DEF RolledOut
  <2>5. s.to_place = 0
    BY <1>1, <2>2, <2>4 DEF SatSub
  <2>6. V = {}
    <3>1. V \subseteq NewLive(reps, dep.revision) /\ Cardinality(V) = 0
      BY <1>1, <2>4 DEF Excess, SatSub
    <3>. QED
      BY <1>1, <3>1, FS_Subset, FS_EmptySet
  <2>. QED
    BY <1>1, <2>2, <2>3, <2>5, <2>6
<1>3. CASE dep.strategy # "Recreate"
  <2>1. RolledOut(dep, reps)
    BY <1>3 DEF plan_step, plan_rolling
  <2>2. s.to_place = 0 /\ s.to_kill = TerminalJobs(reps)
    BY <1>3, <2>1 DEF plan_step, plan_rolling
  <2>. QED
    BY <1>1, <2>1, <2>2
<1>. QED
  BY <1>2, <1>3

----------------------------------------------------------------------------
(* The invariant is established by the plan and kept by every action. *)

\* The plan promises what the remainder of the tick relies on.
LEMMA PlanSafe == SafetyInv /\ Plan => TickInv'
<1>. SUFFICES ASSUME SafetyInv, Plan PROVE TickInv'
  OBVIOUS
<1>1. /\ Plannable(d, replicas)
      /\ step' \in plan_step(d, replicas)
      /\ kills' = step'.to_kill
      /\ pc' = "kill"
      /\ replicas' = replicas
      /\ gen' = gen
  BY FleetType DEF Plan, SafetyInv, TypeInv, keptVars
<1>2. d' = d /\ target' = target /\ target = d.revision
  BY <1>1 DEF d, target
<1>3. KillsLeaveEnough'
  <2>1. step'.to_kill \cap NewLive(replicas, target) # {}
          => Cardinality(NewLive(replicas, target) \ step'.to_kill) >= d.replicas
    <3>1. d.replicas \in Nat
      BY <1>1 DEF Plannable
    <3>. QED
      BY <1>1, <1>2, <3>1, StepExcess
  <2>2. ASSUME Rolling, step'.to_kill \cap Ready(replicas) # {}
        PROVE  Cardinality(Ready(replicas) \ step'.to_kill) >= AvailabilityFloor(d)
    <3>1. step' \in plan_rolling(d, replicas)
      BY <1>1, <2>2 DEF plan_step, Rolling
    <3>2. Cardinality(Ready(replicas) \ step'.to_kill)
            >= MinOf(Cardinality(Ready(replicas)), AvailabilityFloor(d))
      BY <1>1, <3>1, RollingFloor
    <3>3. /\ IsFiniteSet(Ready(replicas)) /\ Cardinality(Ready(replicas)) \in Nat
          /\ AvailabilityFloor(d) \in Nat
      BY TrackedCensus DEF SafetyInv
    <3>4. /\ Cardinality(Ready(replicas) \ step'.to_kill) \in Nat
          /\ Cardinality(Ready(replicas) \ step'.to_kill)
               < Cardinality(Ready(replicas))
      <4>1. PICK j \in Ready(replicas) : j \in step'.to_kill
        BY <2>2
      <4>2. Ready(replicas) \ step'.to_kill \subseteq Ready(replicas) \ {j}
        BY <4>1
      <4>3. /\ IsFiniteSet(Ready(replicas) \ {j})
            /\ Cardinality(Ready(replicas) \ {j}) = Cardinality(Ready(replicas)) - 1
        BY <3>3, <4>1, FS_RemoveElement
      <4>4. /\ Cardinality(Ready(replicas) \ step'.to_kill)
                 <= Cardinality(Ready(replicas) \ {j})
            /\ Cardinality(Ready(replicas) \ step'.to_kill) \in Nat
        BY <4>2, <4>3, FS_Subset, FS_CardinalityType
      <4>. QED
        BY <3>3, <4>3, <4>4
    <3>. QED
      BY <3>2, <3>3, <3>4 DEF MinOf
  <2>. QED
    BY <1>1, <1>2, <2>1, <2>2 DEF KillsLeaveEnough, Rolling
<1>4. Room(step.to_place)'
  <2>1. ASSUME Rolling, step'.to_place > 0
        PROVE  Cardinality(Live(replicas)) + step'.to_place <= SurgeCeiling(d)
    <3>1. step' \in plan_rolling(d, replicas)
      BY <1>1, <2>1 DEF plan_step, Rolling
    <3>. QED
      BY <1>1, <2>1, <3>1, RollingCeiling
  <2>2. ASSUME ~Rolling, step'.to_place > 0
        PROVE  OldLive(replicas, target) = {}
    <3>1. d.strategy = "Recreate"
      BY <1>1, <2>2 DEF Plannable, Strategy, Rolling
    <3>. QED
      BY <1>1, <1>2, <2>2, <3>1 DEF plan_step, plan_recreate
  <2>. QED
    BY <1>1, <1>2, <2>1, <2>2 DEF Room, Rolling
<1>5. DoneStands'
  <2>1. step'.done => /\ RolledOut(d, replicas)
                      /\ step'.to_place = 0
                      /\ step'.to_kill \cap Live(replicas) = {}
    BY <1>1, DoneStep
  <2>. QED
    BY <1>1, <1>2, <2>1 DEF DoneStands
<1>. QED
  BY <1>1, <1>3, <1>4, <1>5 DEF TickInv, ExcessExact, RoomToPlace

\* An attempt to kill a replica leaves the census as it is or without it.
LEMMA KillShrinks ==
  ASSUME TypeInv, NEW j, Killed(j) \/ NotKilled(j), NEW t
  PROVE  /\ \/ /\ replicas' = replicas
            \/ /\ DOMAIN replicas' = DOMAIN replicas \ {j}
               /\ Live(replicas') = Live(replicas) \ {j}
               /\ Ready(replicas') = Ready(replicas) \ {j}
               /\ NewLive(replicas', t) = NewLive(replicas, t) \ {j}
               /\ OldLive(replicas', t) = OldLive(replicas, t) \ {j}
               /\ NewReady(replicas', t) = NewReady(replicas, t) \ {j}
         /\ Cardinality(Live(replicas')) <= Cardinality(Live(replicas))
         /\ Cardinality(Live(replicas')) \in Nat
<1>1. \/ replicas' = replicas
      \/ replicas' = Forget(replicas, j)
  BY DEF Killed, NotKilled
<1>2. \/ /\ replicas' = replicas
      \/ /\ DOMAIN replicas' = DOMAIN replicas \ {j}
         /\ Live(replicas') = Live(replicas) \ {j}
         /\ Ready(replicas') = Ready(replicas) \ {j}
         /\ NewLive(replicas', t) = NewLive(replicas, t) \ {j}
         /\ OldLive(replicas', t) = OldLive(replicas, t) \ {j}
         /\ NewReady(replicas', t) = NewReady(replicas, t) \ {j}
  BY <1>1 DEF Forget, Live, Ready, NewLive, OldLive, NewReady
<1>3. Live(replicas') \subseteq Live(replicas)
  BY <1>2
<1>4. IsFiniteSet(Live(replicas))
  BY TrackedCensus
<1>5. /\ Cardinality(Live(replicas')) <= Cardinality(Live(replicas))
      /\ Cardinality(Live(replicas')) \in Nat
  BY <1>3, <1>4, FS_Subset, FS_CardinalityType
<1>. QED
  BY <1>2, <1>5

\* A part of a set that is large enough leaves enough of the whole.
LEMMA MoreIsLeft ==
  ASSUME NEW S, NEW T, IsFiniteSet(T), S \subseteq T, NEW n \in Nat,
         Cardinality(S) >= n
  PROVE  Cardinality(T) >= n
<1>1. /\ IsFiniteSet(S) /\ Cardinality(S) <= Cardinality(T)
      /\ Cardinality(S) \in Nat /\ Cardinality(T) \in Nat
  BY FS_Subset, FS_CardinalityType
<1>. QED
  BY <1>1

\* A kill that fails leaves more, one that succeeds less on both sides.
LEMMA KillSafe == ASSUME NEW j \in JobId PROVE SafetyInv /\ Kill(j) => TickInv'
<1>. SUFFICES ASSUME SafetyInv, Kill(j) PROVE TickInv'
  OBVIOUS
<1>1. /\ pc = "kill" /\ pc' = "kill" /\ j \in kills /\ kills' = kills \ {j}
      /\ step' = step /\ gen' = gen /\ (Killed(j) \/ NotKilled(j))
  BY DEF Kill
<1>2. d' = d /\ target' = target
  BY <1>1 DEF d, target
<1>3. /\ \/ replicas' = replicas
         \/ /\ Live(replicas') = Live(replicas) \ {j}
            /\ Ready(replicas') = Ready(replicas) \ {j}
            /\ NewLive(replicas', target) = NewLive(replicas, target) \ {j}
            /\ OldLive(replicas', target) = OldLive(replicas, target) \ {j}
            /\ NewReady(replicas', target) = NewReady(replicas, target) \ {j}
      /\ Cardinality(Live(replicas')) <= Cardinality(Live(replicas))
      /\ Cardinality(Live(replicas')) \in Nat
  BY <1>1, KillShrinks DEF SafetyInv
<1>4. /\ IsFiniteSet(Ready(replicas)) /\ IsFiniteSet(NewLive(replicas, target))
      /\ d.replicas \in Nat /\ AvailabilityFloor(d) \in Nat
      /\ SurgeCeiling(d) \in Nat /\ Cardinality(Live(replicas)) \in Nat
  BY TrackedCensus DEF SafetyInv
<1>5. KillsLeaveEnough'
  <2>1. ASSUME kills' \cap NewLive(replicas', target) # {}
        PROVE  Cardinality(NewLive(replicas', target) \ kills') >= d.replicas
    <3>1. Cardinality(NewLive(replicas, target) \ kills) >= d.replicas
      BY <1>1, <1>3, <2>1 DEF SafetyInv, TickInv, KillsLeaveEnough
    <3>2. /\ NewLive(replicas, target) \ kills
               \subseteq NewLive(replicas', target) \ kills'
          /\ NewLive(replicas', target) \ kills' \subseteq NewLive(replicas, target)
      BY <1>1, <1>3
    <3>3. IsFiniteSet(NewLive(replicas', target) \ kills')
      BY <1>4, <3>2, FS_Subset
    <3>. QED
      BY <1>4, <3>1, <3>2, <3>3, MoreIsLeft
  <2>2. ASSUME Rolling, kills' \cap Ready(replicas') # {}
        PROVE  Cardinality(Ready(replicas') \ kills') >= AvailabilityFloor(d)
    <3>1. Cardinality(Ready(replicas) \ kills) >= AvailabilityFloor(d)
      BY <1>1, <1>3, <2>2 DEF SafetyInv, TickInv, KillsLeaveEnough
    <3>2. /\ Ready(replicas) \ kills \subseteq Ready(replicas') \ kills'
          /\ Ready(replicas') \ kills' \subseteq Ready(replicas)
      BY <1>1, <1>3
    <3>3. IsFiniteSet(Ready(replicas') \ kills')
      BY <1>4, <3>2, FS_Subset
    <3>. QED
      BY <1>4, <3>1, <3>2, <3>3, MoreIsLeft
  <2>. QED
    BY <1>2, <2>1, <2>2 DEF KillsLeaveEnough, Rolling
<1>6. RoomToPlace'
  <2>1. Room(step.to_place) /\ step.to_place \in Nat
    BY <1>1 DEF SafetyInv, TickInv, RoomToPlace, TypeInv, TypeOK
  <2>2. OldLive(replicas, target) = {} => OldLive(replicas', target) = {}
    BY <1>3
  <2>. QED
    BY <1>1, <1>2, <1>3, <1>4, <2>1, <2>2 DEF RoomToPlace, Room, Rolling
<1>7. DoneStands'
  <2>. SUFFICES ASSUME step.done
                PROVE  /\ RolledOut(d, replicas')
                       /\ step.to_place = 0
                       /\ kills' \cap Live(replicas') = {}
    BY <1>1, <1>2 DEF DoneStands
  <2>1. /\ RolledOut(d, replicas)
        /\ step.to_place = 0
        /\ kills \cap Live(replicas) = {}
    BY <1>1 DEF SafetyInv, TickInv, DoneStands
  <2>2. /\ j \notin NewLive(replicas, target) /\ j \notin OldLive(replicas, target)
        /\ j \notin NewReady(replicas, target)
    BY <1>1, <2>1 DEF NewLive, OldLive, NewReady, Ready, Live, Alive
  <2>3. /\ NewLive(replicas', target) = NewLive(replicas, target)
        /\ OldLive(replicas', target) = OldLive(replicas, target)
        /\ NewReady(replicas', target) = NewReady(replicas, target)
    BY <1>3, <2>2
  <2>4. RolledOut(d, replicas')
    BY <2>1, <2>3 DEF RolledOut, target
  <2>. QED
    BY <1>1, <1>3, <2>1, <2>4
<1>. QED
  BY <1>1, <1>5, <1>6, <1>7 DEF TickInv, ExcessExact

\* After the kills the excess is exact.
LEMMA KillsDoneSafe == SafetyInv /\ KillsDone => TickInv'
<1>. SUFFICES ASSUME SafetyInv, KillsDone PROVE TickInv'
  OBVIOUS
<1>1. /\ pc = "kill" /\ step' = step /\ gen' = gen /\ replicas' = replicas
      /\ \/ pc' = "rank"
         \/ /\ pc' = "substitute"
            /\ alternates' \subseteq NewLive(replicas, target)
            /\ excess' = OnTargetExcess
  BY DEF KillsDone, meshVars, keptVars
<1>2. d' = d /\ target' = target
  BY <1>1 DEF d, target
<1>. QED
  BY <1>1, <1>2 DEF SafetyInv, TickInv, KillsLeaveEnough, ExcessExact, RoomToPlace,
     Room, Rolling, DoneStands, OnTargetExcess

\* A substitute is taken from the excess.
LEMMA SubstituteSafe ==
  ASSUME NEW j \in JobId PROVE SafetyInv /\ Substitute(j) => TickInv'
<1>. SUFFICES ASSUME SafetyInv, Substitute(j) PROVE TickInv'
  OBVIOUS
<1>1. /\ pc = "substitute" /\ pc' = "substitute" /\ excess > 0
      /\ j \in alternates /\ alternates' = alternates \ {j}
      /\ step' = step /\ gen' = gen /\ (Killed(j) \/ NotKilled(j))
      /\ \/ Killed(j) /\ excess' = excess - 1
         \/ NotKilled(j) /\ excess' = excess
  BY DEF Substitute
<1>2. d' = d /\ target' = target
  BY <1>1 DEF d, target
<1>3. /\ \/ replicas' = replicas
         \/ /\ Live(replicas') = Live(replicas) \ {j}
            /\ NewLive(replicas', target) = NewLive(replicas, target) \ {j}
            /\ OldLive(replicas', target) = OldLive(replicas, target) \ {j}
      /\ Cardinality(Live(replicas')) <= Cardinality(Live(replicas))
      /\ Cardinality(Live(replicas')) \in Nat
  BY <1>1, KillShrinks DEF SafetyInv
<1>4. /\ IsFiniteSet(NewLive(replicas, target))
      /\ Cardinality(NewLive(replicas, target)) \in Nat
      /\ d.replicas \in Nat
      /\ SurgeCeiling(d) \in Nat /\ Cardinality(Live(replicas)) \in Nat
  BY TrackedCensus DEF SafetyInv
<1>5. /\ alternates \subseteq NewLive(replicas, target)
      /\ excess = Cardinality(NewLive(replicas, target)) - d.replicas
      /\ Room(step.to_place) /\ step.to_place \in Nat
      /\ step.done => RolledOut(d, replicas)
  BY <1>1 DEF SafetyInv, TickInv, ExcessExact, RoomToPlace, DoneStands, TypeInv,
     TypeOK
<1>6. ExcessExact'
  <2>1. CASE Killed(j) /\ excess' = excess - 1
    <3>1. NewLive(replicas', target) = NewLive(replicas, target) \ {j}
      BY <2>1 DEF Killed, Forget, NewLive, Live
    <3>2. Cardinality(NewLive(replicas', target))
            = Cardinality(NewLive(replicas, target)) - 1
      BY <1>1, <1>4, <1>5, <3>1, FS_RemoveElement
    <3>. QED
      BY <1>1, <1>2, <1>4, <1>5, <2>1, <3>1, <3>2 DEF ExcessExact
  <2>2. CASE NotKilled(j) /\ excess' = excess
    BY <1>1, <1>2, <1>5, <2>2 DEF ExcessExact, NotKilled
  <2>. QED
    BY <1>1, <2>1, <2>2
<1>7. RoomToPlace'
  <2>1. OldLive(replicas, target) = {} => OldLive(replicas', target) = {}
    BY <1>3
  <2>. QED
    BY <1>1, <1>2, <1>3, <1>4, <1>5, <2>1 DEF RoomToPlace, Room, Rolling
<1>8. ~step.done
  <2>. SUFFICES ASSUME step.done PROVE FALSE
    OBVIOUS
  <2>1. Cardinality(NewLive(replicas, target)) = d.replicas
    BY <1>5 DEF RolledOut, target
  <2>. QED
    BY <1>1, <1>4, <1>5, <2>1
<1>. QED
  BY <1>1, <1>6, <1>7, <1>8 DEF TickInv, KillsLeaveEnough, DoneStands

\* From the ranking to the placements nothing is killed.
LEMMA RankSafe == SafetyInv /\ (SubstitutesDone \/ Rank) => TickInv'
<1>. SUFFICES ASSUME SafetyInv, SubstitutesDone \/ Rank PROVE TickInv'
  OBVIOUS
<1>1. /\ step' = step /\ gen' = gen /\ replicas' = replicas
      /\ \/ pc = "substitute" /\ pc' = "rank"
         \/ pc = "rank" /\ pc' = "advertise"
         \/ /\ pc = "rank" /\ pc' = "place"
            /\ to_place' = step.to_place /\ step.to_place > 0
  BY DEF SubstitutesDone, Rank, meshVars, keptVars, killVars
<1>2. d' = d /\ target' = target
  BY <1>1 DEF d, target
<1>3. /\ Room(step.to_place) /\ step.to_place \in Nat
      /\ step.done => RolledOut(d, replicas) /\ step.to_place = 0
  BY <1>1 DEF SafetyInv, TickInv, RoomToPlace, DoneStands, TypeInv, TypeOK
<1>. QED
  BY <1>1, <1>2, <1>3 DEF TickInv, KillsLeaveEnough, ExcessExact, RoomToPlace,
     Room, Rolling, DoneStands

\* A deploy uses up the room that is left for it.
LEMMA DeploySafe == ASSUME NEW n \in Node PROVE SafetyInv /\ Deploy(n) => TickInv'
<1>. SUFFICES ASSUME SafetyInv, Deploy(n) PROVE TickInv'
  OBVIOUS
<1>1. /\ pc = "place" /\ pc' = "place" /\ step' = step /\ gen' = gen
      /\ to_place > 0 /\ to_place \in Nat
      /\ Room(to_place) /\ ~step.done
  BY DEF Deploy, SafetyInv, TickInv, RoomToPlace, DoneStands, TypeInv, TypeOK
<1>2. d' = d /\ target' = target
  BY <1>1 DEF d, target
<1>3. Room(to_place)'
  <2>1. CASE \E j \in JobId :
              /\ j \notin DOMAIN replicas
              /\ replicas' = [i \in DOMAIN replicas \cup {j} |->
                   IF i = j THEN Started(n) ELSE replicas[i]]
              /\ to_place' = to_place - 1
    <3>1. PICK j \in JobId :
              /\ j \notin DOMAIN replicas
              /\ replicas' = [i \in DOMAIN replicas \cup {j} |->
                   IF i = j THEN Started(n) ELSE replicas[i]]
              /\ to_place' = to_place - 1
      BY <2>1
    <3>2. /\ Live(replicas') = Live(replicas) \cup {j}
          /\ OldLive(replicas', target) = OldLive(replicas, target)
          /\ j \notin Live(replicas)
      BY <3>1 DEF Started, Live, OldLive, Alive
    <3>3. /\ Cardinality(Live(replicas')) = Cardinality(Live(replicas)) + 1
          /\ Cardinality(Live(replicas)) \in Nat
          /\ SurgeCeiling(d) \in Nat
      BY <3>2, TrackedCensus, FS_AddElement DEF SafetyInv
    <3>. QED
      BY <1>1, <1>2, <3>1, <3>2, <3>3 DEF Room, Rolling
  <2>2. CASE replicas' = replicas /\ to_place' = to_place
    BY <1>1, <1>2, <2>2 DEF Room, Rolling
  <2>. QED
    BY <2>1, <2>2, DeployOutcome DEF SafetyInv
<1>. QED
  BY <1>1, <1>3 DEF TickInv, KillsLeaveEnough, ExcessExact, RoomToPlace, DoneStands

\* The rest of the tick and the environment touch nothing the invariant is about.
LEMMA QuietSafe ==
  ASSUME SafetyInv,
         Refresh \/ PlacementsDone \/ Advertise \/ Environment \/ UNCHANGED vars
  PROVE  TickInv'
<1>1. CASE Refresh \/ Advertise
  <2>1. pc' \in {"plan", "idle"}
    BY <1>1 DEF Refresh, Advertise
  <2>. QED
    BY <2>1 DEF TickInv, KillsLeaveEnough, ExcessExact, RoomToPlace, DoneStands
<1>2. CASE PlacementsDone
  <2>1. pc' = "advertise" /\ ~step'.done
    BY <1>2 DEF PlacementsDone, SafetyInv, TickInv, DoneStands
  <2>. QED
    BY <2>1 DEF TickInv, KillsLeaveEnough, ExcessExact, RoomToPlace, DoneStands
<1>3. CASE Environment \/ UNCHANGED vars
  <2>1. UNCHANGED tickVars /\ (gen' = gen \/ pc = "idle")
    BY <1>3 DEF Environment, JobStarts, JobEnds, HostSticks, DependencyLost,
       DependencyBack, RecordExpires, Apply, vars, meshVars, tickVars
  <2>2. CASE pc = "idle"
    <3>1. pc' = "idle"
      BY <2>1, <2>2 DEF tickVars
    <3>. QED
      BY <3>1 DEF TickInv, KillsLeaveEnough, ExcessExact, RoomToPlace, DoneStands
  <2>3. CASE gen' = gen
    <3>1. d' = d /\ target' = target
      BY <2>3 DEF d, target
    <3>. QED
      BY <2>1, <3>1 DEF tickVars, keptVars, killVars, placeVars, SafetyInv, TickInv,
         KillsLeaveEnough, ExcessExact, RoomToPlace, Room, Rolling, DoneStands
  <2>. QED
    BY <2>1, <2>2, <2>3
<1>. QED
  BY <1>1, <1>2, <1>3

\* The invariant of the tick holds always.
LEMMA SafetyInvariance == Spec => []SafetyInv
<1>1. Init => TickInv
  BY DEF Init, TickInv, KillsLeaveEnough, ExcessExact, RoomToPlace, DoneStands
<1>2. SafetyInv /\ [Next]_vars => TickInv'
  <2>. SUFFICES ASSUME SafetyInv, [Next]_vars PROVE TickInv'
    OBVIOUS
  <2>1. CASE Tick
    BY <2>1, PlanSafe, KillSafe, KillsDoneSafe, SubstituteSafe, RankSafe,
       DeploySafe, QuietSafe DEF Tick
  <2>2. CASE Environment \/ UNCHANGED vars
    BY <2>2, QuietSafe
  <2>. QED
    BY <2>1, <2>2 DEF Next
<1>. QED
  BY <1>1, <1>2, TypeInvariance, PTL DEF Spec, SafetyInv

----------------------------------------------------------------------------
(* The theorems *)

\* A replica becomes tracked only by a deploy, and is forgotten only by a kill.
LEMMA WhoPlaces ==
  ASSUME SafetyInv, [Next]_vars, Placed # {}
  PROVE  \E n \in Node : Deploy(n)
<1>1. Placed = {} <=> DOMAIN replicas' \subseteq DOMAIN replicas
  BY DEF Placed
<1>2. (Refresh \/ Plan \/ KillsDone \/ SubstitutesDone \/ Rank \/ PlacementsDone
         \/ Advertise \/ Environment \/ UNCHANGED vars) => Placed = {}
  BY <1>1 DEF Refresh, Plan, KillsDone, SubstitutesDone, Rank, PlacementsDone,
     Advertise, Environment, JobStarts, JobEnds, HostSticks, DependencyLost,
     DependencyBack, RecordExpires, Apply, vars, keptVars, tickVars
<1>3. \A j \in JobId : Kill(j) \/ Substitute(j) => Placed = {}
  BY <1>1 DEF Kill, Substitute, Killed, NotKilled, Forget
<1>. QED
  BY <1>2, <1>3 DEF Next, Tick

\* The tracked fleet loses a replica only by a kill that succeeds.
LEMMA WhoRetires ==
  ASSUME TypeInv, [Next]_vars, Retired # {}
  PROVE  \E j \in JobId : (Kill(j) \/ Substitute(j)) /\ Killed(j)
<1>1. Retired = {} <=> DOMAIN replicas \subseteq DOMAIN replicas'
  BY DEF Retired
<1>2. (Refresh \/ Plan \/ KillsDone \/ SubstitutesDone \/ Rank \/ PlacementsDone
         \/ Advertise \/ Environment \/ UNCHANGED vars) => Retired = {}
  BY <1>1 DEF Refresh, Plan, KillsDone, SubstitutesDone, Rank, PlacementsDone,
     Advertise, Environment, JobStarts, JobEnds, HostSticks, DependencyLost,
     DependencyBack, RecordExpires, Apply, vars, keptVars, tickVars
<1>3. \A n \in Node : Deploy(n) => Retired = {}
  BY <1>1 DEF Deploy, DeployOk, DeployErr
<1>4. \A j \in JobId : NotKilled(j) => Retired = {}
  BY <1>1 DEF NotKilled
<1>. QED
  BY <1>2, <1>3, <1>4 DEF Next, Tick, Kill, Substitute

\* No placement of a rolling update takes the tracked live replicas above
\* desired + max_surge (rollout.rs "Surge"; controller.rs, 4).
THEOREM SurgeTheorem == Spec => SurgeCeilingHeld
<1>1. SafetyInv /\ SafetyInv' /\ [Next]_vars =>
        [Rolling /\ Placed # {} =>
           Cardinality(Live(replicas')) <= SurgeCeiling(d)]_vars
  <2>. SUFFICES ASSUME SafetyInv, SafetyInv', [Next]_vars, Rolling, Placed # {}
                PROVE  Cardinality(Live(replicas')) <= SurgeCeiling(d)
    OBVIOUS
  <2>1. PICK n \in Node : Deploy(n)
    BY WhoPlaces
  <2>2. /\ to_place > 0 /\ to_place \in Nat /\ pc = "place"
        /\ Cardinality(Live(replicas)) + to_place <= SurgeCeiling(d)
    BY <2>1 DEF Deploy, SafetyInv, TickInv, RoomToPlace, Room, TypeInv, TypeOK
  <2>3. PICK j \in JobId :
            /\ j \notin DOMAIN replicas
            /\ replicas' = [i \in DOMAIN replicas \cup {j} |->
                 IF i = j THEN Started(n) ELSE replicas[i]]
    BY <2>1, DeployOutcome DEF SafetyInv, Placed
  <2>4. Live(replicas') = Live(replicas) \cup {j} /\ j \notin Live(replicas)
    BY <2>3 DEF Started, Live, Alive
  <2>5. /\ Cardinality(Live(replicas')) = Cardinality(Live(replicas)) + 1
        /\ Cardinality(Live(replicas)) \in Nat
        /\ SurgeCeiling(d) \in Nat
    BY <2>4, TrackedCensus, FS_AddElement DEF SafetyInv
  <2>. QED
    BY <2>2, <2>5
<1>. QED
  BY <1>1, SafetyInvariance, PTL DEF Spec, SurgeCeilingHeld

\* No kill the plan asked for takes the replicas known to be ready below
\* desired - max_unavailable (rollout.rs "Retire"; controller.rs, 3).
THEOREM PlannedKillsTheorem == Spec => PlannedKillsKeepFloor
<1>1. SafetyInv /\ SafetyInv' /\ [Next]_vars =>
        [Rolling /\ pc = "kill" /\ Retired \cap Ready(replicas) # {} =>
           Cardinality(Ready(replicas')) >= AvailabilityFloor(d)]_vars
  <2>. SUFFICES ASSUME SafetyInv, [Next]_vars, Rolling, pc = "kill",
                       Retired \cap Ready(replicas) # {}
                PROVE  Cardinality(Ready(replicas')) >= AvailabilityFloor(d)
    OBVIOUS
  <2>1. PICK j \in JobId : Kill(j) /\ Killed(j)
    BY WhoRetires DEF Substitute, SafetyInv
  <2>2. DOMAIN replicas' = DOMAIN replicas \ {j}
        /\ Ready(replicas') = Ready(replicas) \ {j}
    BY <2>1 DEF Killed, Forget, Ready
  <2>3. j \in kills \cap Ready(replicas)
    BY <2>1, <2>2 DEF Kill, Retired
  <2>4. Cardinality(Ready(replicas) \ kills) >= AvailabilityFloor(d)
    BY <2>3 DEF SafetyInv, TickInv, KillsLeaveEnough
  <2>5. /\ IsFiniteSet(Ready(replicas)) /\ AvailabilityFloor(d) \in Nat
    BY TrackedCensus DEF SafetyInv
  <2>6. /\ IsFiniteSet(Ready(replicas'))
        /\ Ready(replicas) \ kills \subseteq Ready(replicas')
    BY <2>2, <2>3, <2>5, FS_Subset
  <2>. QED
    BY <2>4, <2>5, <2>6, MoreIsLeft
<1>. QED
  BY <1>1, SafetyInvariance, PTL DEF Spec, PlannedKillsKeepFloor

\* No kill of a live replica of the target revision, planned or in place of a
\* failed one, takes them below desired (controller.rs, 3 and 3b).
THEOREM DesiredTheorem == Spec => NeverBelowDesired
<1>1. SafetyInv /\ SafetyInv' /\ [Next]_vars =>
        [Retired \cap NewLive(replicas, target) # {} =>
           Cardinality(NewLive(replicas', target)) >= d.replicas]_vars
  <2>. SUFFICES ASSUME SafetyInv, [Next]_vars,
                       Retired \cap NewLive(replicas, target) # {}
                PROVE  Cardinality(NewLive(replicas', target)) >= d.replicas
    OBVIOUS
  <2>1. PICK j \in JobId : (Kill(j) \/ Substitute(j)) /\ Killed(j)
    BY WhoRetires DEF SafetyInv
  <2>2. DOMAIN replicas' = DOMAIN replicas \ {j}
        /\ NewLive(replicas', target) = NewLive(replicas, target) \ {j}
    BY <2>1 DEF Killed, Forget, NewLive, Live
  <2>3. j \in NewLive(replicas, target)
    BY <2>2 DEF Retired
  <2>4. /\ IsFiniteSet(NewLive(replicas, target)) /\ d.replicas \in Nat
        /\ Cardinality(NewLive(replicas, target)) \in Nat
    BY TrackedCensus DEF SafetyInv
  <2>5. CASE Kill(j)
    <3>1. Cardinality(NewLive(replicas, target) \ kills) >= d.replicas
      BY <2>3, <2>5 DEF Kill, SafetyInv, TickInv, KillsLeaveEnough
    <3>2. /\ IsFiniteSet(NewLive(replicas', target))
          /\ NewLive(replicas, target) \ kills \subseteq NewLive(replicas', target)
      BY <2>2, <2>4, <2>5, FS_Subset DEF Kill
    <3>. QED
      BY <2>4, <3>1, <3>2, MoreIsLeft
  <2>6. CASE Substitute(j)
    <3>1. Cardinality(NewLive(replicas, target)) > d.replicas
      <4>1. /\ excess > 0
            /\ excess = Cardinality(NewLive(replicas, target)) - d.replicas
        BY <2>6 DEF Substitute, SafetyInv, TickInv, ExcessExact
      <4>. QED
        BY <2>4, <4>1
    <3>2. Cardinality(NewLive(replicas', target))
            = Cardinality(NewLive(replicas, target)) - 1
      BY <2>2, <2>3, <2>4, FS_RemoveElement
    <3>. QED
      BY <2>4, <3>1, <3>2
  <2>. QED
    BY <2>1, <2>5, <2>6
<1>. QED
  BY <1>1, SafetyInvariance, PTL DEF Spec, NeverBelowDesired

\* A tick that reports the rollout as done is right about what it tracks
\* (controller.rs, TickReport::done).
THEOREM DoneTheorem == Spec => []DoneMeansRolledOut
<1>1. SafetyInv => DoneMeansRolledOut
  <2>. SUFFICES ASSUME SafetyInv, RolledOut(d, replicas)
                PROVE  /\ Live(replicas) = NewReady(replicas, target)
                       /\ Cardinality(Live(replicas)) = d.replicas
    BY DEF DoneMeansRolledOut, SafetyInv, TickInv, DoneStands
  <2>1. /\ OldLive(replicas, target) = {}
        /\ Cardinality(NewLive(replicas, target)) = d.replicas
        /\ Cardinality(NewReady(replicas, target)) = d.replicas
    BY DEF RolledOut, target
  <2>2. /\ Live(replicas) = NewLive(replicas, target)
        /\ NewReady(replicas, target) \subseteq NewLive(replicas, target)
    BY <2>1 DEF Live, NewLive, OldLive, NewReady, Ready, Alive
  <2>3. NewReady(replicas, target) = NewLive(replicas, target)
    <3>1. IsFiniteSet(NewLive(replicas, target)) /\ d.replicas \in Nat
      BY TrackedCensus DEF SafetyInv
    <3>2. /\ IsFiniteSet(NewLive(replicas, target) \ NewReady(replicas, target))
          /\ Cardinality(NewLive(replicas, target) \ NewReady(replicas, target)) = 0
      BY <2>1, <2>2, <3>1, Remainder
    <3>. QED
      BY <2>2, <3>2, FS_EmptySet
  <2>. QED
    BY <2>1, <2>2, <2>3
<1>. QED
  BY <1>1, SafetyInvariance, PTL

----------------------------------------------------------------------------
(* What holds of the containers that really run, and which failures each    *)
(* promise survives: the tracked replicas are all there is as long as no    *)
(* deploy reply is lost; the surge ceiling and the one-revision rule hold   *)
(* of the mesh as long as no refresh fails either.                          *)

----------------------------------------------------------------------------
(* Handles *)

\* A container started by a deploy is the only one that starts to be alive.
LEMMA RunningChanges ==
  ASSUME TypeInv, [Next]_vars, NEW j \in JobId, Running(j)'
  PROVE  \/ Running(j)
         \/ \E n \in Node : Deploy(n) /\ mesh[j] = NoJob /\ mesh'[j] = Started(n)
<1>1. mesh \in [JobId -> Job \cup {NoJob}]
  BY DEF TypeInv, TypeOK
<1>2. (Refresh \/ Plan \/ KillsDone \/ SubstitutesDone \/ Rank \/ PlacementsDone
         \/ Advertise \/ UNCHANGED vars) => mesh' = mesh
  BY DEF Refresh, Plan, KillsDone, SubstitutesDone, Rank, PlacementsDone,
     Advertise, vars, meshVars
<1>3. mesh' = mesh => Running(j)
  BY DEF Running
<1>4. ASSUME NEW i \in JobId, Kill(i) \/ Substitute(i) PROVE Running(j)
  <2>1. \/ mesh' = mesh
        \/ mesh' = [mesh EXCEPT ![i] = NoJob]
        \/ Running(i) /\ mesh' = [mesh EXCEPT ![i].phase = "Failed"]
    BY <1>4 DEF Kill, Substitute, Killed, NotKilled
  <2>. QED
    BY <1>1, <2>1 DEF Running
<1>5. ASSUME NEW n \in Node, Deploy(n)
      PROVE  Running(j) \/ (mesh[j] = NoJob /\ mesh'[j] = Started(n))
  <2>1. \/ mesh' = mesh
        \/ \E i \in JobId : mesh[i] = NoJob /\ mesh' = [mesh EXCEPT ![i] = Started(n)]
    BY <1>5, DeployOutcome
  <2>. QED
    BY <1>1, <2>1 DEF Running
<1>6. CASE Environment
  <2>1. \/ mesh' = mesh
        \/ \E i \in JobId : /\ Running(i)
                            /\ \/ mesh' = [mesh EXCEPT ![i] = NoJob]
                               \/ \E p \in Phase : mesh' = [mesh EXCEPT ![i].phase = p]
    <3>1. \A i \in JobId : JobStarts(i) =>
            Running(i) /\ \E p \in Phase : mesh' = [mesh EXCEPT ![i].phase = p]
      <4>. SUFFICES ASSUME NEW i \in JobId, JobStarts(i)
                    PROVE  Running(i) /\ \E p \in Phase :
                             mesh' = [mesh EXCEPT ![i].phase = p]
        OBVIOUS
      <4>1. mesh[i].phase = "Pending" /\ mesh' = [mesh EXCEPT ![i].phase = "Running"]
        BY DEF JobStarts
      <4>2. NoJob.phase # "Pending"
        BY DEF NoJob
      <4>3. Running(i)
        BY <4>1, <4>2 DEF Running, Alive
      <4>4. "Running" \in Phase
        BY DEF Phase, Alive
      <4>. QED
        BY <4>1, <4>3, <4>4
    <3>2. \A i \in JobId : JobEnds(i) =>
            /\ Running(i)
            /\ \/ mesh' = [mesh EXCEPT ![i] = NoJob]
               \/ \E p \in Phase : mesh' = [mesh EXCEPT ![i].phase = p]
      BY ParameterAssumption DEF JobEnds, Phase
    <3>. QED
      BY <1>6, <3>1, <3>2 DEF Environment, HostSticks, DependencyLost,
         DependencyBack, RecordExpires, Apply
  <2>. QED
    BY <1>1, <2>1 DEF Running
<1>. QED
  BY <1>2, <1>3, <1>4, <1>5, <1>6 DEF Next, Tick

\* What a kill forgets no longer runs.
LEMMA ForgottenIsDead ==
  ASSUME TypeInv, [Next]_vars, NEW j \in DOMAIN replicas, j \notin DOMAIN replicas'
  PROVE  ~Running(j)'
<1>1. Retired # {}
  BY DEF Retired
<1>2. PICK i \in JobId : Killed(i)
  BY <1>1, WhoRetires
<1>3. i = j
  BY <1>2 DEF Killed, Forget
<1>. QED
  BY <1>2, <1>3 DEF Killed, Running, TypeInv, TypeOK

\* A deploy that starts a container either tracks it, or its reply was lost.
LEMMA StartedIsTracked ==
  ASSUME TypeInv, NEW n \in Node, Deploy(n), "deployReply" \notin Faults,
         NEW j \in JobId, mesh[j] = NoJob, mesh'[j] = Started(n)
  PROVE  j \in DOMAIN replicas' /\ replicas'[j] = Started(n)
<1>1. NoJob # Started(n)
  BY DEF NoJob, Started
<1>2. ~DeployErr(n)
  BY <1>1 DEF DeployErr, Suffer
<1>3. PICK i \in JobId : DeployOk(n, i)
  BY <1>2 DEF Deploy
<1>4. i = j
  BY <1>1, <1>3 DEF DeployOk, TypeInv, TypeOK
<1>. QED
  BY <1>3, <1>4 DEF DeployOk

\* The replicas are the source of truth for what was launched (controller.rs,
\* Controller): no container runs untracked, unless a deploy reply is lost.
THEOREM HandleTheorem == "deployReply" \notin Faults /\ Spec => []NoOrphan
<1>. SUFFICES ASSUME "deployReply" \notin Faults PROVE Spec => []NoOrphan
  OBVIOUS
<1>1. Init => NoOrphan
  BY DEF Init, NoOrphan, RunningJobs, Running
<1>2. TypeInv /\ NoOrphan /\ [Next]_vars => NoOrphan'
  <2>. SUFFICES ASSUME TypeInv, NoOrphan, [Next]_vars, NEW j \in JobId, Running(j)'
                PROVE  j \in DOMAIN replicas'
    BY DEF NoOrphan, RunningJobs
  <2>1. CASE Running(j)
    BY <2>1, ForgottenIsDead DEF NoOrphan, RunningJobs
  <2>2. CASE \E n \in Node : Deploy(n) /\ mesh[j] = NoJob /\ mesh'[j] = Started(n)
    BY <2>2, StartedIsTracked
  <2>. QED
    BY <2>1, <2>2, RunningChanges
<1>. QED
  BY <1>1, <1>2, TypeInvariance, PTL DEF Spec

----------------------------------------------------------------------------
(* Placements on the mesh *)

\* Between two refreshes a tracked replica stays as it is, is killed, or is new.
LEMMA BetweenRefreshes ==
  ASSUME TypeInv, [Next]_vars, ~Refresh
  PROVE  /\ refresh_failures' = refresh_failures
         /\ \A j \in DOMAIN replicas' :
              \/ /\ j \in DOMAIN replicas /\ replicas'[j] = replicas[j]
                 /\ unanswered'[j] = unanswered[j]
              \/ /\ j \notin DOMAIN refresh_failures /\ j \notin DOMAIN replicas
                 /\ replicas'[j].phase = "Pending"
<1>. DEFINE Goal == /\ refresh_failures' = refresh_failures
                    /\ \A j \in DOMAIN replicas' :
                         \/ /\ j \in DOMAIN replicas /\ replicas'[j] = replicas[j]
                            /\ unanswered'[j] = unanswered[j]
                         \/ /\ j \notin DOMAIN refresh_failures
                            /\ j \notin DOMAIN replicas
                            /\ replicas'[j].phase = "Pending"
<1>1. ASSUME NEW i \in JobId, Kill(i) \/ Substitute(i) PROVE Goal
  <2>1. refresh_failures' = refresh_failures /\ (Killed(i) \/ NotKilled(i))
    BY <1>1 DEF Kill, Substitute
  <2>2. CASE Killed(i)
    BY <2>1, <2>2 DEF Killed, Forget, TypeInv, TypeOK
  <2>3. CASE NotKilled(i)
    BY <2>1, <2>3 DEF NotKilled
  <2>. QED
    BY <2>1, <2>2, <2>3
<1>2. ASSUME NEW n \in Node, Deploy(n) PROVE Goal
  <2>1. refresh_failures' = refresh_failures /\ unanswered' = unanswered
    BY <1>2 DEF Deploy
  <2>2. CASE DeployErr(n)
    BY <2>1, <2>2 DEF DeployErr
  <2>3. ASSUME NEW i \in JobId, DeployOk(n, i) PROVE Goal
    <3>1. i \notin DOMAIN replicas
      <4>1. NoJob \notin Job
        BY DEF NoJob, Job, Phase, Alive, Terminal
      <4>. QED
        BY <2>3, <4>1 DEF DeployOk, Fresh, TypeInv, Handles
    <3>2. /\ DOMAIN replicas' = DOMAIN replicas \cup {i}
          /\ replicas'[i] = Started(n)
          /\ \A j \in DOMAIN replicas : replicas'[j] = replicas[j]
      BY <2>3, <3>1 DEF DeployOk
    <3>3. i \notin DOMAIN refresh_failures /\ Started(n).phase = "Pending"
      BY <2>3 DEF DeployOk, Fresh, Started
    <3>. QED
      BY <2>1, <3>1, <3>2, <3>3
  <2>. QED
    BY <1>2, <2>2, <2>3 DEF Deploy
<1>3. ASSUME UNCHANGED keptVars PROVE Goal
  BY <1>3 DEF keptVars
<1>4. (Plan \/ KillsDone \/ SubstitutesDone \/ Rank \/ PlacementsDone \/ Advertise
         \/ Environment \/ UNCHANGED vars) => UNCHANGED keptVars
  BY DEF Plan, KillsDone, SubstitutesDone, Rank, PlacementsDone, Advertise,
     Environment, JobStarts, JobEnds, HostSticks, DependencyLost, DependencyBack,
     RecordExpires, Apply, vars, tickVars, keptVars
<1>. QED
  BY <1>1, <1>2, <1>3, <1>4 DEF Next, Tick

\* Everything that runs is tracked as alive: no refresh failed, so nobody was
\* condemned.
RunningIsLive == RunningJobs \subseteq Live(replicas)

LEMMA RunningLiveInvariance ==
  ASSUME "deployReply" \notin Faults, "refresh" \notin Faults
  PROVE  Spec => []RunningIsLive
<1>1. Init => RunningIsLive
  BY DEF Init, RunningIsLive, RunningJobs, Running
<1>2. TypeInv /\ RunningIsLive /\ [Next]_vars => RunningIsLive'
  <2>. SUFFICES ASSUME TypeInv, RunningIsLive, [Next]_vars,
                       NEW j \in JobId, Running(j)'
                PROVE  j \in DOMAIN replicas' /\ replicas'[j].phase \in Alive
    BY DEF RunningIsLive, RunningJobs, Live
  <2>1. CASE Running(j)
    <3>1. j \in DOMAIN replicas /\ replicas[j].phase \in Alive
      BY <2>1 DEF RunningIsLive, RunningJobs, Live
    <3>2. j \in DOMAIN replicas'
      BY <3>1, ForgottenIsDead
    <3>3. CASE Refresh
      <4>1. /\ mesh' = mesh
            /\ replicas' = [i \in DOMAIN replicas |->
                 [replicas[i] EXCEPT !.phase = mesh[i].phase]]
        BY <3>3 DEF Refresh
      <4>. QED
        BY <2>1, <3>1, <3>2, <4>1 DEF Running, TypeInv, TypeOK, Replica
    <3>4. CASE ~Refresh
      <4>1. replicas'[j] = replicas[j]
        BY <3>1, <3>2, <3>4, BetweenRefreshes
      <4>. QED
        BY <3>1, <3>2, <4>1
    <3>. QED
      BY <3>3, <3>4
  <2>2. CASE \E n \in Node : Deploy(n) /\ mesh[j] = NoJob /\ mesh'[j] = Started(n)
    BY <2>2, StartedIsTracked DEF Started, Alive
  <2>. QED
    BY <2>1, <2>2, RunningChanges
<1>. QED
  BY <1>1, <1>2, TypeInvariance, PTL DEF Spec

\* The containers that start to run do so because a deploy was wanted, and they
\* are on the target revision as it will be tracked.
LEMMA NewRunning ==
  ASSUME SafetyInv, [Next]_vars, "deployReply" \notin Faults,
         RunningJobs' \ RunningJobs # {}
  PROVE  /\ Placed # {}
         /\ d' = d
         /\ Room(to_place) /\ to_place > 0
         /\ OldLive(replicas', target) = OldLive(replicas, target)
<1>1. PICK j \in JobId : Running(j)' /\ ~Running(j)
  BY DEF RunningJobs
<1>2. PICK n \in Node : Deploy(n) /\ mesh[j] = NoJob /\ mesh'[j] = Started(n)
  BY <1>1, RunningChanges DEF SafetyInv
<1>3. j \in DOMAIN replicas'
  BY <1>2, StartedIsTracked DEF SafetyInv
<1>4. NoJob \notin Job
  BY DEF NoJob, Job, Phase, Alive, Terminal
<1>5. j \notin DOMAIN replicas
  BY <1>2, <1>4 DEF SafetyInv, TypeInv, Handles
<1>6. gen' = gen /\ Room(to_place) /\ to_place > 0
  BY <1>2 DEF Deploy, SafetyInv, TickInv, RoomToPlace
<1>7. PICK i \in JobId :
        /\ i \notin DOMAIN replicas
        /\ replicas' = [k \in DOMAIN replicas \cup {i} |->
             IF k = i THEN Started(n) ELSE replicas[k]]
  BY <1>2, <1>3, <1>5, DeployOutcome DEF SafetyInv
<1>8. OldLive(replicas', target) = OldLive(replicas, target)
  BY <1>7 DEF Started, Live, OldLive, Alive
<1>. QED
  BY <1>3, <1>5, <1>6, <1>8 DEF Placed, d

\* The surge ceiling holds of what really runs, unless a refresh fails or a
\* deploy reply is lost (rollout.rs, "Surge").
THEOREM RunningCeilingTheorem ==
  "deployReply" \notin Faults /\ "refresh" \notin Faults
    => (Spec => RunningWithinCeiling)
<1>. SUFFICES ASSUME "deployReply" \notin Faults, "refresh" \notin Faults
              PROVE  Spec => RunningWithinCeiling
  OBVIOUS
<1>1. /\ SafetyInv /\ SafetyInv' /\ RunningIsLive' /\ [Next]_vars
      /\ [Rolling /\ Placed # {} =>
            Cardinality(Live(replicas')) <= SurgeCeiling(d)]_vars
      => [Rolling /\ RunningJobs' \ RunningJobs # {} =>
            Cardinality(RunningJobs') <= SurgeCeiling(d)]_vars
  <2>. SUFFICES ASSUME SafetyInv, SafetyInv', RunningIsLive', [Next]_vars, Rolling,
                       RunningJobs' \ RunningJobs # {},
                       [Rolling /\ Placed # {} =>
                          Cardinality(Live(replicas')) <= SurgeCeiling(d)]_vars
                PROVE  Cardinality(RunningJobs') <= SurgeCeiling(d)
    OBVIOUS
  <2>1. Placed # {}
    BY NewRunning
  <2>2. vars' # vars
    <3>1. DOMAIN replicas' # DOMAIN replicas
      BY <2>1 DEF Placed
    <3>. QED
      BY <3>1 DEF vars, keptVars
  <2>3. Cardinality(Live(replicas')) <= SurgeCeiling(d)
    BY <2>1, <2>2
  <2>4. SurgeCeiling(d) \in Nat
    BY TrackedCensus DEF SafetyInv
  <2>5. RunningJobs' \subseteq Live(replicas')
    BY DEF RunningIsLive
  <2>6. IsFiniteSet(Live(replicas'))
    <3>1. IsFiniteSet(DOMAIN replicas')
      BY DEF SafetyInv, TypeInv, TypeOK
    <3>2. Live(replicas') \subseteq DOMAIN replicas'
      BY DEF Live
    <3>. QED
      BY <3>1, <3>2, FS_Subset
  <2>7. /\ Cardinality(RunningJobs') <= Cardinality(Live(replicas'))
        /\ Cardinality(RunningJobs') \in Nat
        /\ Cardinality(Live(replicas')) \in Nat
    BY <2>5, <2>6, FS_Subset, FS_CardinalityType
  <2>. QED
    BY <2>3, <2>4, <2>7
<1>. QED
  BY <1>1, SafetyInvariance, SurgeTheorem, RunningLiveInvariance, PTL
     DEF Spec, SurgeCeilingHeld, RunningWithinCeiling

\* Under Recreate one revision runs at a time, unless a refresh fails or a deploy
\* reply is lost (spec.rs, Strategy; rollout.rs, plan_recreate).
THEOREM OneRevisionTheorem ==
  "deployReply" \notin Faults /\ "refresh" \notin Faults
    => (Spec => OneRevisionAtOnce)
<1>. SUFFICES ASSUME "deployReply" \notin Faults, "refresh" \notin Faults
              PROVE  Spec => OneRevisionAtOnce
  OBVIOUS
<1>1. SafetyInv /\ SafetyInv' /\ RunningIsLive' /\ [Next]_vars
      => [d.strategy = "Recreate" /\ RunningJobs' \ RunningJobs # {} =>
            \A i, j \in RunningJobs' : mesh'[i].revision = mesh'[j].revision]_vars
  <2>. SUFFICES ASSUME SafetyInv, SafetyInv', RunningIsLive', [Next]_vars,
                       d.strategy = "Recreate", RunningJobs' \ RunningJobs # {},
                       NEW j \in RunningJobs'
                PROVE  mesh'[j].revision = target
    OBVIOUS
  <2>1. OldLive(replicas', target) = {}
    <3>1. ~Rolling
      BY DEF Rolling
    <3>. QED
      BY <3>1, NewRunning DEF Room
  <2>2. j \in Live(replicas')
    BY DEF RunningIsLive
  <2>3. replicas'[j].revision = target
    BY <2>1, <2>2 DEF OldLive
  <2>4. mesh'[j].revision = replicas'[j].revision
    BY <2>2 DEF SafetyInv, TypeInv, Handles, Live
  <2>. QED
    BY <2>3, <2>4
<1>. QED
  BY <1>1, SafetyInvariance, RunningLiveInvariance, PTL
     DEF Spec, OneRevisionAtOnce

----------------------------------------------------------------------------
(* Bounded retry *)

\* The counter of a tracked replica never runs ahead of the refreshes that
\* really failed in a row, and what was condemned had failed often enough.
CountersHonest ==
  /\ \A j \in DOMAIN replicas \cap DOMAIN refresh_failures :
        refresh_failures[j] <= unanswered[j]
  /\ CondemnedOnlyAfterThreshold

\* A replica whose container lives is condemned only after FailureThreshold
\* refreshes in a row failed (controller.rs, refresh).
THEOREM BoundedRetryTheorem == Spec => []CondemnedOnlyAfterThreshold
<1>1. Init => CountersHonest
  BY DEF Init, CountersHonest, CondemnedOnlyAfterThreshold
<1>2. TypeInv /\ CountersHonest /\ [Next]_vars => CountersHonest'
  <2>. SUFFICES ASSUME TypeInv, CountersHonest, [Next]_vars PROVE CountersHonest'
    OBVIOUS
  <2>1. CASE Refresh
    <3>1. PICK missed \in SUBSET DOMAIN replicas :
        /\ replicas' = [j \in DOMAIN replicas |->
             [replicas[j] EXCEPT !.phase =
                IF j \in missed THEN MissedPhase(j) ELSE mesh[j].phase]]
        /\ refresh_failures' = CountMisses(missed)
        /\ unanswered' = [j \in JobId |->
             IF j \in missed THEN unanswered[j] + 1 ELSE 0]
        /\ mesh' = mesh
      BY <2>1 DEF Refresh
    <3>2. DOMAIN replicas' = DOMAIN replicas /\ missed \subseteq JobId
      BY <3>1 DEF TypeInv, TypeOK
    <3>3. \A j \in missed : /\ Misses(j) \in Nat /\ unanswered[j] \in Nat
                            /\ Misses(j) <= unanswered[j]
      BY <3>2 DEF Misses, CountersHonest, TypeInv, TypeOK
    <3>4. \A j \in missed : /\ refresh_failures'[j] = Misses(j) + 1
                            /\ unanswered'[j] = unanswered[j] + 1
      BY <3>1, <3>2 DEF CountMisses
    <3>5. DOMAIN refresh_failures' = missed
      BY <3>1 DEF CountMisses
    <3>6. ASSUME NEW j \in DOMAIN replicas', Running(j)',
                 replicas'[j].phase \in Terminal
          PROVE  unanswered'[j] >= FailureThreshold
      <4>1. Running(j)
        BY <3>1, <3>6 DEF Running
      <4>2. replicas'[j].phase
              = IF j \in missed THEN MissedPhase(j) ELSE mesh[j].phase
        BY <3>1, <3>2 DEF TypeInv, TypeOK, Replica
      <4>3. j \in missed
        BY <3>6, <4>1, <4>2 DEF Running, Alive, Terminal
      <4>4. CASE Misses(j) + 1 >= (IF FailureThreshold > 1 THEN FailureThreshold
                                                          ELSE 1)
        BY <3>3, <3>4, <4>3, <4>4, ParameterAssumption
      <4>5. CASE replicas'[j].phase = replicas[j].phase
        <5>1. unanswered[j] >= FailureThreshold
          BY <3>2, <3>6, <4>1, <4>5 DEF CountersHonest, CondemnedOnlyAfterThreshold
        <5>. QED
          BY <3>3, <3>4, <4>3, <5>1, ParameterAssumption
      <4>. QED
        BY <4>2, <4>3, <4>4, <4>5 DEF MissedPhase
    <3>. QED
      BY <3>3, <3>4, <3>5, <3>6 DEF CountersHonest, CondemnedOnlyAfterThreshold
  <2>2. CASE ~Refresh
    <3>1. refresh_failures' = refresh_failures
      BY <2>2, BetweenRefreshes
    <3>2. \A j \in DOMAIN replicas' :
            \/ /\ j \in DOMAIN replicas /\ replicas'[j] = replicas[j]
               /\ unanswered'[j] = unanswered[j]
            \/ j \notin DOMAIN refresh_failures /\ replicas'[j].phase = "Pending"
      BY <2>2, BetweenRefreshes
    <3>3. ASSUME NEW j \in DOMAIN replicas', Running(j)',
                 replicas'[j].phase \in Terminal
          PROVE  unanswered'[j] >= FailureThreshold
      <4>1. /\ j \in DOMAIN replicas /\ replicas'[j] = replicas[j]
            /\ unanswered'[j] = unanswered[j]
        BY <3>2, <3>3 DEF Terminal
      <4>2. CASE Running(j)
        BY <3>3, <4>1, <4>2 DEF CountersHonest, CondemnedOnlyAfterThreshold
      <4>3. CASE mesh[j] = NoJob
        <5>1. NoJob \notin Job
          BY DEF NoJob, Job, Phase, Alive, Terminal
        <5>. QED
          BY <4>1, <4>3, <5>1 DEF TypeInv, Handles
      <4>. QED
        BY <3>3, <4>1, <4>2, <4>3, RunningChanges DEF TypeInv, TypeOK
    <3>. QED
      BY <3>1, <3>2, <3>3 DEF CountersHonest, CondemnedOnlyAfterThreshold
  <2>. QED
    BY <2>1, <2>2
<1>3. CountersHonest => CondemnedOnlyAfterThreshold
  BY DEF CountersHonest
<1>. QED
  BY <1>1, <1>2, <1>3, TypeInvariance, PTL DEF Spec

----------------------------------------------------------------------------
(* Placements that fall short *)

\* What was tried is what was placed and who has rejected: r hosts were ranked for
\* w replicas.
Counted(w, r) ==
  /\ to_place <= w
  /\ Cardinality(candidates) <= r
  /\ attempts_left = (IF 4 * w > r + 1 THEN 4 * w ELSE r + 1)
                       - (w - to_place) - (r - Cardinality(candidates))

PlacementsCounted ==
  /\ pc # "advertise" => place_failures = 0
  /\ pc \notin {"place", "advertise"} => to_place = 0
  /\ pc = "place" => \E r \in 0..Cardinality(Node) : Counted(step.to_place, r)

ShortfallInv == PlacementsCounted /\ ShortfallReported

\* Sets of hosts are finite, and have one member less without one of them.
LEMMA HostCensus ==
  ASSUME NEW C \in SUBSET Node
  PROVE  /\ IsFiniteSet(C)
         /\ Cardinality(C) \in 0..Cardinality(Node)
         /\ Cardinality(Node) \in Nat
         /\ \A n \in C : Cardinality(C \ {n}) = Cardinality(C) - 1
<1>1. IsFiniteSet(C) /\ Cardinality(C) <= Cardinality(Node)
  BY ParameterAssumption, FS_Subset
<1>. QED
  BY <1>1, ParameterAssumption, FS_CardinalityType, FS_RemoveElement

\* With at most three hosts for each replica, or with one replica wanted, the hosts
\* run out first.
LEMMA HostsRunOutFirst ==
  ASSUME NEW w \in Nat, NEW r \in Nat, r <= 3 * w \/ w <= 1,
         NEW p \in Nat, p > 0, p <= w,
         NEW left \in Nat,
         left = (IF 4 * w > r + 1 THEN 4 * w ELSE r + 1) - (w - p) - r
  PROVE  left > 0
OBVIOUS

\* An attempt places a replica or loses a host, and is counted.
LEMMA DeployCounts ==
  ASSUME TypeInv, ShortfallInv, NEW n \in Node, Deploy(n)
  PROVE  ShortfallInv'
<1>1. /\ pc = "place" /\ pc' = "place" /\ step' = step
      /\ place_failures' = place_failures
      /\ attempts_left' = attempts_left - 1
      /\ to_place > 0 /\ n \in candidates
  BY DEF Deploy
<1>2. PICK r \in 0..Cardinality(Node) : Counted(step.to_place, r)
  BY <1>1 DEF ShortfallInv, PlacementsCounted
<1>3. /\ to_place \in Nat /\ attempts_left \in Nat /\ step.to_place \in Nat
      /\ candidates \in SUBSET Node
  BY DEF TypeInv, TypeOK
<1>4. /\ Cardinality(candidates) \in Nat
      /\ Cardinality(candidates \ {n}) = Cardinality(candidates) - 1
      /\ r \in Nat
  BY <1>1, <1>3, HostCensus
<1>5. \/ to_place' = to_place - 1 /\ candidates' = candidates
      \/ to_place' = to_place /\ candidates' = candidates \ {n}
  BY DEF Deploy, DeployOk, DeployErr
<1>6. Counted(step.to_place, r)'
  <2>1. CASE to_place' = to_place - 1 /\ candidates' = candidates
    BY <1>1, <1>2, <1>3, <1>4, <2>1 DEF Counted
  <2>2. CASE to_place' = to_place /\ candidates' = candidates \ {n}
    BY <1>1, <1>2, <1>3, <1>4, <2>2 DEF Counted
  <2>. QED
    BY <1>5, <2>1, <2>2
<1>. QED
  BY <1>1, <1>2, <1>6 DEF ShortfallInv, PlacementsCounted, ShortfallReported

\* Where the loop ends, what is left over has been reported.
LEMMA DoneCounts ==
  ASSUME TypeInv, ShortfallInv, PlacementsDone
  PROVE  ShortfallInv'
<1>1. /\ pc = "place" /\ pc' = "advertise" /\ step' = step /\ to_place' = to_place
      /\ place_failures = 0
  BY DEF PlacementsDone, ShortfallInv, PlacementsCounted
<1>2. PICK r \in 0..Cardinality(Node) : Counted(step.to_place, r)
  BY <1>1 DEF ShortfallInv, PlacementsCounted
<1>3. /\ to_place \in Nat /\ attempts_left \in Nat /\ step.to_place \in Nat
      /\ candidates \in SUBSET Node /\ Cardinality(Node) \in Nat /\ r \in Nat
  BY HostCensus DEF TypeInv, TypeOK
<1>4. ASSUME HostsEndFirst, to_place > 0, attempts_left = 0
      PROVE  candidates # {}
  <2>. SUFFICES ASSUME candidates = {}
                PROVE  FALSE
    OBVIOUS
  <2>1. Cardinality(candidates) = 0
    BY FS_EmptySet
  <2>2. to_place <= step.to_place
    BY <1>2 DEF Counted
  <2>3. attempts_left = (IF 4 * step.to_place > r + 1 THEN 4 * step.to_place ELSE r + 1)
                          - (step.to_place - to_place) - r
    BY <1>2, <1>3, <2>1 DEF Counted
  <2>4. r <= 3 * step.to_place \/ step.to_place <= 1
    BY <1>3, <1>4 DEF HostsEndFirst
  <2>. QED
    BY <1>3, <1>4, <2>2, <2>3, <2>4, HostsRunOutFirst
<1>5. HostsEndFirst => place_failures' = to_place
  BY <1>1, <1>3, <1>4 DEF PlacementsDone
<1>. QED
  BY <1>1, <1>5 DEF ShortfallInv, PlacementsCounted, ShortfallReported, HostsEndFirst

\* place_failures (controller.rs, TickReport): in a mesh of at most three hosts for
\* each replica that a tick wants, and whenever it wants one at most, what is not
\* placed is reported. (With seven hosts and two replicas the attempts and the hosts
\* can run out together.)
THEOREM ShortfallTheorem == Spec => []ShortfallReported
<1>1. Init => ShortfallInv
  BY DEF Init, ShortfallInv, PlacementsCounted, ShortfallReported
<1>2. TypeInv /\ ShortfallInv /\ [Next]_vars => ShortfallInv'
  <2>. SUFFICES ASSUME TypeInv, ShortfallInv, [Next]_vars PROVE ShortfallInv'
    OBVIOUS
  <2>1. ASSUME NEW n \in Node, Deploy(n) PROVE ShortfallInv'
    BY <2>1, DeployCounts
  <2>2. CASE PlacementsDone
    BY <2>2, DoneCounts
  <2>3. CASE Rank
    <3>1. CASE step.to_place > 0 /\ gate_ready
      <4>1. /\ pc' = "place" /\ to_place' = step.to_place /\ step' = step
            /\ place_failures' = 0 /\ candidates' \in SUBSET Node
            /\ attempts_left' = MaxAttempts(step.to_place, candidates')
        BY <2>3, <3>1 DEF Rank, ShortfallInv, PlacementsCounted, TypeInv, TypeOK
      <4>2. /\ Cardinality(candidates') \in 0..Cardinality(Node)
            /\ step.to_place \in Nat /\ Cardinality(Node) \in Nat
        BY <4>1, HostCensus DEF TypeInv, TypeOK
      <4>3. Counted(step.to_place, Cardinality(candidates))'
        BY <4>1, <4>2 DEF Counted, MaxAttempts
      <4>. QED
        BY <4>1, <4>2, <4>3 DEF ShortfallInv, PlacementsCounted, ShortfallReported
    <3>2. CASE ~(step.to_place > 0 /\ gate_ready)
      <4>1. /\ pc' = "advertise" /\ to_place' = 0 /\ place_failures' = 0
        BY <2>3, <3>2 DEF Rank, ShortfallInv, PlacementsCounted
      <4>. QED
        BY <4>1 DEF ShortfallInv, PlacementsCounted, ShortfallReported
    <3>. QED
      BY <3>1, <3>2
  <2>4. CASE Advertise
    BY <2>4 DEF Advertise, ShortfallInv, PlacementsCounted, ShortfallReported
  <2>5. CASE \/ Refresh \/ Plan \/ KillsDone \/ SubstitutesDone
             \/ \E j \in JobId : Kill(j) \/ Substitute(j)
    <3>1. /\ pc \notin {"place", "advertise"} /\ pc' \notin {"place", "advertise"}
          /\ UNCHANGED placeVars
      BY <2>5 DEF Refresh, Plan, KillsDone, SubstitutesDone, Kill, Substitute
    <3>. QED
      BY <3>1 DEF placeVars, ShortfallInv, PlacementsCounted, ShortfallReported
  <2>6. CASE Environment \/ UNCHANGED vars
    <3>1. UNCHANGED <<pc, step, placeVars>>
      BY <2>6 DEF Environment, JobStarts, JobEnds, HostSticks, DependencyLost,
         DependencyBack, RecordExpires, Apply, tickVars, vars
    <3>. QED
      BY <3>1 DEF placeVars, ShortfallInv, PlacementsCounted, ShortfallReported,
         Counted, HostsEndFirst
  <2>. QED
    BY <2>1, <2>2, <2>3, <2>4, <2>5, <2>6 DEF Next, Tick
<1>3. ShortfallInv => ShortfallReported
  BY DEF ShortfallInv
<1>. QED
  BY <1>1, <1>2, <1>3, TypeInvariance, PTL DEF Spec

=============================================================================
