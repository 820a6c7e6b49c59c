------------------------------ MODULE Placement ------------------------------
(***************************************************************************)
(* src/src/placement.rs, and the placement loop of Controller::tick         *)
(* (src/src/controller.rs) around it: hosts of one atlas snapshot are       *)
(* filtered, scored and ranked, and the replicas of one tick go to the best *)
(* one left at a time.                                                      *)
(*                                                                          *)
(* Numbers that are u32 in the code have the width of Modulus here; the     *)
(* memory a deployment asks for is u64 there and unbounded here. Hosts are  *)
(* numbered in the order of their node ids.                                 *)
(***************************************************************************)
EXTENDS Integers, Sequences, FiniteSets, SequencesExt

CONSTANTS
  Modulus,   \* 2^32 in the code
  Atlases,   \* atlas snapshots: sequences of entries
  Requests,  \* deployments: [cpu_cores, mem_mb, select]
  MaxPlaced  \* replicas that one tick may have to place

AtLeast(n, k) == IF n > k THEN n ELSE k

saturating_mul(a, b) == IF a * b < Modulus THEN a * b ELSE Modulus - 1

\* A slip: u32 subtraction that wraps around.
wrapping_sub(a, b) == (a - b) % Modulus

saturating_sub(a, b) == IF a > b THEN a - b ELSE 0

\* mem_mb as u32.
mem_of(d) == d.mem_mb % Modulus

----------------------------------------------------------------------------
(* placement.rs *)

required_tags(d) == {"docker"} \cup d.select

host_matches_tags(h, tags) == tags \subseteq h.tags

\* Every running job of the host is charged as one replica of d.
free_capacity(h, d) ==
  [cpu |-> saturating_sub(h.cpu_cores, saturating_mul(h.running_jobs, AtLeast(d.cpu_cores, 1))),
   mem |-> saturating_sub(h.mem_mb, saturating_mul(h.running_jobs, AtLeast(mem_of(d), 1)))]

host_can_fit(h, d) ==
  /\ host_matches_tags(h, required_tags(d))
  /\ free_capacity(h, d).cpu >= d.cpu_cores
  /\ free_capacity(h, d).mem >= mem_of(d)

score_host(h, d) ==
  free_capacity(h, d).cpu * 100 + free_capacity(h, d).mem - h.running_jobs * 50

\* rank: the hosts of which capacity has been heard lately and that can fit d,
\* with their scores.
Candidates(atlas, d) == {i \in 1..Len(atlas) : atlas[i].fresh /\ host_can_fit(atlas[i], d)}

Scores(atlas, d) == [i \in Candidates(atlas, d) |-> score_host(atlas[i], d)]

----------------------------------------------------------------------------
(* Step 4 of Controller::tick *)

VARIABLES
  atlas,
  d,           \* the deployment
  wanted,      \* step.to_place
  candidates,  \* the hosts still in question: host -> score
  to_place,
  attempts,
  placed,      \* replicas that each host has taken in this tick
  rejected,    \* hosts that have rejected one
  place_failures,
  ended        \* the step is over

vars == <<atlas, d, wanted, candidates, to_place, attempts, placed, rejected,
          place_failures, ended>>
inputs == <<atlas, d, wanted>>

Init ==
  /\ atlas \in Atlases
  /\ d \in Requests
  /\ wanted \in 1..MaxPlaced
  /\ candidates = Scores(atlas, d)
  /\ to_place = wanted
  /\ attempts = 0
  /\ placed = [i \in 1..Len(atlas) |-> 0]
  /\ rejected = {}
  /\ place_failures = 0
  /\ ended = FALSE

\* The order of the sort: the higher score, then the lower node id.
Before(i, j) ==
  \/ candidates[i] > candidates[j]
  \/ candidates[i] = candidates[j] /\ i < j

Best(i) ==
  /\ i \in DOMAIN candidates
  /\ \A j \in DOMAIN candidates \ {i} : Before(i, j)

\* A slip: four attempts for every replica, however many hosts there are.
FourPerReplica == wanted * 4

\* A slip: no attempt is left to notice that every host has said no.
OneForEachHost == AtLeast(wanted * 4, Cardinality(Candidates(atlas, d)))

MaxAttempts == AtLeast(wanted * 4, Cardinality(Candidates(atlas, d)) + 1)

Attempt ==
  /\ ~ended
  /\ to_place > 0
  /\ attempts < MaxAttempts
  /\ attempts' = attempts + 1
  /\ UNCHANGED inputs

Penalized(i) == [candidates EXCEPT ![i] = @ - 150]

Accepts(i) ==
  /\ Attempt
  /\ Best(i)
  /\ to_place' = to_place - 1
  /\ placed' = [placed EXCEPT ![i] = @ + 1]
  /\ candidates' = Penalized(i)
  /\ UNCHANGED <<rejected, place_failures, ended>>

Rejects(i) ==
  /\ Attempt
  /\ Best(i)
  /\ candidates' = [j \in DOMAIN candidates \ {i} |-> candidates[j]]
  /\ rejected' = rejected \cup {i}
  /\ UNCHANGED <<to_place, placed, place_failures, ended>>

\* The break of the loop.
NobodyLeft ==
  /\ Attempt
  /\ candidates = <<>>
  /\ place_failures' = place_failures + to_place
  /\ ended' = TRUE
  /\ UNCHANGED <<candidates, to_place, placed, rejected>>

\* The end of the loop by its condition, and what follows it.
LoopEnds ==
  /\ ~ended
  /\ to_place = 0 \/ attempts >= MaxAttempts
  /\ place_failures' = place_failures + (IF candidates # <<>> THEN to_place ELSE 0)
  /\ ended' = TRUE
  /\ UNCHANGED <<inputs, candidates, to_place, attempts, placed, rejected>>

Next ==
  \/ \E i \in DOMAIN candidates : Accepts(i) \/ Rejects(i)
  \/ NobodyLeft
  \/ LoopEnds

Spec == Init /\ [][Next]_vars

----------------------------------------------------------------------------
(* Properties *)

\* "More free capacity and fewer running jobs never lowers the score"
\* (score_host), also where the arithmetic is at the end of its range.
ScoreIsMonotone ==
  \A i, j \in 1..Len(atlas) :
    LET h == atlas[i]  g == atlas[j]
    IN  /\ h.cpu_cores >= g.cpu_cores
        /\ h.mem_mb >= g.mem_mb
        /\ h.running_jobs <= g.running_jobs
        => score_host(h, d) >= score_host(g, d)

\* "The next-best host is tried; if none can take it, the shortfall is
\* reported" (src/README.md): a tick with one or two replicas to place that
\* leaves one unplaced has asked every host it had ranked. With more replicas
\* than that, the attempts may be used up before.
EveryHostAsked ==
  ended /\ to_place > 0 /\ wanted <= 2 =>
    \A i \in Candidates(atlas, d) : i \in rejected \/ placed[i] > 0

\* The last attempt cannot drop the last host.
HostsEndFirst == wanted <= 1 \/ Cardinality(Candidates(atlas, d)) <= 3 * wanted

\* "Placements that failed (no candidate, or every candidate rejected) - surfaced"
\* (TickReport::place_failures): what is not placed is reported, whether the hosts
\* have run out or the attempts. Where both may run out with the same attempt, it
\* need not be.
ShortfallReported == ended /\ HostsEndFirst => place_failures = to_place

=============================================================================
