---------------------------- MODULE DeploysProofs ----------------------------
(***************************************************************************)
(* Proofs about one deployment on its way to a host (MCDeploys): its grant   *)
(* (Grants), the hosts that are asked (Placement), for any number of hosts   *)
(* of any size, and its command (Manifest), for every manifest.              *)
(***************************************************************************)
EXTENDS MCDeploys, FiniteSetTheorems, SequenceTheorems, WellFoundedInduction, TLAPS

----------------------------------------------------------------------------
(* The grant *)

\* A refusal is about something that every host asks for, and that time does not
\* bring back.
RefusalHolds ==
  /\ verdict \in [kind : {"none", "refused", "applied", "deleted", "forced", "kept"},
                  grant : G!Given]
  /\ verdict.kind = "refused" =>
       ~(/\ me = verdict.grant.audience
         /\ "deploy" \in verdict.grant.abilities
         /\ verdict.grant.tag = NoTag
         /\ now <= verdict.grant.not_after)

\* A refusal stays what it is, whatever happens.
LEMMA RefusalStep ==
  ASSUME RefusalHolds, [G!Next]_(G!vars)
  PROVE  RefusalHolds'
<1>1. ASSUME NEW g \in G!Given, NEW reachable \in BOOLEAN, G!Apply(g, reachable)
      PROVE  RefusalHolds'
  <2>1. CASE reachable /\ g # None /\ ~G!preflight(g)
    <3>1. verdict' = [kind |-> "refused", grant |-> g] /\ now' = now
      BY <1>1, <2>1 DEF G!Apply
    <3>2. ~(/\ me = g.audience /\ "deploy" \in g.abilities /\ g.tag = NoTag
            /\ now <= g.not_after)
      BY <2>1 DEF G!preflight, G!authorize
    <3> QED
      BY <3>1, <3>2 DEF RefusalHolds
  <2>2. CASE ~(reachable /\ g # None /\ ~G!preflight(g))
    <3>1. verdict' = [kind |-> "applied", grant |-> g]
      BY <1>1, <2>2 DEF G!Apply
    <3> QED
      BY <3>1 DEF RefusalHolds
  <2> QED
    BY <2>1, <2>2
<1>2. ASSUME NEW g \in G!Given, NEW force \in BOOLEAN, G!Delete(g, force)
      PROVE  RefusalHolds'
  <2>1. \E k \in {"deleted", "forced", "kept"} : verdict' = [kind |-> k, grant |-> g]
    BY <1>2 DEF G!Delete
  <2> QED
    BY <2>1 DEF RefusalHolds
<1>3. ASSUME verdict' = [verdict EXCEPT !.kind = "none"] PROVE RefusalHolds'
  BY <1>3 DEF RefusalHolds
<1>4. CASE UNCHANGED <<now, verdict>>
  BY <1>4 DEF RefusalHolds
<1> QED
  BY <1>1, <1>2, <1>3, <1>4
     DEF G!Next, G!Place, G!TimePasses, G!Revoke, G!vars

\* "Returns Ok(()) if it would be accepted" (preflight): a grant for any host that
\* is refused is honored by no host, whatever its roots and tags, also later.
THEOREM RefusedTheorem == G!Spec => []RefusedForCause
<1>1. G!Init => RefusalHolds
  BY DEF G!Init, RefusalHolds, G!Given
<1>2. RefusalHolds => RefusedForCause
  BY DEF RefusalHolds, RefusedForCause, G!RefusedForCause, G!Honors, G!authorize
<1> QED
  BY <1>1, <1>2, RefusalStep, PTL DEF G!Spec

----------------------------------------------------------------------------
(* The score *)

\* The product by a fixed number keeps the order, also where it saturates.
LEMMA ProductKeepsOrder ==
  ASSUME NEW a \in Nat, NEW b \in Nat, NEW x \in Nat, a <= b
  PROVE  /\ P!saturating_mul(a, x) \in Nat /\ P!saturating_mul(b, x) \in Nat
         /\ P!saturating_mul(a, x) <= P!saturating_mul(b, x)
<1>1. a * x \in Nat /\ b * x \in Nat
  OBVIOUS
<1>2. a * x <= b * x
  <2>1. PICK c \in Nat : b = a + c
    <3>1. b - a \in Nat /\ b = a + (b - a)
      OBVIOUS
    <3> QED
      BY <3>1
  <2>2. (a + c) * x = a * x + c * x /\ c * x \in Nat
    OBVIOUS
  <2> QED
    BY <1>1, <2>1, <2>2
<1>3. Modulus \in Nat /\ Modulus > 0
  BY PlacementAssumption
<1> DEFINE p == a * x
           q == b * x
<1> HIDE DEF p, q
<1>4. p \in Nat /\ q \in Nat /\ p <= q
  BY <1>1, <1>2 DEF p, q
<1>5. /\ P!saturating_mul(a, x) = IF p < Modulus THEN p ELSE Modulus - 1
      /\ P!saturating_mul(b, x) = IF q < Modulus THEN q ELSE Modulus - 1
  BY DEF P!saturating_mul, p, q
<1> QED
  BY <1>3, <1>4, <1>5

\* What is left is more of more, and of a smaller part taken away.
LEMMA RestKeepsOrder ==
  ASSUME NEW a \in Nat, NEW b \in Nat, NEW c \in Nat, NEW e \in Nat, a >= b, c <= e
  PROVE  /\ P!saturating_sub(a, c) \in Nat /\ P!saturating_sub(b, e) \in Nat
         /\ P!saturating_sub(a, c) >= P!saturating_sub(b, e)
BY DEF P!saturating_sub

Sized == atlas \in Atlases /\ request \in Requests

\* "More free capacity and fewer running jobs never lowers the score" (score_host),
\* for numbers of any width, also where a product does not fit.
THEOREM ScoreTheorem == P!Spec => []ScoreIsMonotone
<1>1. Sized => ScoreIsMonotone
  <2> SUFFICES ASSUME Sized, NEW i \in 1..Len(atlas), NEW j \in 1..Len(atlas),
                      atlas[i].cpu_cores >= atlas[j].cpu_cores,
                      atlas[i].mem_mb >= atlas[j].mem_mb,
                      atlas[i].running_jobs <= atlas[j].running_jobs
               PROVE  P!score_host(atlas[i], request) >= P!score_host(atlas[j], request)
    BY DEF ScoreIsMonotone, P!ScoreIsMonotone
  <2> DEFINE h == atlas[i]
             g == atlas[j]
             cpu == P!AtLeast(request.cpu_cores, 1)
             mem == P!AtLeast(P!mem_of(request), 1)
  <2>1. /\ h.cpu_cores \in Nat /\ h.mem_mb \in Nat /\ h.running_jobs \in Nat
        /\ g.cpu_cores \in Nat /\ g.mem_mb \in Nat /\ g.running_jobs \in Nat
    BY PlacementAssumption DEF Sized, Word
  <2>2. cpu \in Nat /\ mem \in Nat
    <3>1. request.cpu_cores \in Nat /\ request.mem_mb \in Nat /\ Modulus \in Nat \ {0}
      BY PlacementAssumption DEF Sized, Word
    <3>2. P!mem_of(request) \in Nat
      BY <3>1 DEF P!mem_of
    <3> QED
      BY <3>1, <3>2 DEF P!AtLeast
  <2>3. /\ P!saturating_mul(h.running_jobs, cpu) \in Nat
        /\ P!saturating_mul(g.running_jobs, cpu) \in Nat
        /\ P!saturating_mul(h.running_jobs, cpu) <= P!saturating_mul(g.running_jobs, cpu)
        /\ P!saturating_mul(h.running_jobs, mem) \in Nat
        /\ P!saturating_mul(g.running_jobs, mem) \in Nat
        /\ P!saturating_mul(h.running_jobs, mem) <= P!saturating_mul(g.running_jobs, mem)
    <3> HIDE DEF cpu, mem
    <3> QED
      BY <2>1, <2>2, ProductKeepsOrder
  <2> DEFINE of(e) == P!free_capacity(e, request)
  <2>4. /\ of(h).cpu \in Nat /\ of(g).cpu \in Nat /\ of(h).cpu >= of(g).cpu
        /\ of(h).mem \in Nat /\ of(g).mem \in Nat /\ of(h).mem >= of(g).mem
    BY <2>1, <2>3, RestKeepsOrder DEF P!free_capacity
  <2>5. /\ P!score_host(h, request) = of(h).cpu * 100 + of(h).mem - h.running_jobs * 50
        /\ P!score_host(g, request) = of(g).cpu * 100 + of(g).mem - g.running_jobs * 50
    BY DEF P!score_host
  <2>6. h.running_jobs <= g.running_jobs
    OBVIOUS
  <2>7. PICK a \in Nat, b \in Nat, c \in Nat, e \in Nat, m \in Nat, n \in Nat :
          /\ a = of(h).cpu /\ b = of(g).cpu /\ c = of(h).mem /\ e = of(g).mem
          /\ m = h.running_jobs /\ n = g.running_jobs
    BY <2>1, <2>4
  <2> HIDE DEF of
  <2>8. P!score_host(h, request) = a * 100 + c - m * 50
    BY <2>5, <2>7
  <2>9. P!score_host(g, request) = b * 100 + e - n * 50
    BY <2>5, <2>7
  <2> HIDE DEF h, g
  <2>10. a >= b /\ c >= e /\ m <= n
    BY <2>4, <2>6, <2>7
  <2>11. a * 100 + c - m * 50 >= b * 100 + e - n * 50
    BY <2>10
  <2>12. P!score_host(h, request) >= P!score_host(g, request)
    BY <2>8, <2>9, <2>11
  <2> QED
    BY <2>12 DEF h, g
<1>2. P!Init => Sized
  BY DEF P!Init, Sized
<1>3. Sized /\ [P!Next]_(P!vars) => Sized'
  BY DEF Sized, P!Next, P!Accepts, P!Rejects, P!NobodyLeft, P!LoopEnds, P!Attempt, P!inputs,
     P!vars
<1> QED
  BY <1>1, <1>2, <1>3, PTL DEF P!Spec

----------------------------------------------------------------------------
(* The hosts that are asked *)

ranked == P!Candidates(atlas, request)

\* Every attempt has placed a replica or lost a host, and a host is in question
\* unless it is lost.
Counted ==
  /\ Sized
  /\ wanted \in 1..MaxPlaced /\ to_place \in 0..wanted
  /\ rejected \subseteq ranked
  /\ DOMAIN candidates = ranked \ rejected
  /\ ~ended => /\ attempts = (wanted - to_place) + Cardinality(rejected)
               /\ place_failures = 0

Asked == Counted /\ EveryHostAsked /\ ShortfallReported

\* There are finitely many hosts.
LEMMA FewHosts ==
  ASSUME Sized
  PROVE  /\ IsFiniteSet(ranked) /\ Cardinality(ranked) \in Nat
         /\ \A S \in SUBSET ranked : IsFiniteSet(S) /\ Cardinality(S) \in Nat
<1>1. Len(atlas) \in Nat
  BY PlacementAssumption DEF Sized
<1>2. \A n \in Nat : IsFiniteSet(1..n)
  BY FS_Interval
<1>3. IsFiniteSet(1..Len(atlas))
  BY <1>1, <1>2
<1>4. ranked \subseteq 1..Len(atlas)
  BY DEF ranked, P!Candidates
<1>5. IsFiniteSet(ranked)
  BY <1>3, <1>4, FS_Subset
<1> QED
  BY <1>5, FS_Subset, FS_CardinalityType

\* Nobody has been asked at first.
LEMMA AskedInit ==
  ASSUME P!Init
  PROVE  Asked
<1>1. Sized
  BY DEF P!Init, Sized
<1>2. /\ wanted \in 1..MaxPlaced /\ to_place = wanted /\ attempts = 0 /\ rejected = {}
      /\ place_failures = 0 /\ ended = FALSE
  BY DEF P!Init
<1>3. DOMAIN candidates = ranked
  BY DEF P!Init, P!Scores, ranked
<1>4. Counted
  BY <1>1, <1>2, <1>3, FS_EmptySet, PlacementAssumption DEF Counted
<1> QED
  BY <1>2, <1>4 DEF Asked, EveryHostAsked, P!EveryHostAsked, ShortfallReported, P!ShortfallReported

\* When nobody is left, all have said no.
LEMMA AllRefused ==
  ASSUME Counted, candidates = <<>>
  PROVE  rejected = ranked
<1>1. DOMAIN candidates = {}
  <2>1. \A x : x \in DOMAIN <<>> => x \in 1..0
    OBVIOUS
  <2> QED
    BY <2>1
<1>2. rejected \subseteq ranked /\ ranked \ rejected = {}
  BY <1>1 DEF Counted
<1> QED
  BY <1>2

\* A few numbers: w wanted and p of them left, n hosts of which r have said no.
LEMMA Budget ==
  ASSUME NEW w \in Nat, NEW p \in Nat, NEW n \in Nat, NEW r \in Nat, 0 < p, p <= w, r <= n,
         (w - p) + r >= IF w * 4 > n + 1 THEN w * 4 ELSE n + 1
  PROVE  /\ w <= 2 => r = n
         /\ w <= 1 \/ n <= 3 * w => r < n
OBVIOUS

\* When the attempts are used up, one or two replicas have been refused by every
\* host, and where the hosts would have ended first there still are some.
LEMMA AttemptsUsedUp ==
  ASSUME Counted, ~ended, to_place > 0, attempts >= P!MaxAttempts
  PROVE  /\ wanted <= 2 => rejected = ranked
         /\ P!HostsEndFirst => candidates # <<>>
<1> DEFINE n == Cardinality(ranked)
           r == Cardinality(rejected)
<1>1. /\ Sized /\ wanted \in Nat /\ to_place \in Nat /\ to_place <= wanted
      /\ rejected \subseteq ranked /\ DOMAIN candidates = ranked \ rejected
  BY PlacementAssumption DEF Counted
<1>2. n \in Nat /\ r \in Nat /\ r <= n /\ (r = n => rejected = ranked)
  BY <1>1, FewHosts, FS_Subset
<1>3. n = Cardinality(P!Candidates(atlas, request))
  BY DEF ranked
<1>4. P!MaxAttempts = IF wanted * 4 > n + 1 THEN wanted * 4 ELSE n + 1
  <2>1. P!MaxAttempts = P!AtLeast(wanted * 4, n + 1)
    BY <1>3 DEF P!MaxAttempts, P!Cardinality, Cardinality
  <2>2. \A a, b \in Nat : P!AtLeast(a, b) = IF a > b THEN a ELSE b
    BY DEF P!AtLeast
  <2>3. wanted * 4 \in Nat /\ n + 1 \in Nat
    BY <1>1, <1>2
  <2> HIDE DEF n
  <2> QED
    BY <2>1, <2>2, <2>3
<1>5. attempts = (wanted - to_place) + r
  BY DEF Counted
<1>6. P!HostsEndFirst <=> wanted <= 1 \/ n <= 3 * wanted
  BY <1>3 DEF P!HostsEndFirst, P!Cardinality, Cardinality
<1> HIDE DEF n, r
<1>7. (wanted <= 2 => r = n) /\ (wanted <= 1 \/ n <= 3 * wanted => r < n)
  BY <1>1, <1>2, <1>4, <1>5, Budget
<1>8. wanted <= 2 => rejected = ranked
  BY <1>2, <1>7
<1>9. ASSUME P!HostsEndFirst, candidates = <<>> PROVE FALSE
  <2>1. rejected = ranked
    BY <1>9, AllRefused
  <2>2. r = n
    BY <2>1 DEF r, n
  <2>3. r < n
    BY <1>6, <1>7, <1>9
  <2> QED
    BY <1>2, <2>2, <2>3
<1> QED
  BY <1>8, <1>9

\* Every attempt places a replica or adds one host to those that refused, until
\* nobody is left or no attempt.
LEMMA AskedStep ==
  ASSUME Asked, [P!Next]_(P!vars)
  PROVE  Asked'
<1>0. wanted \in Nat /\ to_place \in Nat /\ to_place <= wanted /\ Sized /\ Counted
  BY PlacementAssumption DEF Asked, Counted
<1>a. ASSUME Counted', ~ended' PROVE Asked'
  BY <1>a DEF Asked, EveryHostAsked, P!EveryHostAsked, ShortfallReported, P!ShortfallReported
<1>b. ASSUME UNCHANGED <<atlas, request, wanted, candidates, to_place, rejected>>, ~ended, ended',
             wanted <= 2 /\ to_place > 0 => rejected = ranked,
             P!HostsEndFirst => place_failures' = to_place
      PROVE  Asked'
  <2>1. ranked' = ranked /\ Sized' /\ P!HostsEndFirst' = P!HostsEndFirst
    BY <1>0, <1>b DEF ranked, Sized, P!Candidates, P!HostsEndFirst
  <2>2. Counted'
    BY <1>0, <1>b, <2>1 DEF Counted
  <2>3. EveryHostAsked'
    BY <1>b, <2>1 DEF EveryHostAsked, P!EveryHostAsked, ranked
  <2>4. ShortfallReported'
    BY <1>b, <2>1 DEF ShortfallReported, P!ShortfallReported
  <2> QED
    BY <2>2, <2>3, <2>4 DEF Asked
<1>1. ASSUME NEW i \in DOMAIN candidates, P!Accepts(i) PROVE Asked'
  <2>1. /\ to_place > 0 /\ to_place' = to_place - 1 /\ attempts' = attempts + 1
        /\ UNCHANGED <<atlas, request, wanted, rejected, place_failures, ended>> /\ ~ended
        /\ DOMAIN candidates' = DOMAIN candidates
    BY <1>1 DEF P!Accepts, P!Attempt, P!inputs, P!Penalized
  <2>2. ranked' = ranked /\ Sized'
    BY <1>0, <2>1 DEF ranked, Sized, P!Candidates
  <2>3. Cardinality(rejected) \in Nat
    BY <1>0, FewHosts DEF Counted
  <2>4. Counted'
    BY <1>0, <2>1, <2>2, <2>3 DEF Counted
  <2> QED
    BY <1>a, <2>1, <2>4
<1>2. ASSUME NEW i \in DOMAIN candidates, P!Rejects(i) PROVE Asked'
  <2>1. /\ attempts' = attempts + 1 /\ rejected' = rejected \cup {i}
        /\ UNCHANGED <<atlas, request, wanted, to_place, place_failures, ended>> /\ ~ended
        /\ DOMAIN candidates' = DOMAIN candidates \ {i}
    BY <1>2 DEF P!Rejects, P!Attempt, P!inputs
  <2>2. ranked' = ranked /\ Sized'
    BY <1>0, <2>1 DEF ranked, Sized, P!Candidates
  <2>3. i \in ranked /\ i \notin rejected
    BY <1>0 DEF Counted
  <2>4. IsFiniteSet(rejected) /\ Cardinality(rejected) \in Nat
    BY <1>0, FewHosts DEF Counted
  <2>5. Cardinality(rejected \cup {i}) = Cardinality(rejected) + 1
    BY <2>3, <2>4, FS_AddElement
  <2>6. Counted'
    BY <1>0, <2>1, <2>2, <2>3, <2>4, <2>5 DEF Counted
  <2> QED
    BY <1>a, <2>1, <2>6
<1>3. CASE P!NobodyLeft
  <2>1. /\ UNCHANGED <<atlas, request, wanted, candidates, to_place, rejected>>
        /\ ~ended /\ ended' /\ candidates = <<>> /\ place_failures' = place_failures + to_place
    BY <1>3 DEF P!NobodyLeft, P!Attempt, P!inputs
  <2>2. rejected = ranked
    BY <1>0, <2>1, AllRefused
  <2>3. place_failures' = to_place
    BY <1>0, <2>1 DEF Counted
  <2> QED
    BY <1>b, <2>1, <2>2, <2>3
<1>4. CASE P!LoopEnds
  <2>1. /\ UNCHANGED <<atlas, request, wanted, candidates, to_place, rejected>>
        /\ ~ended /\ ended' /\ (to_place = 0 \/ attempts >= P!MaxAttempts)
        /\ place_failures' = place_failures + (IF candidates # <<>> THEN to_place ELSE 0)
    BY <1>4 DEF P!LoopEnds, P!inputs
  <2>2. place_failures = 0
    BY <1>0, <2>1 DEF Counted
  <2>3. to_place > 0 => (wanted <= 2 => rejected = ranked) /\ (P!HostsEndFirst => candidates # <<>>)
    BY <1>0, <2>1, AttemptsUsedUp
  <2>4. P!HostsEndFirst => place_failures' = to_place
    BY <1>0, <2>1, <2>2, <2>3
  <2> QED
    BY <1>b, <2>1, <2>3, <2>4
<1>5. CASE UNCHANGED P!vars
  BY <1>5 DEF P!vars, P!inputs, Asked, Counted, Sized, ranked, P!Candidates, EveryHostAsked,
     P!EveryHostAsked, ShortfallReported, P!ShortfallReported, P!HostsEndFirst
<1> QED
  BY <1>1, <1>2, <1>3, <1>4, <1>5 DEF P!Next

\* "The next-best host is tried; if none can take it, the shortfall is reported"
\* (src/README.md): however many hosts there are, those that are left over when a
\* tick of one or two replicas falls short have all said no.
THEOREM AskedTheorem == P!Spec => []EveryHostAsked
<1>1. Asked => EveryHostAsked
  BY DEF Asked
<1> QED
  BY AskedInit, AskedStep, <1>1, PTL DEF P!Spec

\* TickReport::place_failures: however many hosts and replicas there are, what is not
\* placed is reported, unless the last attempt may drop the last host.
THEOREM ReportedTheorem == P!Spec => []ShortfallReported
<1>1. Asked => ShortfallReported
  BY DEF Asked
<1> QED
  BY AskedInit, AskedStep, <1>1, PTL DEF P!Spec

----------------------------------------------------------------------------
(* The manifest *)

\* What is accepted has been validated, and the command is made of it.
Carried ==
  /\ d \in Texts /\ store \in Stores
  /\ M!Accepted => M!validate(d)
  /\ stage = "launched" =>
       ~M!CommandFails(d, store) /\ cmd = M!effective_command(d, store)

LEMMA CarriedAlways == M!Spec => []Carried
<1>1. M!Init => Carried
  BY DEF M!Init, Carried, M!Accepted
<1>2. Carried /\ [M!Next]_(M!vars) => Carried'
  <2> SUFFICES ASSUME Carried, [M!Next]_(M!vars) PROVE Carried'
    OBVIOUS
  <2>1. CASE M!Accept
    BY <2>1 DEF M!Accept, Carried, M!Accepted
  <2>2. CASE M!Refuse
    BY <2>2 DEF M!Refuse, Carried, M!Accepted
  <2>3. CASE M!bid_spec
    BY <2>3 DEF M!bid_spec, Carried, M!Accepted
  <2>4. CASE UNCHANGED M!vars
    BY <2>4 DEF M!vars, Carried, M!Accepted
  <2> QED
    BY <2>1, <2>2, <2>3, <2>4 DEF M!Next
<1> QED
  BY <1>1, <1>2, PTL DEF M!Spec

\* An entry of the environment.
Variable == [name : Text, value : Text, value_from : {Nothing} \cup Text]

\* The strings of a manifest are strings.
LEMMA TextIsString == Text \subseteq String
<1>1. 1..255 \subseteq Nat
  OBVIOUS
<1> QED
  BY <1>1, SeqMonotonic, Zenon DEF Text, String

\* What is known of the fields of a manifest, as strings of any bytes.
LEMMA Fields ==
  ASSUME NEW t \in Texts
  PROVE  /\ t.name \in String /\ t.namespace \in String /\ t.service \in String
         /\ t.image \in String /\ t.command \in Seq(String) /\ t.depends_on \in Seq(String)
         /\ t.env \in Seq([name : String, value : String, value_from : {Nothing} \cup String])
<1>1. Text \subseteq String
  BY TextIsString
<1>2. Seq(Text) \subseteq Seq(String)
  <2> SUFFICES ASSUME NEW s \in Seq(Text) PROVE s \in Seq(String)
    OBVIOUS
  <2> QED
    BY <1>1, SeqMonotonic, Zenon
<1>3. Variable \subseteq [name : String, value : String, value_from : {Nothing} \cup String]
  BY <1>1 DEF Variable
<1>4. Seq(Variable) \subseteq Seq([name : String, value : String, value_from : {Nothing} \cup String])
  BY <1>3, SeqMonotonic
<1>5. t.env \in Seq(Variable)
  BY ManifestAssumption DEF Variable
<1> QED
  BY <1>1, <1>2, <1>4, <1>5, ManifestAssumption

\* Two strings on both sides of a mark.
IsJoin(w, a, c, b) ==
  /\ w \in String /\ Len(w) = Len(a) + 1 + Len(b)
  /\ w[Len(a) + 1] = c
  /\ \A i \in 1..Len(a) : w[i] = a[i]
  /\ \A i \in 1..Len(b) : w[Len(a) + 1 + i] = b[i]

\* What the join of two strings looks like.
LEMMA Joined ==
  ASSUME NEW w, NEW a \in String, NEW b \in String, NEW c \in Nat, w = a \o <<c>> \o b
  PROVE  IsJoin(w, a, c, b)
<1>1. <<c>> \in Seq(Nat) /\ Len(<<c>>) = 1 /\ <<c>>[1] = c
  OBVIOUS
<1> DEFINE v == a \o <<c>>
<1>2. /\ v \in Seq(Nat) /\ Len(v) = Len(a) + 1
      /\ \A i \in 1..(Len(a) + 1) : v[i] = IF i <= Len(a) THEN a[i] ELSE <<c>>[i - Len(a)]
  BY <1>1, ConcatProperties DEF String
<1>3. w = v \o b
  OBVIOUS
<1> HIDE DEF v
<1>4. /\ w \in Seq(Nat) /\ Len(w) = Len(v) + Len(b)
      /\ \A i \in 1..(Len(v) + Len(b)) : w[i] = IF i <= Len(v) THEN v[i] ELSE b[i - Len(v)]
  BY <1>2, <1>3, ConcatProperties DEF String
<1>5. Len(a) \in Nat /\ Len(b) \in Nat
  BY LenProperties DEF String
<1>6. w[Len(a) + 1] = c
  BY <1>1, <1>2, <1>4, <1>5
<1>7. \A i \in 1..Len(a) : w[i] = a[i]
  BY <1>2, <1>4, <1>5
<1>8. \A i \in 1..Len(b) : w[Len(a) + 1 + i] = b[i]
  BY <1>2, <1>4, <1>5
<1> QED
  BY <1>2, <1>4, <1>5, <1>6, <1>7, <1>8 DEF String, IsJoin

Lacks(s, c) == \A i \in 1..Len(s) : s[i] # c

\* Where the first string has no mark in it, the whole tells the two.
LEMMA JoinTells ==
  ASSUME NEW c \in Nat, NEW a \in String, NEW b \in String, NEW e \in String, NEW f \in String,
         Lacks(a, c), Lacks(e, c),
         a \o <<c>> \o b = e \o <<c>> \o f
  PROVE  a = e /\ b = f
<1> DEFINE w == a \o <<c>> \o b
<1>1. /\ Len(w) = Len(a) + 1 + Len(b) /\ w[Len(a) + 1] = c
      /\ \A i \in 1..Len(a) : w[i] = a[i]
      /\ \A i \in 1..Len(b) : w[Len(a) + 1 + i] = b[i]
  <2>1. IsJoin(w, a, c, b)
    BY Joined
  <2> QED
    BY <2>1 DEF IsJoin
<1>2. /\ Len(w) = Len(e) + 1 + Len(f) /\ w[Len(e) + 1] = c
      /\ \A i \in 1..Len(e) : w[i] = e[i]
      /\ \A i \in 1..Len(f) : w[Len(e) + 1 + i] = f[i]
  <2>1. w = e \o <<c>> \o f
    OBVIOUS
  <2> HIDE DEF w
  <2>2. IsJoin(w, e, c, f)
    BY <2>1, Joined
  <2> QED
    BY <2>2 DEF IsJoin
<1> HIDE DEF w
<1>3. Len(a) \in Nat /\ Len(b) \in Nat /\ Len(e) \in Nat /\ Len(f) \in Nat
  BY LenProperties DEF String
<1>4. Len(a) = Len(e)
  <2>1. ~(Len(a) < Len(e))
    BY <1>1, <1>2, <1>3 DEF Lacks
  <2>2. ~(Len(e) < Len(a))
    BY <1>1, <1>2, <1>3 DEF Lacks
  <2> QED
    BY <1>3, <2>1, <2>2
<1>5. Len(b) = Len(f)
  BY <1>1, <1>2, <1>3, <1>4
<1>6. a = e
  BY <1>1, <1>2, <1>4, SeqEqual DEF String
<1>7. \A i \in 1..Len(b) : b[i] = f[i]
  BY <1>1, <1>2, <1>4, <1>5
<1>8. b = f
  BY <1>5, <1>7, SeqEqual DEF String
<1> QED
  BY <1>6, <1>8

\* A valid name has no slash.
LEMMA NoSlash ==
  ASSUME NEW s \in String, M!validate_name(s)
  PROVE  Lacks(s, M!Slash)
<1>1. M!Bytes(s) \subseteq 97..122 \cup 48..57 \cup {45}
  BY DEF M!validate_name, M!Lower, M!Digit, M!Hyphen
<1>2. \A i \in 1..Len(s) : s[i] \in M!Bytes(s)
  <2>1. M!Bytes(s) = {s[i] : i \in DOMAIN s}
    BY DEF M!Bytes, M!Range
  <2>2. DOMAIN s = 1..Len(s)
    BY LenProperties DEF String
  <2> QED
    BY <2>1, <2>2
<1>3. 47 \notin 97..122 \cup 48..57 \cup {45}
  OBVIOUS
<1> QED
  BY <1>1, <1>2, <1>3 DEF M!Slash, Lacks

\* A prefix can be set apart.
LEMMA Regrouped ==
  ASSUME NEW C \in Seq(Nat), NEW T \in Seq(Nat), NEW p \in Seq(Nat), NEW q \in Seq(Nat),
         NEW u, u = p \o T \o q
  PROVE  C \o p \o T \o q = C \o u /\ u \in Seq(Nat)
<1> DEFINE r == p \o T
<1>1. C \o p \o T = C \o r
  BY ConcatAssociative
<1>2. r \in Seq(Nat)
  BY ConcatProperties
<1>3. u = r \o q
  OBVIOUS
<1> HIDE DEF r
<1>4. C \o r \o q = C \o (r \o q)
  BY <1>2, ConcatAssociative
<1>5. r \o q \in Seq(Nat)
  BY <1>2, ConcatProperties
<1> QED
  BY <1>1, <1>3, <1>4, <1>5

\* A prefix that two strings share can be left out.
LEMMA CancelPrefix ==
  ASSUME NEW C \in Seq(Nat), NEW u \in Seq(Nat), NEW v \in Seq(Nat), C \o u = C \o v
  PROVE  u = v
BY ConcatSimplifications

\* The mark and the prefix of the names are bytes.
LEMMA SlashIsByte == M!Slash \in Nat /\ <<M!Slash>> \in String /\ M!CeGke \in String
BY DEF M!Slash, M!CeGke, String

\* The name of a service tells its namespace.
LEMMA ServiceNameTells ==
  ASSUME NEW m \in String, NEW s \in String, NEW n \in String, NEW t \in String,
         Lacks(m, M!Slash), Lacks(n, M!Slash),
         M!resolved_service_name(m, s) = M!resolved_service_name(n, t)
  PROVE  m = n /\ s = t
<1> DEFINE C == M!CeGke
           T == <<M!Slash>>
<1>1. C \o m \o T \o s = C \o n \o T \o t
  BY DEF M!resolved_service_name
<1>2. /\ C \in Seq(Nat) /\ T \in Seq(Nat)
      /\ m \in Seq(Nat) /\ s \in Seq(Nat) /\ n \in Seq(Nat) /\ t \in Seq(Nat)
  BY SlashIsByte DEF String
<1> HIDE DEF C, T
<1>3. m \o T \o s = n \o T \o t
  <2> DEFINE u == m \o T \o s
             v == n \o T \o t
  <2>1. u = m \o T \o s
    OBVIOUS
  <2>2. v = n \o T \o t
    OBVIOUS
  <2> HIDE DEF u, v
  <2>3. C \o m \o T \o s = C \o u /\ u \in Seq(Nat)
    BY <1>2, <2>1, Regrouped, SMTT(120)
  <2>4. C \o n \o T \o t = C \o v /\ v \in Seq(Nat)
    BY <1>2, <2>2, Regrouped, SMTT(120)
  <2>5. C \o u = C \o v
    BY <1>1, <2>3, <2>4
  <2>6. u = v
    <3>1. C \in Seq(Nat)
      BY <1>2
    <3> QED
      BY <2>3, <2>4, <2>5, <3>1, CancelPrefix
  <2> QED
    BY <2>1, <2>2, <2>6
<1>4. m \o <<M!Slash>> \o s = n \o <<M!Slash>> \o t
  BY <1>3 DEF T
<1> QED
  BY <1>4, SlashIsByte, JoinTells

\* "Resolves to the exact name that sibling advertises" (resolved_service_name):
\* whatever names are let in, accepted deployments have one key only if they have
\* one identity, and a dependency is met by no service but the one it names.
THEOREM NamesTheorem ==
  M!Spec => [](M!Accepted => \A e \in Texts : M!validate(e) => M!KeyTells(e) /\ M!ServiceTells(e))
<1>1. Carried => (M!Accepted => \A e \in Texts : M!validate(e) => M!KeyTells(e) /\ M!ServiceTells(e))
  <2> SUFFICES ASSUME Carried, M!Accepted, NEW e \in Texts, M!validate(e)
               PROVE  M!KeyTells(e) /\ M!ServiceTells(e)
    OBVIOUS
  <2>1. d \in Texts /\ M!validate(d)
    BY DEF Carried
  <2>2. /\ d.name \in String /\ d.namespace \in String
        /\ e.name \in String /\ e.namespace \in String /\ e.service \in String
        /\ \A i \in DOMAIN d.depends_on : d.depends_on[i] \in String
    <3>1. d.depends_on \in Seq(String)
      BY <2>1, Fields
    <3> QED
      BY <2>1, <3>1, Fields
  <2>3. Lacks(d.namespace, M!Slash) /\ Lacks(e.namespace, M!Slash)
    BY <2>1, <2>2, NoSlash DEF M!validate
  <2>4. M!KeyTells(e)
    <3> SUFFICES ASSUME M!key(e) = M!key(d)
                 PROVE  e.namespace = d.namespace /\ e.name = d.name
      BY DEF M!KeyTells
    <3>1. e.namespace \o <<M!Slash>> \o e.name = d.namespace \o <<M!Slash>> \o d.name
      BY DEF M!key
    <3> QED
      BY <2>2, <2>3, <3>1, SlashIsByte, JoinTells
  <2>5. DefaultNamespace \in String /\ Lacks(DefaultNamespace, M!Slash)
    <3>1. DefaultNamespace \in Text /\ M!validate_name(DefaultNamespace)
      BY ManifestAssumption
    <3> QED
      BY <3>1, TextIsString, NoSlash
  <2>6. M!ServiceTells(e)
    <3> SUFFICES ASSUME NEW i \in DOMAIN d.depends_on, NEW ns \in {d.namespace, DefaultNamespace},
                        M!resolved_service_name(ns, d.depends_on[i]) = M!service_name(e)
                 PROVE  e.namespace = ns /\ e.service = d.depends_on[i]
      BY DEF M!ServiceTells, M!service_name
    <3>1. ns \in String /\ Lacks(ns, M!Slash)
      BY <2>2, <2>3, <2>5
    <3> QED
      BY <2>2, <2>3, <3>1, ServiceNameTells DEF M!service_name
  <2> QED
    BY <2>4, <2>6
<1> QED
  BY CarriedAlways, <1>1, PTL

\* Parts of a sequence.
LEMMA PartIs ==
  ASSUME NEW S, NEW w \in Seq(S), NEW a \in Seq(S), Len(a) <= Len(w),
         \A i \in 1..Len(a) : w[i] = a[i]
  PROVE  SubSeq(w, 1, Len(a)) = a
<1> DEFINE p == SubSeq(w, 1, Len(a))
<1>1. Len(a) \in Nat /\ Len(w) \in Nat /\ \A i \in 1..Len(a) : w[i] \in S
  BY LenProperties
<1>2. /\ p \in Seq(S) /\ Len(p) = Len(a)
      /\ \A i \in 1..Len(a) : p[i] = w[i]
  OBVIOUS
<1> HIDE DEF p
<1> QED
  BY <1>2, SeqEqual DEF p

LEMMA RestIs ==
  ASSUME NEW S, NEW w \in Seq(S), NEW b \in Seq(S), NEW n \in Nat, Len(w) = n + Len(b),
         \A i \in 1..Len(b) : w[n + i] = b[i]
  PROVE  SubSeq(w, n + 1, Len(w)) = b
<1> DEFINE p == SubSeq(w, n + 1, Len(w))
<1>1. Len(b) \in Nat /\ Len(w) \in Nat
  BY LenProperties
<1>2. /\ p \in Seq(S) /\ Len(p) = Len(b)
      /\ \A i \in 1..Len(b) : p[i] = w[n + i]
  BY <1>1
<1> HIDE DEF p
<1> QED
  BY <1>2, SeqEqual DEF p

\* A variable in front of a command: an assignment whose first "=" ends the name.
LEMMA KvTells ==
  ASSUME NEW c \in Nat, NEW w, NEW a \in String, NEW b \in String,
         c = M!Equals, Lacks(a, c), w = a \o <<c>> \o b
  PROVE  M!IsAssignment(w) /\ M!NameOf(w) = a /\ M!ValueOf(w) = b
<1> DEFINE n == Len(a)
           k == Len(b)
<1>1. Lacks(a, c) /\ c = M!Equals
  OBVIOUS
<1>2. /\ w \in String /\ Len(w) = n + 1 + k /\ w[n + 1] = c
      /\ \A i \in 1..n : w[i] = a[i]
      /\ \A i \in 1..k : w[n + 1 + i] = b[i]
  <2>1. IsJoin(w, a, c, b)
    BY Joined
  <2> QED
    BY <2>1 DEF IsJoin
<1>3. n \in Nat /\ k \in Nat /\ DOMAIN w = 1..Len(w)
  BY <1>2, LenProperties DEF String
<1>4. M!IsAssignment(w)
  <2>1. M!Bytes(w) = {w[i] : i \in DOMAIN w}
    BY DEF M!Bytes, M!Range
  <2>2. n + 1 \in 1..Len(w)
    <3> HIDE DEF n, k
    <3> QED
      BY <1>2, <1>3
  <2> QED
    BY <1>2, <1>3, <2>1, <2>2 DEF M!IsAssignment
<1>5. M!SelectInSeq(w, LAMBDA x : x = M!Equals) = n + 1
  <2> DEFINE I == {i \in 1..Len(w) : w[i] = c}
  <2>1. n + 1 \in I /\ \A i \in I : n + 1 <= i
    <3>1. \A i \in 1..n : w[i] # c
      BY <1>1, <1>2 DEF Lacks
    <3> HIDE DEF n, k
    <3>2. n + 1 \in 1..Len(w)
      BY <1>2, <1>3
    <3>3. \A i \in I : i \in 1..Len(w) /\ i \notin 1..n
      BY <3>1
    <3>4. Len(w) \in Nat
      BY <1>2, <1>3
    <3> QED
      BY <1>2, <1>3, <3>2, <3>3, <3>4
  <2>2. \A x \in I : (\A y \in I : x <= y) => x = n + 1
    <3> HIDE DEF n, k
    <3>1. n \in Nat /\ Len(w) \in Nat
      BY <1>2, <1>3
    <3> QED
      BY <2>1, <3>1
  <2>3. M!SelectInSeq(w, LAMBDA x : x = M!Equals) = IF I # {} THEN M!Min(I) ELSE 0
    BY DEF M!SelectInSeq
  <2> HIDE DEF I
  <2>4. M!Min(I) = n + 1
    BY <2>1, <2>2 DEF M!Min
  <2> QED
    BY <2>1, <2>3, <2>4
<1>6. M!NameOf(w) = a
  <2>1. M!NameOf(w) = SubSeq(w, 1, n)
    <3>1. M!NameOf(w) = SubSeq(w, 1, (n + 1) - 1)
      BY <1>5 DEF M!NameOf
    <3> QED
      BY <1>3, <3>1
  <2>2. n <= Len(w)
    <3> HIDE DEF n, k
    <3> QED
      BY <1>2, <1>3
  <2>3. w \in Seq(Nat) /\ a \in Seq(Nat)
    BY <1>2 DEF String
  <2>4. SubSeq(w, 1, Len(a)) = a
    BY <1>2, <2>2, <2>3, PartIs
  <2> QED
    BY <2>1, <2>4
<1>7. M!ValueOf(w) = b
  <2>1. M!ValueOf(w) = SubSeq(w, n + 2, Len(w))
    <3>1. M!ValueOf(w) = SubSeq(w, (n + 1) + 1, Len(w))
      BY <1>5 DEF M!ValueOf
    <3> QED
      BY <1>3, <3>1
  <2>2. PICK m \in Nat : m = n + 1
    BY <1>3
  <2>3. /\ SubSeq(w, n + 2, Len(w)) = SubSeq(w, m + 1, Len(w))
        /\ Len(w) = m + Len(b) /\ \A i \in 1..Len(b) : w[m + i] = b[i]
    BY <1>2, <1>3, <2>2
  <2>4. SubSeq(w, m + 1, Len(w)) = b
    BY <1>2, <2>3, RestIs DEF String
  <2> QED
    BY <2>1, <2>3, <2>4
<1> QED
  BY <1>4, <1>6, <1>7

\* The words after env: the variables end where the program begins.
LEMMA AssignmentsEnd ==
  ASSUME NEW args \in Seq(String), NEW n \in Nat, n < Len(args),
         \A i \in 1..n : M!IsAssignment(args[i]), ~M!IsAssignment(args[n + 1])
  PROVE  M!Assignments(args) = n
<1> DEFINE Ends(m) == /\ \A i \in 1..m : M!IsAssignment(args[i])
                      /\ m = Len(args) \/ ~M!IsAssignment(args[m + 1])
<1>1. Len(args) \in Nat
  BY LenProperties
<1>2. n \in 0..Len(args) /\ Ends(n)
  BY <1>1
<1>3. \A m \in 0..Len(args) : Ends(m) => m = n
  <2> SUFFICES ASSUME NEW m \in 0..Len(args), Ends(m) PROVE m = n
    OBVIOUS
  <2>1. ~(n < m)
    <3> SUFFICES ASSUME n < m PROVE FALSE
      OBVIOUS
    <3>1. n + 1 \in 1..m
      BY <1>1
    <3> QED
      BY <3>1
  <2>2. ~(m < n)
    <3> SUFFICES ASSUME m < n PROVE FALSE
      OBVIOUS
    <3>1. m + 1 \in 1..n /\ m # Len(args)
      BY <1>1
    <3> QED
      BY <3>1
  <2> QED
    BY <1>1, <2>1, <2>2
<1>4. M!Assignments(args) = CHOOSE m \in 0..Len(args) : Ends(m)
  BY DEF M!Assignments
<1> HIDE DEF Ends
<1> QED
  BY <1>2, <1>3, <1>4

\* One word and two lists of words, without the first word.
IsCommand(w, e, V, C, t) ==
  /\ w # <<>> /\ w[1] = e
  /\ t = Tail(w) /\ Len(t) = Len(V) + Len(C)
  /\ \A i \in 1..Len(V) : t[i] = V[i]
  /\ \A i \in 1..Len(C) : t[Len(V) + i] = C[i]

LEMMA AfterFirst ==
  ASSUME NEW S, NEW e \in S, NEW V \in Seq(S), NEW C \in Seq(S),
         NEW w, w = <<e>> \o V \o C
  PROVE  IsCommand(w, e, V, C, Tail(w)) /\ Tail(w) \in Seq(S)
<1> DEFINE v == <<e>> \o V
           a == Len(V)
           c == Len(C)
<1>1. <<e>> \in Seq(S) /\ Len(<<e>>) = 1 /\ <<e>>[1] = e
  OBVIOUS
<1>2. a \in Nat /\ c \in Nat
  BY LenProperties
<1>3. /\ v \in Seq(S) /\ Len(v) = 1 + a
      /\ \A i \in 1..(1 + a) : v[i] = IF i <= 1 THEN <<e>>[i] ELSE V[i - 1]
  BY <1>1, ConcatProperties
<1>4. w = v \o C
  OBVIOUS
<1> HIDE DEF v
<1>5. /\ w \in Seq(S) /\ Len(w) = 1 + a + c
      /\ \A i \in 1..(1 + a + c) : w[i] = IF i <= 1 + a THEN v[i] ELSE C[i - (1 + a)]
  BY <1>3, <1>4, ConcatProperties
<1> DEFINE t == Tail(w)
<1>6. w # <<>>
  BY <1>2, <1>5
<1>7. t \in Seq(S) /\ Len(t) = Len(w) - 1 /\ \A i \in 1..Len(t) : t[i] = w[i + 1]
  BY <1>5, <1>6, HeadTailProperties
<1> HIDE DEF a, c, t
<1>8. w[1] = e
  BY <1>1, <1>2, <1>3, <1>5
<1>9. Len(t) = a + c
  BY <1>2, <1>5, <1>7
<1>10. \A i \in 1..a : t[i] = V[i]
  <2> SUFFICES ASSUME NEW i \in 1..a PROVE t[i] = V[i]
    OBVIOUS
  <2>1. PICK j \in Nat : j = i + 1
    BY <1>2
  <2>2. i \in 1..Len(t) /\ j \in 1..(1 + a + c) /\ j \in 1..(1 + a) /\ j - 1 = i /\ ~(j <= 1)
    BY <1>2, <1>9, <2>1
  <2>3. t[i] = w[j]
    BY <1>7, <2>1, <2>2
  <2>4. w[j] = v[j]
    BY <1>5, <2>2
  <2>5. v[j] = V[i]
    BY <1>3, <2>2
  <2> QED
    BY <2>3, <2>4, <2>5
<1>11. \A i \in 1..c : t[a + i] = C[i]
  <2> SUFFICES ASSUME NEW i \in 1..c PROVE t[a + i] = C[i]
    OBVIOUS
  <2>1. PICK j \in Nat : j = a + i
    BY <1>2
  <2>2. /\ j \in 1..Len(t) /\ j + 1 \in 1..(1 + a + c) /\ ~(j + 1 <= 1 + a)
        /\ (j + 1) - (1 + a) = i
    <3>1. i \in Nat /\ 1 <= i /\ i <= c
      BY <1>2
    <3>2. Len(t) \in Nat /\ j <= Len(t) /\ 1 <= j
      BY <1>2, <1>9, <2>1, <3>1
    <3>3. j + 1 <= 1 + a + c /\ ~(j + 1 <= 1 + a) /\ (j + 1) - (1 + a) = i
      BY <1>2, <2>1, <3>1
    <3> QED
      BY <1>2, <2>1, <3>2, <3>3
  <2>3. t[j] = w[j + 1]
    BY <1>7, <2>2
  <2>4. w[j + 1] = C[i]
    BY <1>5, <2>2
  <2> QED
    BY <2>1, <2>3, <2>4
<1> QED
  BY <1>6, <1>7, <1>8, <1>9, <1>10, <1>11 DEF a, c, t, IsCommand

\* A variable of a launched deployment has a name without "=" and a value.
LEMMA VariablesAreStrings ==
  ASSUME Carried, stage = "launched", NEW i \in DOMAIN d.env
  PROVE  /\ d.env[i].name \in String /\ Lacks(d.env[i].name, M!Equals)
         /\ M!Resolved(d.env[i], store) \in String
<1>1. d \in Texts /\ store \in Stores /\ M!validate(d) /\ ~M!CommandFails(d, store)
  BY DEF Carried, M!Accepted
<1>2. d.env \in Seq([name : String, value : String, value_from : {Nothing} \cup String])
  BY <1>1, Fields
<1> DEFINE e == d.env[i]
<1>3. e \in [name : String, value : String, value_from : {Nothing} \cup String]
  <2> DEFINE R == [name : String, value : String, value_from : {Nothing} \cup String]
             env == d.env
  <2>1. env \in Seq(R) /\ i \in DOMAIN env
    BY <1>2
  <2> HIDE DEF R, env
  <2>2. env[i] \in R
    BY <2>1, LenProperties
  <2> QED
    BY <2>2 DEF R, env
<1>4. M!EnvVarValid(e)
  BY <1>1 DEF M!validate
<1>5. d.env # <<>>
  BY <1>2
<1>6. e.value_from \in DOMAIN store \cup {Nothing}
  BY <1>1, <1>5 DEF M!CommandFails, M!SecretsKnown
<1> HIDE DEF e
<1>7. e.name \in String /\ e.value \in String
  BY <1>3
<1>8. Lacks(e.name, M!Equals)
  <2> DEFINE s == e.name
  <2>1. M!Bytes(s) \subseteq 97..122 \cup 65..90 \cup 48..57 \cup {95}
    BY <1>4 DEF M!EnvVarValid, M!Lower, M!Upper, M!Digit, M!Underscore
  <2>2. s \in String
    BY <1>7
  <2> HIDE DEF s
  <2>3. \A j \in 1..Len(s) : s[j] \in M!Bytes(s)
    <3>1. M!Bytes(s) = {s[j] : j \in DOMAIN s}
      BY DEF M!Bytes, M!Range
    <3>2. DOMAIN s = 1..Len(s)
      BY <2>2, LenProperties DEF String
    <3> QED
      BY <3>1, <3>2
  <2>4. 61 \notin 97..122 \cup 65..90 \cup 48..57 \cup {95}
    OBVIOUS
  <2>5. Lacks(s, M!Equals)
    BY <2>1, <2>3, <2>4 DEF Lacks, M!Equals
  <2> QED
    BY <2>5 DEF s
<1>9. M!Resolved(e, store) \in String
  <2>1. CASE e.value_from = Nothing
    BY <1>7, <2>1 DEF M!Resolved
  <2>2. CASE e.value_from # Nothing
    <3>1. e.value_from \in DOMAIN store
      BY <1>6, <2>2
    <3>2. store[e.value_from] \in String
      BY <1>1, <3>1, ManifestAssumption
    <3> QED
      BY <2>2, <3>2 DEF M!Resolved
  <2> QED
    BY <2>1, <2>2
<1> QED
  BY <1>7, <1>8, <1>9 DEF e

\* A launched deployment with variables.
LEMMA WrittenWithVariables ==
  ASSUME Carried, stage = "launched", d.env # <<>>, ~M!IsAssignment(d.command[1])
  PROVE  M!Runs(cmd) =
           [variables |-> {<<d.env[i].name, M!Resolved(d.env[i], store)>> : i \in DOMAIN d.env},
            program |-> d.command]
<1> DEFINE V == [i \in DOMAIN d.env |-> M!as_kv(d.env[i], store)]
           C == d.command
           args == Tail(cmd)
           n == Len(d.env)
<1>1. d \in Texts /\ ~M!CommandFails(d, store) /\ cmd = M!effective_command(d, store)
  BY DEF Carried
<1>2. /\ C \in Seq(String) /\ C # <<>>
      /\ d.env \in Seq([name : String, value : String, value_from : {Nothing} \cup String])
  BY <1>1, Fields DEF M!CommandFails
<1>3. DOMAIN d.env = 1..n /\ n \in Nat
  BY <1>2, LenProperties
<1>4. \A i \in DOMAIN d.env :
        /\ M!as_kv(d.env[i], store) \in String
        /\ M!IsAssignment(M!as_kv(d.env[i], store))
        /\ M!NameOf(M!as_kv(d.env[i], store)) = d.env[i].name
        /\ M!ValueOf(M!as_kv(d.env[i], store)) = M!Resolved(d.env[i], store)
  <2> SUFFICES ASSUME NEW i \in DOMAIN d.env
               PROVE  /\ M!as_kv(d.env[i], store) \in String
                      /\ M!IsAssignment(M!as_kv(d.env[i], store))
                      /\ M!NameOf(M!as_kv(d.env[i], store)) = d.env[i].name
                      /\ M!ValueOf(M!as_kv(d.env[i], store)) = M!Resolved(d.env[i], store)
    OBVIOUS
  <2> DEFINE a == d.env[i].name
             b == M!Resolved(d.env[i], store)
             w == M!as_kv(d.env[i], store)
  <2>1. PICK c \in Nat : c = M!Equals
    BY DEF M!Equals
  <2>2. a \in String /\ Lacks(a, c) /\ b \in String
    BY <2>1, VariablesAreStrings
  <2>3. w = a \o <<c>> \o b
    BY <2>1 DEF M!as_kv
  <2> HIDE DEF a, b, w
  <2>4. IsJoin(w, a, c, b)
    BY <2>2, <2>3, Joined
  <2>5. M!IsAssignment(w) /\ M!NameOf(w) = a /\ M!ValueOf(w) = b
    BY <2>1, <2>2, <2>3, KvTells
  <2> QED
    BY <2>4, <2>5 DEF IsJoin, a, b, w
<1>5. V \in Seq(String) /\ Len(V) = n
  BY <1>3, <1>4
<1>6. cmd = <<M!Env>> \o V \o C
  BY <1>1 DEF M!effective_command
<1>7. \A i \in 1..n : V[i] = M!as_kv(d.env[i], store)
  BY <1>3
<1> HIDE DEF V, C
<1>8. /\ cmd # <<>> /\ cmd[1] = M!Env
      /\ args \in Seq(String) /\ Len(args) = n + Len(C)
      /\ \A i \in 1..n : args[i] = V[i]
      /\ \A i \in 1..Len(C) : args[n + i] = C[i]
  <2>0. M!Env \in String
    BY DEF M!Env, String
  <2>1. PICK e \in String : e = M!Env
    BY <2>0
  <2>2. cmd = <<e>> \o V \o C
    BY <1>6, <2>1
  <2>3. IsCommand(cmd, e, V, C, args) /\ args \in Seq(String)
    BY <1>2, <1>5, <2>2, AfterFirst
  <2> QED
    BY <1>5, <2>1, <2>3 DEF IsCommand
<1>9. Len(C) \in Nat /\ Len(C) > 0
  BY <1>2, LenProperties
<1> HIDE DEF args, n
<1>10. M!Assignments(args) = n
  <2>1. \A i \in 1..n : M!IsAssignment(args[i])
    BY <1>3, <1>4, <1>7, <1>8
  <2>2. args[n + 1] = C[1] /\ n < Len(args)
    BY <1>3, <1>8, <1>9
  <2>3. ~M!IsAssignment(args[n + 1])
    BY <2>2 DEF C
  <2> QED
    BY <1>3, <1>8, <2>1, <2>2, <2>3, AssignmentsEnd
<1>11. SubSeq(args, n + 1, Len(args)) = C
  BY <1>2, <1>3, <1>8, RestIs
<1>12. {<<M!NameOf(args[i]), M!ValueOf(args[i])>> : i \in 1..n}
         = {<<d.env[i].name, M!Resolved(d.env[i], store)>> : i \in DOMAIN d.env}
  <2>1. \A i \in 1..n : /\ M!NameOf(args[i]) = d.env[i].name
                        /\ M!ValueOf(args[i]) = M!Resolved(d.env[i], store)
    BY <1>3, <1>4, <1>7, <1>8
  <2> QED
    BY <1>3, <2>1
<1>13. M!Runs(cmd) = [variables |-> {<<M!NameOf(args[i]), M!ValueOf(args[i])>> : i \in 1..n},
                      program |-> SubSeq(args, n + 1, Len(args))]
  BY <1>8, <1>10 DEF M!Runs, args
<1> QED
  BY <1>11, <1>12, <1>13 DEF C

\* "Prefixing the command with env NAME=VALUE ..." (effective_command): whatever a
\* valid manifest and the secret store say, the host runs the command of the
\* manifest with the variables of the manifest and none else.
THEOREM WrittenTheorem == M!Spec => []RunsAsWritten
<1>1. Carried => RunsAsWritten
  <2> SUFFICES ASSUME Carried, stage = "launched",
                      d.command # <<>> =>
                        ~M!IsAssignment(d.command[1]) /\ d.command[1] # M!Env
               PROVE  M!Runs(cmd) =
                        [variables |-> {<<d.env[i].name, M!Resolved(d.env[i], store)>> :
                                          i \in DOMAIN d.env},
                         program |-> d.command]
    BY DEF RunsAsWritten, M!RunsAsWritten
  <2>1. CASE d.env = <<>>
    <3>1. cmd = d.command
      BY <2>1 DEF Carried, M!effective_command
    <3>2. M!Runs(cmd) = [variables |-> {}, program |-> cmd]
      BY <3>1 DEF M!Runs
    <3>3. {<<d.env[i].name, M!Resolved(d.env[i], store)>> : i \in DOMAIN d.env} = {}
      BY <2>1
    <3> QED
      BY <3>1, <3>2, <3>3
  <2>2. CASE d.env # <<>>
    <3>1. d.command # <<>>
      BY <2>2 DEF Carried, M!CommandFails
    <3> QED
      BY <2>2, <3>1, WrittenWithVariables
  <2> QED
    BY <2>1, <2>2
<1> QED
  BY CarriedAlways, <1>1, PTL

----------------------------------------------------------------------------
(* Induction: what fails for a number fails for a least one. *)

Below == {p \in Nat \X Nat : p[1] < p[2]}

\* Numbers are well founded.
LEMMA BelowIsWellFounded == IsWellFoundedOn(Below, Nat)
BY NatLessThanWellFounded DEF Below, OpToRel

\* Of any numbers there is a least one.
LEMMA Least ==
  ASSUME NEW T, T \subseteq Nat, T # {}
  PROVE  \E n \in T : \A m \in T : n <= m
<1>1. PICK n \in T : \A m \in T : ~(<<m, n>> \in Below)
  BY BelowIsWellFounded, WFMin
<1>2. \A m \in T : ~(m < n)
  BY <1>1 DEF Below
<1> QED
  BY <1>2

----------------------------------------------------------------------------
(* Strings in a row *)

\* f[n] is the first n strings in a row.
IsFlat(f, cs) ==
  /\ f \in [0..Len(cs) -> String]
  /\ f[0] = <<>>
  /\ \A n \in 1..Len(cs) : f[n] = f[n - 1] \o cs[n]

\* The function by which FlattenSeq is defined, up to the k-th string.
Flattens(g, cs, k) == g = [i \in 1..k |-> IF i = 1 THEN cs[1] ELSE g[i - 1] \o cs[i]]

\* There is such a function.
LEMMA FlattensExists ==
  ASSUME NEW cs, NEW n \in Nat
  PROVE  \E g : Flattens(g, cs, n)
<1> DEFINE T == {k \in Nat : ~ \E g : Flattens(g, cs, k)}
<1>1. SUFFICES ASSUME T # {} PROVE FALSE
  OBVIOUS
<1>2. PICK k \in T : \A m \in T : k <= m
  <2> HIDE DEF T
  <2>1. T \subseteq Nat
    BY DEF T
  <2> QED
    BY <1>1, <2>1, Least
<1>3. k \in Nat /\ ~ \E g : Flattens(g, cs, k)
  OBVIOUS
<1>4. CASE k = 0
  <2> DEFINE g == [i \in 1..0 |-> 0]
  <2>1. Flattens(g, cs, 0)
    BY DEF Flattens
  <2> QED
    BY <1>3, <1>4, <2>1
<1>5. CASE k # 0
  <2>1. k - 1 \in Nat /\ k - 1 \notin T
    BY <1>2, <1>3, <1>5
  <2>2. PICK g : Flattens(g, cs, k - 1)
    BY <2>1
  <2> DEFINE h == [i \in 1..k |-> IF i = k THEN (IF k = 1 THEN cs[1] ELSE g[k - 1] \o cs[k])
                                 ELSE g[i]]
             e == [i \in 1..k |-> IF i = 1 THEN cs[1] ELSE h[i - 1] \o cs[i]]
  <2>3. \A i \in 1..(k - 1) : g[i] = IF i = 1 THEN cs[1] ELSE g[i - 1] \o cs[i]
    BY <2>2 DEF Flattens
  <2>4. \A i \in 1..k : h[i] = IF i = 1 THEN cs[1] ELSE h[i - 1] \o cs[i]
    <3> SUFFICES ASSUME NEW i \in 1..k
                 PROVE  h[i] = IF i = 1 THEN cs[1] ELSE h[i - 1] \o cs[i]
      OBVIOUS
    <3>1. i # 1 => i - 1 \in 1..k /\ i - 1 # k
      BY <1>3
    <3>2. i # 1 => h[i - 1] = g[i - 1]
      BY <3>1
    <3>3. CASE i = k
      BY <3>2, <3>3
    <3>4. CASE i # k
      <4>1. i \in 1..(k - 1) /\ h[i] = g[i]
        BY <1>3, <3>4
      <4> QED
        BY <2>3, <3>2, <4>1
    <3> QED
      BY <3>3, <3>4
  <2>5. h = e
    BY <2>4
  <2>6. Flattens(h, cs, k)
    BY <2>5 DEF Flattens
  <2> QED
    BY <1>3, <2>6
<1> QED
  BY <1>4, <1>5

\* What FlattenSeq makes of strings comes one string at a time.
LEMMA Flattened ==
  ASSUME NEW cs \in Seq(String)
  PROVE  \E f : IsFlat(f, cs) /\ M!FlattenSeq(cs) = f[Len(cs)]
<1> DEFINE n == Len(cs)
<1>1. n \in Nat /\ \A i \in 1..n : cs[i] \in String
  BY LenProperties, ElementOfSeq
<1>2. <<>> \in String /\ \A a, b \in String : a \o b \in String
  BY ConcatProperties DEF String
<1>3. CASE n = 0
  <2> DEFINE f == [i \in 0..n |-> <<>>]
  <2>1. IsFlat(f, cs)
    BY <1>2, <1>3 DEF IsFlat
  <2>2. M!FlattenSeq(cs) = cs /\ cs = <<>>
    BY <1>3 DEF M!FlattenSeq
  <2> QED
    BY <1>3, <2>1, <2>2
<1>4. CASE n # 0
  <2> DEFINE g == CHOOSE h : Flattens(h, cs, n)
  <2>1. Flattens(g, cs, n)
    BY <1>1, FlattensExists
  <2>2. M!FlattenSeq(cs) = g[n]
    BY <1>4 DEF M!FlattenSeq, Flattens
  <2> HIDE DEF g
  <2>3. \A i \in 1..n : g[i] = IF i = 1 THEN cs[1] ELSE g[i - 1] \o cs[i]
    BY <2>1 DEF Flattens
  <2>4. \A i \in 1..n : g[i] \in String
    <3> DEFINE T == {i \in 1..n : g[i] \notin String}
    <3>1. SUFFICES ASSUME T # {} PROVE FALSE
      OBVIOUS
    <3>2. PICK k \in T : \A m \in T : k <= m
      <4>1. T \subseteq Nat
        BY <1>1
      <4> HIDE DEF T
      <4> QED
        BY <3>1, <4>1, Least
    <3>3. k \in 1..n /\ g[k] \notin String
      OBVIOUS
    <3>4. k # 1
      BY <1>1, <2>3, <3>3
    <3>5. k - 1 \in 1..n /\ k - 1 \notin T
      BY <1>1, <3>2, <3>3, <3>4
    <3>6. g[k - 1] \in String
      BY <3>5
    <3>7. g[k] = g[k - 1] \o cs[k]
      BY <2>3, <3>3, <3>4
    <3> QED
      BY <1>1, <1>2, <3>3, <3>6, <3>7
  <2> DEFINE f == [i \in 0..n |-> IF i = 0 THEN <<>> ELSE g[i]]
  <2>5. f \in [0..n -> String] /\ f[0] = <<>> /\ f[n] = g[n]
    BY <1>1, <1>2, <1>4, <2>4
  <2>6. \A i \in 1..n : f[i] = f[i - 1] \o cs[i]
    <3> SUFFICES ASSUME NEW i \in 1..n PROVE f[i] = f[i - 1] \o cs[i]
      OBVIOUS
    <3>1. CASE i = 1
      <4>1. f[1] = cs[1] /\ f[0] = <<>>
        BY <1>1, <2>3, <3>1
      <4>2. <<>> \o cs[1] = cs[1]
        BY <1>1, <3>1, ConcatEmptySeq DEF String
      <4> QED
        BY <3>1, <4>1, <4>2
    <3>2. CASE i # 1
      <4>1. i - 1 \in 1..n
        BY <1>1, <3>2
      <4>2. f[i] = g[i] /\ f[i - 1] = g[i - 1]
        BY <1>1, <4>1
      <4> QED
        BY <2>3, <3>2, <4>2
    <3> QED
      BY <3>1, <3>2
  <2> HIDE DEF f
  <2>7. IsFlat(f, cs)
    BY <2>5, <2>6 DEF IsFlat
  <2> QED
    BY <2>2, <2>5, <2>7
<1> QED
  BY <1>3, <1>4

----------------------------------------------------------------------------
(* Codes: strings in a row that can be told apart. *)

EndsIn(s, c) == s = <<>> \/ s[Len(s)] = c

\* What follows a mark tells the last mark.
LEMMA SplitTells ==
  ASSUME NEW c \in Nat, NEW a \in String, NEW b \in String, NEW e \in String, NEW f \in String,
         EndsIn(a, c), EndsIn(e, c), Lacks(b, c), Lacks(f, c),
         a \o b = e \o f
  PROVE  a = e /\ b = f
<1> DEFINE w == a \o b
<1>1. /\ Len(w) = Len(a) + Len(b)
      /\ \A i \in 1..(Len(a) + Len(b)) : w[i] = IF i <= Len(a) THEN a[i] ELSE b[i - Len(a)]
  BY ConcatProperties DEF String
<1>2. /\ Len(w) = Len(e) + Len(f)
      /\ \A i \in 1..(Len(e) + Len(f)) : w[i] = IF i <= Len(e) THEN e[i] ELSE f[i - Len(e)]
  <2>1. w = e \o f
    OBVIOUS
  <2> HIDE DEF w
  <2> QED
    BY <2>1, ConcatProperties DEF String
<1>3. Len(a) \in Nat /\ Len(b) \in Nat /\ Len(e) \in Nat /\ Len(f) \in Nat
  BY LenProperties DEF String
<1>4. (a # <<>> => Len(a) > 0) /\ (e # <<>> => Len(e) > 0)
  BY EmptySeq DEF String
<1>5. a = <<>> => Len(a) = 0
  OBVIOUS
<1>6. e = <<>> => Len(e) = 0
  OBVIOUS
<1> HIDE DEF w
<1>7. ~(Len(a) < Len(e))
  <2> SUFFICES ASSUME Len(a) < Len(e) PROVE FALSE
    OBVIOUS
  <2>1. e[Len(e)] = c
    BY <1>3, <1>6 DEF EndsIn
  <2>2. w[Len(e)] = c
    BY <1>2, <1>3, <2>1
  <2>3. Len(e) - Len(a) \in 1..Len(b) /\ w[Len(e)] = b[Len(e) - Len(a)]
    BY <1>1, <1>2, <1>3
  <2> QED
    BY <2>2, <2>3 DEF Lacks
<1>8. ~(Len(e) < Len(a))
  <2> SUFFICES ASSUME Len(e) < Len(a) PROVE FALSE
    OBVIOUS
  <2>1. a[Len(a)] = c
    BY <1>3, <1>5 DEF EndsIn
  <2>2. w[Len(a)] = c
    BY <1>1, <1>3, <2>1
  <2>3. Len(a) - Len(e) \in 1..Len(f) /\ w[Len(a)] = f[Len(a) - Len(e)]
    BY <1>1, <1>2, <1>3
  <2> QED
    BY <2>2, <2>3 DEF Lacks
<1>9. Len(a) = Len(e) /\ Len(b) = Len(f)
  BY <1>1, <1>2, <1>3, <1>7, <1>8
<1>10. \A i \in 1..Len(a) : a[i] = e[i]
  BY <1>1, <1>2, <1>3, <1>9
<1>11. \A i \in 1..Len(b) : b[i] = f[i]
  <2> SUFFICES ASSUME NEW i \in 1..Len(b) PROVE b[i] = f[i]
    OBVIOUS
  <2>1. Len(a) + i \in 1..(Len(a) + Len(b)) /\ ~(Len(a) + i <= Len(a)) /\ Len(a) + i - Len(a) = i
    BY <1>3
  <2> QED
    BY <1>1, <1>2, <1>9, <2>1
<1> QED
  BY <1>9, <1>10, <1>11, SeqEqual DEF String

\* The last words of a row that ends in codewords can be told.
TellsLast(C, c) ==
  \A a, e \in String : \A b, f \in C :
    EndsIn(a, c) /\ EndsIn(e, c) /\ a \o b = e \o f => a = e /\ b = f

IsCode(C, c) ==
  /\ C \subseteq String
  /\ \A b \in C : b # <<>> /\ EndsIn(b, c)
  /\ TellsLast(C, c)

\* A row of n codewords is one of n - 1 and the last of them.
RowAt(f, cs, n, C, c) ==
  /\ n - 1 \in 0..Len(cs)
  /\ f[n - 1] \in String /\ cs[n] \in C /\ f[n] = f[n - 1] \o cs[n]
  /\ f[n] # <<>> /\ EndsIn(f[n], c)

\* A row of codewords ends as they do.
LEMMA RowEnds ==
  ASSUME NEW c \in Nat, NEW C, IsCode(C, c), NEW cs \in Seq(C), NEW f, IsFlat(f, cs),
         NEW n \in 1..Len(cs)
  PROVE  RowAt(f, cs, n, C, c)
<1>1. n - 1 \in 0..Len(cs) /\ Len(cs) \in Nat
  BY LenProperties
<1>2. f[n - 1] \in String /\ f[n] = f[n - 1] \o cs[n]
  BY <1>1 DEF IsFlat
<1>3. cs[n] \in C
  BY ElementOfSeq
<1>4. cs[n] \in String /\ cs[n] # <<>> /\ EndsIn(cs[n], c)
  BY <1>3 DEF IsCode
<1> DEFINE a == f[n - 1]
           b == cs[n]
           w == f[n]
<1>5. a \in Seq(Nat) /\ b \in Seq(Nat) /\ b # <<>> /\ w = a \o b
  BY <1>2, <1>4 DEF String
<1>6. b[Len(b)] = c
  BY <1>4 DEF EndsIn
<1> HIDE DEF a, b, w
<1>7. Len(a) \in Nat /\ Len(b) \in Nat /\ Len(b) > 0
  BY <1>5, LenProperties, EmptySeq
<1>8. /\ w \in Seq(Nat) /\ Len(w) = Len(a) + Len(b)
      /\ \A i \in 1..(Len(a) + Len(b)) : w[i] = IF i <= Len(a) THEN a[i] ELSE b[i - Len(a)]
  BY <1>5, ConcatProperties
<1>9. w[Len(w)] = c
  <2>1. Len(w) \in 1..(Len(a) + Len(b)) /\ ~(Len(w) <= Len(a)) /\ Len(w) - Len(a) = Len(b)
    BY <1>7, <1>8
  <2>2. w[Len(w)] = b[Len(w) - Len(a)]
    BY <1>8, <2>1
  <2> QED
    BY <1>6, <2>1, <2>2
<1>10. w # <<>>
  BY <1>7, <1>8
<1> QED
  BY <1>1, <1>2, <1>3, <1>9, <1>10 DEF RowAt, EndsIn, w

\* Two rows of codewords that look alike are the same.
LEMMA Decoded ==
  ASSUME NEW c \in Nat, NEW C, IsCode(C, c), NEW cs \in Seq(C), NEW ds \in Seq(C),
         M!FlattenSeq(cs) = M!FlattenSeq(ds)
  PROVE  cs = ds
<1>1. C \subseteq String
  BY DEF IsCode
<1>2. cs \in Seq(String) /\ ds \in Seq(String)
  BY <1>1, SeqMonotonic, Zenon
<1>3. PICK f : IsFlat(f, cs) /\ M!FlattenSeq(cs) = f[Len(cs)]
  BY <1>2, Flattened
<1>4. PICK g : IsFlat(g, ds) /\ M!FlattenSeq(ds) = g[Len(ds)]
  BY <1>2, Flattened
<1>5. Len(cs) \in Nat /\ Len(ds) \in Nat
  BY LenProperties
<1>6. f[0] = <<>> /\ g[0] = <<>>
  BY <1>3, <1>4 DEF IsFlat
<1> DEFINE Same(i, j) == i = j /\ \A k \in 1..i : cs[k] = ds[k]
           T == {i \in 0..Len(cs) : \E j \in 0..Len(ds) : f[i] = g[j] /\ ~Same(i, j)}
<1>7. T = {}
  <2> SUFFICES ASSUME T # {} PROVE FALSE
    OBVIOUS
  <2>1. PICK i \in T : \A m \in T : i <= m
    <3>1. T \subseteq Nat
      BY <1>5
    <3> HIDE DEF T
    <3> QED
      BY <3>1, Least
  <2>2. PICK j \in 0..Len(ds) : f[i] = g[j] /\ ~Same(i, j)
    OBVIOUS
  <2>3. i \in 0..Len(cs)
    OBVIOUS
  <2> DEFINE ii == i - 1
             jj == j - 1
  <2>4. i = 0 => j = 0
    <3> SUFFICES ASSUME i = 0, j # 0 PROVE FALSE
      OBVIOUS
    <3>1. j \in 1..Len(ds)
      BY <1>5
    <3>2. RowAt(g, ds, j, C, c)
      BY <1>4, <3>1, RowEnds
    <3> QED
      BY <1>6, <2>2, <3>2 DEF RowAt
  <2>5. i # 0 => j # 0
    <3> SUFFICES ASSUME i # 0, j = 0 PROVE FALSE
      OBVIOUS
    <3>1. i \in 1..Len(cs)
      BY <1>5, <2>3
    <3>2. RowAt(f, cs, i, C, c)
      BY <1>3, <3>1, RowEnds
    <3> QED
      BY <1>6, <2>2, <3>2 DEF RowAt
  <2>6. i # 0
    BY <2>2, <2>4
  <2>7. i \in 1..Len(cs) /\ j \in 1..Len(ds)
    BY <1>5, <2>3, <2>5, <2>6
  <2>8. /\ ii \in 0..Len(cs) /\ f[ii] \in String /\ cs[i] \in C /\ f[i] = f[ii] \o cs[i]
    <3>1. RowAt(f, cs, i, C, c)
      BY <1>3, <2>7, RowEnds
    <3> QED
      BY <3>1 DEF RowAt
  <2>9. /\ jj \in 0..Len(ds) /\ g[jj] \in String /\ ds[j] \in C /\ g[j] = g[jj] \o ds[j]
    <3>1. RowAt(g, ds, j, C, c)
      BY <1>4, <2>7, RowEnds
    <3> QED
      BY <3>1 DEF RowAt
  <2>10. EndsIn(f[ii], c)
    <3>1. CASE ii = 0
      BY <1>6, <3>1 DEF EndsIn
    <3>2. CASE ii # 0
      <4>1. ii \in 1..Len(cs)
        BY <1>5, <2>8, <3>2
      <4> HIDE DEF ii
      <4>2. RowAt(f, cs, ii, C, c)
        BY <1>3, <4>1, RowEnds
      <4> QED
        BY <4>2 DEF RowAt
    <3> QED
      BY <3>1, <3>2
  <2>11. EndsIn(g[jj], c)
    <3>1. CASE jj = 0
      BY <1>6, <3>1 DEF EndsIn
    <3>2. CASE jj # 0
      <4>1. jj \in 1..Len(ds)
        BY <1>5, <2>9, <3>2
      <4> HIDE DEF jj
      <4>2. RowAt(g, ds, jj, C, c)
        BY <1>4, <4>1, RowEnds
      <4> QED
        BY <4>2 DEF RowAt
    <3> QED
      BY <3>1, <3>2
  <2>12. f[ii] = g[jj] /\ cs[i] = ds[j]
    <3>1. f[ii] \o cs[i] = g[jj] \o ds[j]
      BY <2>2, <2>8, <2>9
    <3>2. TellsLast(C, c)
      BY DEF IsCode
    <3> HIDE DEF ii, jj
    <3> QED
      BY <2>8, <2>9, <2>10, <2>11, <3>1, <3>2 DEF TellsLast
  <2>13. Same(ii, jj)
    <3>1. ~(i <= ii)
      BY <1>5, <2>3
    <3>2. ii \notin T
      <4> HIDE DEF T, ii
      <4> QED
        BY <2>1, <3>1
    <3> HIDE DEF Same, ii, jj
    <3> QED
      BY <2>8, <2>9, <2>12, <3>2
  <2>14. i = j
    BY <1>5, <2>7, <2>13
  <2>15. \A k \in 1..i : cs[k] = ds[k]
    <3> SUFFICES ASSUME NEW k \in 1..i PROVE cs[k] = ds[k]
      OBVIOUS
    <3>1. CASE k = i
      BY <2>12, <2>14, <3>1
    <3>2. CASE k # i
      <4>1. k \in 1..ii
        BY <1>5, <2>7, <3>2
      <4> QED
        BY <2>13, <4>1
    <3> QED
      BY <3>1, <3>2
  <2> QED
    BY <2>2, <2>14, <2>15
<1>8. f[Len(cs)] = g[Len(ds)]
  BY <1>3, <1>4
<1>9. Len(cs) \in 0..Len(cs) /\ Len(ds) \in 0..Len(ds)
  BY <1>5
<1>10. Same(Len(cs), Len(ds))
  <2> HIDE DEF Same
  <2> QED
    BY <1>7, <1>8, <1>9
<1> QED
  BY <1>10, SeqEqual

----------------------------------------------------------------------------
(* Words, variables and numbers as bytes *)

\* Strings may be joined from either end.
LEMMA Grouped == \A a, b, s \in String : (a \o b) \o s = a \o (b \o s)
BY ConcatAssociative DEF String

\* What stands before one string is not changed by what stands behind it.
LEMMA CancelSuffix ==
  ASSUME NEW a \in String, NEW b \in String, NEW s \in String, a \o s = b \o s
  PROVE  a = b
BY ConcatSimplifications DEF String

IsMarked(k, a, c, b) == k = a \o <<c>> \o b

\* A mark and what follows it tell the last mark.
LEMMA LastJoinTells ==
  ASSUME NEW c \in Nat, NEW a \in String, NEW b \in String, NEW e \in String, NEW f \in String,
         Lacks(b, c), Lacks(f, c),
         NEW k, IsMarked(k, a, c, b), IsMarked(k, e, c, f)
  PROVE  a = e /\ b = f
<1>1. <<c>> \in Seq(Nat) /\ Len(<<c>>) = 1 /\ <<c>>[1] = c
  OBVIOUS
<1> DEFINE s == a \o <<c>>
           t == e \o <<c>>
<1>2. s \in Seq(Nat) /\ Len(s) = Len(a) + 1 /\ s[Len(a) + 1] = c /\ Len(a) \in Nat
  BY <1>1, ConcatProperties, LenProperties DEF String
<1>3. t \in Seq(Nat) /\ Len(t) = Len(e) + 1 /\ t[Len(e) + 1] = c /\ Len(e) \in Nat
  BY <1>1, ConcatProperties, LenProperties DEF String
<1>4. s \o b = t \o f
  BY DEF IsMarked
<1>5. s \in String /\ t \in String
  BY <1>2, <1>3 DEF String
<1>6. EndsIn(s, c) /\ EndsIn(t, c)
  <2> HIDE DEF s, t
  <2> QED
    BY <1>2, <1>3 DEF EndsIn
<1>7. s = t /\ b = f
  <2> HIDE DEF s, t
  <2> QED
    BY <1>4, <1>5, <1>6, SplitTells
<1>8. a = e
  <2>1. <<c>> \in String
    BY <1>1 DEF String
  <2>2. a \o <<c>> = e \o <<c>>
    BY <1>7
  <2> QED
    BY <2>1, <2>2, CancelSuffix
<1> QED
  BY <1>7, <1>8

\* A text has no NUL.
LEMMA TextLacksNul ==
  ASSUME NEW s \in Text
  PROVE  s \in String /\ Lacks(s, 0)
<1>1. 1..255 \subseteq Nat
  OBVIOUS
<1>2. s \in String
  BY <1>1, SeqMonotonic, Zenon DEF Text, String
<1>3. \A i \in 1..Len(s) : s[i] \in 1..255
  BY ElementOfSeq DEF Text
<1>4. \A n \in 1..255 : n # 0
  OBVIOUS
<1>5. \A i \in 1..Len(s) : s[i] # 0
  BY <1>3, <1>4
<1> QED
  BY <1>2, <1>5 DEF Lacks

WordCode == {w \o <<0>> : w \in Text}

\* The words of a command, with a NUL behind each, can be told apart.
LEMMA WordsAreCode == IsCode(WordCode, 0)
<1>1. <<0>> \in String /\ Len(<<0>>) = 1 /\ <<0>>[1] = 0
  BY DEF String
<1>2. ASSUME NEW b \in WordCode PROVE b \in String /\ b # <<>> /\ EndsIn(b, 0)
  <2>1. PICK w \in Text : b = w \o <<0>>
    BY DEF WordCode
  <2>2. w \in Seq(Nat)
    BY TextLacksNul DEF String
  <2>3. b \in Seq(Nat) /\ Len(b) = Len(w) + 1 /\ b[Len(w) + 1] = 0 /\ Len(w) \in Nat
    BY <1>1, <2>1, <2>2, ConcatProperties, LenProperties DEF String
  <2> QED
    BY <2>3 DEF String, EndsIn
<1>3. ASSUME NEW a \in String, NEW e \in String, NEW b \in WordCode, NEW f \in WordCode,
             EndsIn(a, 0), EndsIn(e, 0), a \o b = e \o f
      PROVE  a = e /\ b = f
  <2>1. PICK v \in Text : b = v \o <<0>>
    BY DEF WordCode
  <2>2. PICK w \in Text : f = w \o <<0>>
    BY DEF WordCode
  <2>3. v \in String /\ Lacks(v, 0) /\ w \in String /\ Lacks(w, 0)
    BY TextLacksNul
  <2> DEFINE z == <<0>>
             l == a \o v
             r == e \o w
  <2>4. z \in String
    BY <1>1
  <2> HIDE DEF z
  <2>5. a \o b = l \o z
    <3>1. b = v \o z
      BY <2>1 DEF z
    <3>2. (a \o v) \o z = a \o (v \o z)
      BY <2>3, <2>4, Grouped, Zenon
    <3> QED
      BY <3>1, <3>2
  <2>6. e \o f = r \o z
    <3>1. f = w \o z
      BY <2>2 DEF z
    <3>2. (e \o w) \o z = e \o (w \o z)
      BY <2>3, <2>4, Grouped, Zenon
    <3> QED
      BY <3>1, <3>2
  <2>7. l \in String /\ r \in String
    BY <2>3, ConcatProperties DEF String
  <2>8. l \o z = r \o z
    BY <1>3, <2>5, <2>6
  <2>9. l = r
    <3> HIDE DEF l, r
    <3> QED
      BY <2>4, <2>7, <2>8, CancelSuffix
  <2>10. a \o v = e \o w
    BY <2>9
  <2>11. a = e /\ v = w
    BY <1>3, <2>3, <2>10, SplitTells
  <2> QED
    BY <2>1, <2>2, <2>11
<1> QED
  BY <1>2, <1>3 DEF IsCode, TellsLast

\* The command can be read off its bytes.
LEMMA WordBytesTell ==
  ASSUME NEW C \in Seq(Text), NEW E \in Seq(Text), M!WordBytes(C) = M!WordBytes(E)
  PROVE  C = E
<1> DEFINE cs == [i \in DOMAIN C |-> C[i] \o <<0>>]
           ds == [i \in DOMAIN E |-> E[i] \o <<0>>]
<1>1. /\ DOMAIN C = 1..Len(C) /\ Len(C) \in Nat /\ DOMAIN E = 1..Len(E) /\ Len(E) \in Nat
      /\ \A i \in 1..Len(C) : C[i] \in Text
      /\ \A i \in 1..Len(E) : E[i] \in Text
  BY LenProperties, ElementOfSeq
<1>2. cs \in [1..Len(C) -> WordCode] /\ ds \in [1..Len(E) -> WordCode]
  BY <1>1 DEF WordCode
<1>3. M!FlattenSeq(cs) = M!FlattenSeq(ds)
  BY DEF M!WordBytes
<1>4. \A i \in 1..Len(C) : cs[i] = C[i] \o <<0>>
  BY <1>1
<1>5. \A i \in 1..Len(E) : ds[i] = E[i] \o <<0>>
  BY <1>1
<1> HIDE DEF cs, ds
<1>6. cs \in Seq(WordCode) /\ ds \in Seq(WordCode) /\ Len(cs) = Len(C) /\ Len(ds) = Len(E)
  BY <1>1, <1>2
<1>7. cs = ds
  BY <1>3, <1>6, WordsAreCode, Decoded
<1>8. Len(C) = Len(E)
  BY <1>6, <1>7
<1>9. ASSUME NEW i \in 1..Len(C) PROVE C[i] = E[i]
  <2>1. C[i] \o <<0>> = E[i] \o <<0>>
    BY <1>4, <1>5, <1>7, <1>8
  <2>2. C[i] \in String /\ E[i] \in String /\ <<0>> \in String
    BY <1>1, <1>8, TextLacksNul DEF String
  <2> QED
    BY <2>1, <2>2, CancelSuffix
<1> QED
  BY <1>8, <1>9, SeqEqual

IsMoved(a, k, p, q) == k \in String /\ a \o k = (a \o p) \o q

\* What stands before two strings can be joined to the first.
LEMMA Moved ==
  ASSUME NEW a \in String, NEW p \in String, NEW q \in String, NEW k, k = p \o q
  PROVE  IsMoved(a, k, p, q)
<1>1. k \in String
  BY ConcatProperties DEF String
<1>2. (a \o p) \o q = a \o (p \o q)
  BY Grouped, Zenon
<1> QED
  BY <1>1, <1>2 DEF IsMoved

IsRow(k, n, z, v, s, u) == k = n \o z \o v \o z \o s \o u

\* What stands before five strings in a row can be joined to the first.
LEMMA Carry ==
  ASSUME NEW a \in String, NEW n \in String, NEW v \in String, NEW s \in String,
         NEW z \in String, NEW u \in String,
         NEW k, IsRow(k, n, z, v, s, u)
  PROVE  IsRow(a \o k, a \o n, z, v, s, u)
<1>1. PICK k1 : k1 = n \o z
  OBVIOUS
<1>2. PICK k2 : k2 = k1 \o v
  OBVIOUS
<1>3. PICK k3 : k3 = k2 \o z
  OBVIOUS
<1>4. PICK k4 : k4 = k3 \o s
  OBVIOUS
<1>5. k1 \in String /\ IsMoved(a, k1, n, z)
  <2>1. IsMoved(a, k1, n, z)
    BY <1>1, Moved
  <2> QED
    BY <2>1 DEF IsMoved
<1>6. k2 \in String /\ IsMoved(a, k2, k1, v)
  <2>1. IsMoved(a, k2, k1, v)
    BY <1>2, <1>5, Moved
  <2> QED
    BY <2>1 DEF IsMoved
<1>7. k3 \in String /\ IsMoved(a, k3, k2, z)
  <2>1. IsMoved(a, k3, k2, z)
    BY <1>3, <1>6, Moved
  <2> QED
    BY <2>1 DEF IsMoved
<1>8. k4 \in String /\ IsMoved(a, k4, k3, s)
  <2>1. IsMoved(a, k4, k3, s)
    BY <1>4, <1>7, Moved
  <2> QED
    BY <2>1 DEF IsMoved
<1>9. k = k4 \o u
  BY <1>1, <1>2, <1>3, <1>4 DEF IsRow
<1>10. IsMoved(a, k, k4, u)
  BY <1>8, <1>9, Moved
<1>11. a \o k4 = (a \o n) \o z \o v \o z \o s
  BY <1>5, <1>6, <1>7, <1>8, Zenon DEF IsMoved
<1> QED
  BY <1>10, <1>11, Zenon DEF IsMoved, IsRow

\* The fields of a variable can be read off from behind.
LEMMA FieldsTell ==
  ASSUME NEW c \in Nat, NEW u \in String,
         NEW a \in String, NEW v \in String, NEW s \in String,
         NEW e \in String, NEW w \in String, NEW t \in String,
         Lacks(v, c), Lacks(s, c), Lacks(w, c), Lacks(t, c),
         NEW k, IsRow(k, a, <<c>>, v, s, u), IsRow(k, e, <<c>>, w, t, u)
  PROVE  a = e /\ v = w /\ s = t
<1>0. \A p, q \in String : p \o q \in String
  BY ConcatProperties DEF String
<1>1. <<c>> \in String
  BY DEF String
<1> DEFINE av == a \o <<c>> \o v
           ew == e \o <<c>> \o w
           as == av \o <<c>> \o s
           et == ew \o <<c>> \o t
<1>2. av \in String /\ ew \in String
  <2>1. a \o <<c>> \in String /\ e \o <<c>> \in String
    BY <1>0, <1>1
  <2> QED
    BY <1>0, <2>1
<1>3. as \in String /\ et \in String
  <2> HIDE DEF av, ew
  <2>1. av \o <<c>> \in String /\ ew \o <<c>> \in String
    BY <1>0, <1>1, <1>2
  <2> QED
    BY <1>0, <2>1
<1>4. as = et
  <2>1. as \o u = et \o u
    BY DEF IsRow
  <2> HIDE DEF as, et
  <2> QED
    BY <1>3, <2>1, CancelSuffix
<1>5. av = ew /\ s = t
  <2>1. PICK x, y : x = av /\ y = ew
    OBVIOUS
  <2>2. IsMarked(as, x, c, s) /\ IsMarked(as, y, c, t) /\ x \in String /\ y \in String
    BY <1>2, <1>4, <2>1 DEF IsMarked
  <2> HIDE DEF as
  <2>3. x = y /\ s = t
    BY <2>2, LastJoinTells
  <2> QED
    BY <2>1, <2>3
<1>6. a = e /\ v = w
  <2>1. IsMarked(av, a, c, v) /\ IsMarked(av, e, c, w)
    BY <1>5 DEF IsMarked
  <2> HIDE DEF av
  <2> QED
    BY <2>1, LastJoinTells
<1> QED
  BY <1>5, <1>6

\* A valid variable, whose secret has a name if it is one.
ValidVariable == {e \in Variable : M!EnvVarValid(e) /\ e.value_from # <<>>}

EntryHas(e, n, v, s) ==
  /\ n = e.name /\ v = e.value /\ s = M!SecretOf(e)
  /\ n \in String /\ v \in String /\ s \in String
  /\ Len(n) > 0 /\ Lacks(n, 0) /\ Lacks(n, 1) /\ Lacks(v, 0) /\ Lacks(s, 0)

\* What is in the fields of a variable.
LEMMA EntryFields ==
  ASSUME NEW e \in ValidVariable
  PROVE  EntryHas(e, e.name, e.value, M!SecretOf(e))
<1>1. e \in Variable /\ M!EnvVarValid(e)
  BY DEF ValidVariable
<1>2. e.name \in Text /\ e.value \in Text /\ e.value_from \in {Nothing} \cup Text
  BY <1>1 DEF Variable
<1>3. <<>> \in Text
  BY EmptySeq DEF Text
<1>4. M!SecretOf(e) \in Text
  BY <1>2, <1>3 DEF M!SecretOf
<1>5. /\ e.name \in String /\ Lacks(e.name, 0) /\ e.value \in String /\ Lacks(e.value, 0)
      /\ M!SecretOf(e) \in String /\ Lacks(M!SecretOf(e), 0)
  BY <1>2, <1>4, TextLacksNul
<1> DEFINE n == e.name
<1>6. Len(n) > 0 /\ M!Bytes(n) \subseteq 97..122 \cup 65..90 \cup 48..57 \cup {95}
  <2>1. Len(n) \in Nat
    BY <1>5, LenProperties DEF String
  <2> QED
    BY <1>1, <2>1 DEF M!EnvVarValid, M!Lower, M!Upper, M!Digit, M!Underscore
<1>7. \A i \in 1..Len(n) : n[i] \in M!Bytes(n)
  <2>1. M!Bytes(n) = {n[i] : i \in DOMAIN n}
    BY DEF M!Bytes, M!Range
  <2>2. DOMAIN n = 1..Len(n)
    BY <1>5, LenProperties DEF String
  <2> QED
    BY <2>1, <2>2
<1>8. 1 \notin 97..122 \cup 65..90 \cup 48..57 \cup {95}
  OBVIOUS
<1>9. Lacks(n, 1)
  BY <1>6, <1>7, <1>8 DEF Lacks
<1> QED
  BY <1>5, <1>6, <1>9 DEF EntryHas

\* Variables with the same fields are the same.
LEMMA EntryEqual ==
  ASSUME NEW e \in ValidVariable, NEW f \in ValidVariable,
         e.name = f.name, e.value = f.value, M!SecretOf(e) = M!SecretOf(f)
  PROVE  e = f
<1>1. e.value_from # <<>> /\ f.value_from # <<>> /\ e \in Variable /\ f \in Variable
  BY DEF ValidVariable
<1>2. e.value_from = f.value_from
  BY <1>1 DEF M!SecretOf
<1> QED
  BY <1>1, <1>2 DEF Variable

\* The last variable of several can be told.
LEMMA EntryTells ==
  ASSUME NEW a \in String, NEW e \in String, NEW b \in ValidVariable, NEW f \in ValidVariable,
         EndsIn(a, 1), EndsIn(e, 1), a \o M!EntryBytes(b) = e \o M!EntryBytes(f)
  PROVE  a = e /\ b = f
<1>1. PICK n, v, s : EntryHas(b, n, v, s)
  BY EntryFields
<1>2. PICK m, w, t : EntryHas(f, m, w, t)
  BY EntryFields
<1>3. PICK c \in Nat : c = 0
  OBVIOUS
<1>4. PICK u : u = <<1>>
  OBVIOUS
<1>5. <<c>> \in String /\ u \in String
  <2>1. 1 \in Nat
    OBVIOUS
  <2> QED
    BY <1>4, <2>1 DEF String
<1>6. M!EntryBytes(b) = n \o <<c>> \o v \o <<c>> \o s \o u
  BY <1>1, <1>3, <1>4 DEF M!EntryBytes, EntryHas
<1>7. M!EntryBytes(f) = m \o <<c>> \o w \o <<c>> \o t \o u
  BY <1>2, <1>3, <1>4 DEF M!EntryBytes, EntryHas
<1>8. /\ n \in String /\ v \in String /\ s \in String
      /\ m \in String /\ w \in String /\ t \in String
      /\ Lacks(n, 1) /\ Lacks(m, 1)
      /\ Lacks(v, c) /\ Lacks(s, c) /\ Lacks(w, c) /\ Lacks(t, c)
  BY <1>1, <1>2, <1>3 DEF EntryHas
<1>9. IsRow(a \o M!EntryBytes(b), a \o n, <<c>>, v, s, u)
  <2> DEFINE k == M!EntryBytes(b)
             z == <<c>>
  <2>1. IsRow(k, n, z, v, s, u) /\ z \in String
    BY <1>5, <1>6 DEF IsRow
  <2> HIDE DEF k, z
  <2>2. IsRow(a \o k, a \o n, z, v, s, u)
    BY <1>5, <1>8, <2>1, Carry
  <2> QED
    BY <2>2 DEF k, z
<1>10. IsRow(e \o M!EntryBytes(f), e \o m, <<c>>, w, t, u)
  <2> DEFINE k == M!EntryBytes(f)
             z == <<c>>
  <2>1. IsRow(k, m, z, w, t, u) /\ z \in String
    BY <1>5, <1>7 DEF IsRow
  <2> HIDE DEF k, z
  <2>2. IsRow(e \o k, e \o m, z, w, t, u)
    BY <1>5, <1>8, <2>1, Carry
  <2> QED
    BY <2>2 DEF k, z
<1>11. PICK x : x = a \o M!EntryBytes(b) /\ x = e \o M!EntryBytes(f)
  OBVIOUS
<1> DEFINE l == a \o n
           r == e \o m
<1>12. l \in String /\ r \in String
  BY <1>8, ConcatProperties DEF String
<1>13. l = r /\ v = w /\ s = t
  <2>1. IsRow(x, l, <<c>>, v, s, u) /\ IsRow(x, r, <<c>>, w, t, u)
    BY <1>9, <1>10, <1>11
  <2> HIDE DEF l, r
  <2> QED
    BY <1>5, <1>8, <1>12, <2>1, FieldsTell
<1>14. a = e /\ n = m
  <2>1. a \o n = e \o m
    BY <1>13
  <2>2. PICK i \in Nat : i = 1
    OBVIOUS
  <2>3. EndsIn(a, i) /\ EndsIn(e, i) /\ Lacks(n, i) /\ Lacks(m, i)
    BY <1>8, <2>2
  <2> QED
    BY <1>8, <2>1, <2>3, SplitTells
<1>15. b.name = f.name /\ b.value = f.value /\ M!SecretOf(b) = M!SecretOf(f)
  BY <1>1, <1>2, <1>13, <1>14 DEF EntryHas
<1> QED
  BY <1>14, <1>15, EntryEqual

VariableCode == {M!EntryBytes(e) : e \in ValidVariable}

\* Two strings in a row.
IsConcat(w, a, b) ==
  /\ w \in Seq(Nat) /\ Len(w) = Len(a) + Len(b)
  /\ \A i \in 1..Len(a) : w[i] = a[i]
  /\ \A i \in 1..Len(b) : w[Len(a) + i] = b[i]

\* What two strings in a row look like.
LEMMA Concatenated ==
  ASSUME NEW a \in String, NEW b \in String, NEW w, w = a \o b
  PROVE  IsConcat(w, a, b)
<1>1. /\ w \in Seq(Nat) /\ Len(w) = Len(a) + Len(b)
      /\ \A i \in 1..(Len(a) + Len(b)) : w[i] = IF i <= Len(a) THEN a[i] ELSE b[i - Len(a)]
  BY ConcatProperties DEF String
<1>2. Len(a) \in Nat /\ Len(b) \in Nat
  BY LenProperties DEF String
<1>3. \A i \in 1..Len(a) : w[i] = a[i]
  BY <1>1, <1>2
<1>4. \A i \in 1..Len(b) : w[Len(a) + i] = b[i]
  <2> SUFFICES ASSUME NEW i \in 1..Len(b) PROVE w[Len(a) + i] = b[i]
    OBVIOUS
  <2>1. /\ Len(a) + i \in 1..(Len(a) + Len(b)) /\ ~(Len(a) + i <= Len(a))
        /\ Len(a) + i - Len(a) = i
    BY <1>2
  <2> QED
    BY <1>1, <2>1
<1> QED
  BY <1>1, <1>3, <1>4 DEF IsConcat

\* Strings of the same length can be told apart.
LEMMA LengthTells ==
  ASSUME NEW a \in String, NEW b \in String, NEW e \in String, NEW f \in String, NEW w,
         IsConcat(w, a, b), IsConcat(w, e, f), Len(a) = Len(e)
  PROVE  a = e /\ b = f
<1>1. Len(a) \in Nat /\ Len(b) \in Nat /\ Len(e) \in Nat /\ Len(f) \in Nat
  BY LenProperties DEF String
<1>2. Len(b) = Len(f)
  BY <1>1 DEF IsConcat
<1>3. \A i \in 1..Len(a) : a[i] = e[i]
  BY DEF IsConcat
<1>4. \A i \in 1..Len(b) : b[i] = f[i]
  BY <1>2 DEF IsConcat
<1> QED
  BY <1>2, <1>3, <1>4, SeqEqual DEF String

\* No NUL at the front, none at the end, and no three in a row.
Calm(w) ==
  /\ w \in String /\ EndsIn(w, 1)
  /\ w # <<>> => w[1] # 0
  /\ \A i \in 1..Len(w) : i + 2 <= Len(w) => ~(w[i] = 0 /\ w[i + 1] = 0 /\ w[i + 2] = 0)

\* The bytes of a variable.
LEMMA EntryShape ==
  ASSUME NEW e \in ValidVariable, NEW x, x = M!EntryBytes(e)
  PROVE  Calm(x) /\ x # <<>>
<1>1. PICK n, v, s : EntryHas(e, n, v, s)
  BY EntryFields
<1>2. PICK c \in Nat : c = 0
  OBVIOUS
<1>3. /\ n \in String /\ v \in String /\ s \in String /\ Len(n) > 0
      /\ Lacks(n, c) /\ Lacks(v, c) /\ Lacks(s, c)
  BY <1>1, <1>2 DEF EntryHas
<1>4. PICK y : y = n \o <<c>> \o v
  OBVIOUS
<1>5. PICK z : z = y \o <<c>> \o s
  OBVIOUS
<1>6. PICK u : u = <<1>>
  OBVIOUS
<1>7. x = z \o u
  BY <1>1, <1>2, <1>4, <1>5, <1>6 DEF M!EntryBytes, EntryHas
<1>8. IsJoin(y, n, c, v)
  BY <1>3, <1>4, Joined
<1>9. y \in String
  BY <1>8 DEF IsJoin
<1>10. IsJoin(z, y, c, s)
  BY <1>3, <1>5, <1>9, Joined
<1>11. /\ Len(n) \in Nat /\ Len(v) \in Nat /\ Len(s) \in Nat /\ Len(y) \in Nat /\ Len(z) \in Nat
  <2>1. z \in String
    BY <1>10 DEF IsJoin
  <2> QED
    BY <1>3, <1>9, <2>1, LenProperties DEF String
<1>12. u \in Seq(Nat) /\ Len(u) = 1 /\ u[1] = 1
  BY <1>6
<1>13. z \in Seq(Nat)
  BY <1>10 DEF IsJoin, String
<1>14. /\ x \in Seq(Nat) /\ Len(x) = Len(z) + 1
       /\ \A i \in 1..Len(z) : x[i] = z[i]
       /\ x[Len(z) + 1] = 1
  <2>1. z \in String /\ u \in String
    BY <1>12, <1>13 DEF String
  <2>2. IsConcat(x, z, u)
    BY <1>7, <2>1, Concatenated
  <2> QED
    BY <1>12, <2>2 DEF IsConcat
<1>15. x[Len(x)] = 1 /\ Len(x) > 0
  BY <1>11, <1>12, <1>14
<1>16. Len(y) = Len(n) + 1 + Len(v) /\ Len(z) = Len(y) + 1 + Len(s)
  BY <1>8, <1>10 DEF IsJoin
<1>17. \A i \in 1..Len(y) : y[i] = 0 => i = Len(n) + 1
  <2> SUFFICES ASSUME NEW i \in 1..Len(y), y[i] = 0, i # Len(n) + 1 PROVE FALSE
    OBVIOUS
  <2>1. CASE i <= Len(n)
    <3>1. i \in 1..Len(n) /\ y[i] = n[i]
      BY <1>8, <1>11, <2>1 DEF IsJoin
    <3> QED
      BY <1>2, <1>3, <3>1 DEF Lacks
  <2>2. CASE i > Len(n) + 1
    <3> DEFINE j == i - (Len(n) + 1)
    <3>1. j \in 1..Len(v) /\ Len(n) + 1 + j = i
      BY <1>11, <1>16, <2>2
    <3>2. y[i] = v[j]
      BY <1>8, <3>1 DEF IsJoin
    <3> QED
      BY <1>2, <1>3, <3>1, <3>2 DEF Lacks
  <2> QED
    BY <1>11, <2>1, <2>2
<1>18. \A i \in 1..Len(z) : z[i] = 0 => i = Len(n) + 1 \/ i = Len(y) + 1
  <2> SUFFICES ASSUME NEW i \in 1..Len(z), z[i] = 0, i # Len(n) + 1, i # Len(y) + 1 PROVE FALSE
    OBVIOUS
  <2>1. CASE i <= Len(y)
    <3>1. i \in 1..Len(y) /\ z[i] = y[i]
      BY <1>10, <1>11, <2>1 DEF IsJoin
    <3> QED
      BY <1>17, <3>1
  <2>2. CASE i > Len(y) + 1
    <3> DEFINE j == i - (Len(y) + 1)
    <3>1. j \in 1..Len(s) /\ Len(y) + 1 + j = i
      BY <1>11, <1>16, <2>2
    <3>2. z[i] = s[j]
      BY <1>10, <3>1 DEF IsJoin
    <3> QED
      BY <1>2, <1>3, <3>1, <3>2 DEF Lacks
  <2> QED
    BY <1>11, <2>1, <2>2
<1>19. \A i \in 1..Len(x) : x[i] = 0 => i = Len(n) + 1 \/ i = Len(y) + 1
  <2> SUFFICES ASSUME NEW i \in 1..Len(x), x[i] = 0 PROVE i = Len(n) + 1 \/ i = Len(y) + 1
    OBVIOUS
  <2>1. i # Len(x)
    BY <1>15
  <2>2. i \in 1..Len(z) /\ x[i] = z[i]
    BY <1>11, <1>14, <2>1
  <2> QED
    BY <1>18, <2>2
<1>20. x[1] # 0
  <2>1. 1 \in 1..Len(x) /\ 1 # Len(n) + 1 /\ 1 # Len(y) + 1
    BY <1>3, <1>11, <1>14, <1>16
  <2> QED
    BY <1>19, <2>1
<1>21. ASSUME NEW i \in 1..Len(x), i + 2 <= Len(x), x[i] = 0, x[i + 1] = 0, x[i + 2] = 0
       PROVE  FALSE
  <2>1. i + 1 \in 1..Len(x) /\ i + 2 \in 1..Len(x)
    BY <1>11, <1>14, <1>21
  <2>2. i = Len(n) + 1 \/ i = Len(y) + 1
    BY <1>19, <1>21
  <2>3. i + 1 = Len(n) + 1 \/ i + 1 = Len(y) + 1
    BY <1>19, <1>21, <2>1
  <2>4. i + 2 = Len(n) + 1 \/ i + 2 = Len(y) + 1
    BY <1>19, <1>21, <2>1
  <2> QED
    BY <1>11, <2>2, <2>3, <2>4
<1>22. x # <<>>
  BY <1>15
<1> QED
  BY <1>14, <1>15, <1>20, <1>21, <1>22 DEF Calm, EndsIn, String

\* Calm strings in a row are calm.
LEMMA CalmJoin ==
  ASSUME NEW a, NEW b, Calm(a), Calm(b), NEW w, w = a \o b
  PROVE  Calm(w)
<1>1. a \in Seq(Nat) /\ b \in Seq(Nat)
  BY DEF Calm, String
<1>2. Len(a) \in Nat /\ Len(b) \in Nat /\ (a # <<>> => Len(a) > 0) /\ (b # <<>> => Len(b) > 0)
  BY <1>1, LenProperties, EmptySeq
<1>3. /\ w \in Seq(Nat) /\ Len(w) = Len(a) + Len(b)
      /\ \A i \in 1..Len(a) : w[i] = a[i]
      /\ \A i \in 1..Len(b) : w[Len(a) + i] = b[i]
  <2>1. a \in String /\ b \in String
    BY DEF Calm
  <2>2. IsConcat(w, a, b)
    BY <2>1, Concatenated
  <2> QED
    BY <2>2 DEF IsConcat
<1>4. CASE a = <<>>
  <2>1. w = b
    BY <1>1, <1>4, ConcatEmptySeq
  <2> QED
    BY <2>1
<1>5. CASE b = <<>>
  <2>1. w = a
    BY <1>1, <1>5, ConcatEmptySeq
  <2> QED
    BY <2>1
<1>6. CASE a # <<>> /\ b # <<>>
  <2>1. Len(a) > 0 /\ Len(b) > 0 /\ a[Len(a)] = 1 /\ b[Len(b)] = 1 /\ a[1] # 0
    BY <1>2, <1>6 DEF Calm, EndsIn
  <2>2. \A i \in 1..Len(a) : w[i] = a[i]
    BY <1>3
  <2>3. \A i \in 1..Len(b) : w[Len(a) + i] = b[i]
    BY <1>3
  <2>4. w[Len(w)] = 1
    BY <1>2, <1>3, <2>1, <2>3
  <2>5. w[1] # 0
    BY <1>2, <2>1, <2>2
  <2>6. ASSUME NEW i \in 1..Len(w), i + 2 <= Len(w), w[i] = 0, w[i + 1] = 0, w[i + 2] = 0
        PROVE  FALSE
    <3>1. CASE i + 2 <= Len(a)
      <4>1. i \in 1..Len(a) /\ i + 1 \in 1..Len(a) /\ i + 2 \in 1..Len(a)
        BY <1>2, <3>1
      <4>2. a[i] = 0 /\ a[i + 1] = 0 /\ a[i + 2] = 0
        BY <2>2, <2>6, <4>1
      <4> QED
        BY <3>1, <4>1, <4>2 DEF Calm
    <3>2. CASE i > Len(a)
      <4> DEFINE j == i - Len(a)
      <4>1. /\ j \in 1..Len(b) /\ j + 1 \in 1..Len(b) /\ j + 2 \in 1..Len(b)
            /\ Len(a) + j = i /\ Len(a) + (j + 1) = i + 1 /\ Len(a) + (j + 2) = i + 2
        BY <1>2, <1>3, <2>6, <3>2
      <4>2. b[j] = 0 /\ b[j + 1] = 0 /\ b[j + 2] = 0
        BY <2>3, <2>6, <4>1
      <4>3. j + 2 <= Len(b)
        BY <1>2, <4>1
      <4> HIDE DEF j
      <4> QED
        BY <4>1, <4>2, <4>3 DEF Calm
    <3>3. CASE i = Len(a)
      BY <2>1, <2>2, <2>6, <3>3
    <3>4. CASE i + 1 = Len(a)
      <4>1. w[i + 1] = a[Len(a)]
        BY <1>2, <2>1, <2>2, <3>4
      <4> QED
        BY <2>1, <2>6, <4>1
    <3> QED
      BY <1>2, <1>3, <3>1, <3>2, <3>3, <3>4
  <2>7. EndsIn(w, 1)
    BY <2>4 DEF EndsIn
  <2> QED
    BY <1>3, <2>5, <2>6, <2>7 DEF Calm, String
<1> QED
  BY <1>4, <1>5, <1>6

\* The bytes of the variables can be told apart.
LEMMA VariablesAreCode == IsCode(VariableCode, 1)
<1>1. ASSUME NEW b \in VariableCode PROVE b \in String /\ b # <<>> /\ EndsIn(b, 1)
  <2>1. PICK e \in ValidVariable : b = M!EntryBytes(e)
    BY DEF VariableCode
  <2>2. Calm(b) /\ b # <<>>
    BY <2>1, EntryShape
  <2> QED
    BY <2>2 DEF Calm
<1>2. ASSUME NEW a \in String, NEW e \in String, NEW b \in VariableCode, NEW f \in VariableCode,
             EndsIn(a, 1), EndsIn(e, 1), a \o b = e \o f
      PROVE  a = e /\ b = f
  <2>1. PICK x \in ValidVariable : b = M!EntryBytes(x)
    BY DEF VariableCode
  <2>2. PICK y \in ValidVariable : f = M!EntryBytes(y)
    BY DEF VariableCode
  <2>3. a \o M!EntryBytes(x) = e \o M!EntryBytes(y)
    BY <1>2, <2>1, <2>2
  <2>4. a = e /\ x = y
    BY <1>2, <2>3, EntryTells
  <2> QED
    BY <2>1, <2>2, <2>4
<1> QED
  BY <1>1, <1>2 DEF IsCode, TellsLast

\* The variables can be read off their bytes.
LEMMA EnvBytesTell ==
  ASSUME NEW x \in Seq(ValidVariable), NEW y \in Seq(ValidVariable),
         M!EnvBytes(x) = M!EnvBytes(y)
  PROVE  x = y
<1> DEFINE cs == [i \in DOMAIN x |-> M!EntryBytes(x[i])]
           ds == [i \in DOMAIN y |-> M!EntryBytes(y[i])]
<1>1. /\ DOMAIN x = 1..Len(x) /\ Len(x) \in Nat /\ DOMAIN y = 1..Len(y) /\ Len(y) \in Nat
      /\ \A i \in 1..Len(x) : x[i] \in ValidVariable
      /\ \A i \in 1..Len(y) : y[i] \in ValidVariable
  BY LenProperties, ElementOfSeq
<1>2. cs \in [1..Len(x) -> VariableCode] /\ ds \in [1..Len(y) -> VariableCode]
  BY <1>1 DEF VariableCode
<1>3. M!FlattenSeq(cs) = M!FlattenSeq(ds)
  BY DEF M!EnvBytes
<1>4. \A i \in 1..Len(x) : cs[i] = M!EntryBytes(x[i])
  BY <1>1
<1>5. \A i \in 1..Len(y) : ds[i] = M!EntryBytes(y[i])
  BY <1>1
<1> HIDE DEF cs, ds
<1>6. cs \in Seq(VariableCode) /\ ds \in Seq(VariableCode) /\ Len(cs) = Len(x) /\ Len(ds) = Len(y)
  BY <1>1, <1>2
<1>7. cs = ds
  BY <1>3, <1>6, VariablesAreCode, Decoded
<1>8. Len(x) = Len(y)
  BY <1>6, <1>7
<1>9. ASSUME NEW i \in 1..Len(x) PROVE x[i] = y[i]
  <2>1. M!EntryBytes(x[i]) = M!EntryBytes(y[i]) /\ x[i] \in ValidVariable /\ y[i] \in ValidVariable
    BY <1>1, <1>4, <1>5, <1>7, <1>8
  <2>2. <<>> \in String /\ EndsIn(<<>>, 1)
    BY DEF String, EndsIn
  <2> QED
    BY <2>1, <2>2, EntryTells
<1> QED
  BY <1>8, <1>9, SeqEqual

\* The bytes of any number of variables are calm.
LEMMA EnvIsCalm ==
  ASSUME NEW x \in Seq(ValidVariable)
  PROVE  Calm(M!EnvBytes(x))
<1> DEFINE cs == [i \in DOMAIN x |-> M!EntryBytes(x[i])]
<1>1. /\ DOMAIN x = 1..Len(x) /\ Len(x) \in Nat
      /\ \A i \in 1..Len(x) : x[i] \in ValidVariable
  BY LenProperties, ElementOfSeq
<1>2. M!EnvBytes(x) = M!FlattenSeq(cs)
  BY DEF M!EnvBytes
<1>3. cs \in [1..Len(x) -> VariableCode]
  BY <1>1 DEF VariableCode
<1>4. \A i \in 1..Len(x) : Calm(cs[i])
  <2> SUFFICES ASSUME NEW i \in 1..Len(x) PROVE Calm(cs[i])
    OBVIOUS
  <2>1. cs[i] = M!EntryBytes(x[i]) /\ x[i] \in ValidVariable
    BY <1>1
  <2> QED
    BY <2>1, EntryShape
<1> HIDE DEF cs
<1>5. cs \in Seq(VariableCode) /\ Len(cs) = Len(x)
  BY <1>1, <1>3
<1>6. cs \in Seq(String)
  <2>1. VariableCode \subseteq String
    BY VariablesAreCode DEF IsCode
  <2> QED
    BY <1>5, <2>1, SeqMonotonic
<1>7. PICK f : IsFlat(f, cs) /\ M!FlattenSeq(cs) = f[Len(cs)]
  BY <1>6, Flattened
<1>8. \A i \in 0..Len(cs) : Calm(f[i])
  <2> DEFINE T == {i \in 0..Len(cs) : ~Calm(f[i])}
  <2>1. SUFFICES ASSUME T # {} PROVE FALSE
    OBVIOUS
  <2>2. PICK i \in T : \A m \in T : i <= m
    <3>1. T \subseteq Nat
      BY <1>1, <1>5
    <3> HIDE DEF T
    <3> QED
      BY <2>1, <3>1, Least
  <2>3. i \in 0..Len(cs) /\ ~Calm(f[i])
    OBVIOUS
  <2>4. i # 0
    <3>1. f[0] = <<>>
      BY <1>7 DEF IsFlat
    <3>2. Calm(<<>>)
      BY DEF Calm, EndsIn, String
    <3> QED
      BY <2>3, <3>1, <3>2
  <2>5. i \in 1..Len(cs) /\ i - 1 \in 0..Len(cs) /\ ~(i <= i - 1)
    BY <1>1, <1>5, <2>3, <2>4
  <2>6. i - 1 \notin T
    <3> HIDE DEF T
    <3> QED
      BY <2>2, <2>5
  <2>7. Calm(f[i - 1])
    BY <2>5, <2>6
  <2>8. f[i] = f[i - 1] \o cs[i] /\ Calm(cs[i])
    BY <1>4, <1>5, <1>7, <2>5 DEF IsFlat
  <2> QED
    BY <2>3, <2>7, <2>8, CalmJoin
<1> QED
  BY <1>1, <1>2, <1>5, <1>7, <1>8

\* Three strings in a row.
IsTriple(w, a, n, e) ==
  /\ Len(w) = Len(a) + Len(n) + Len(e)
  /\ \A i \in 1..Len(n) : w[Len(a) + i] = n[i]
  /\ \A i \in 1..Len(e) : w[Len(a) + Len(n) + i] = e[i]

\* What three strings in a row look like.
LEMMA Tripled ==
  ASSUME NEW a \in String, NEW n \in String, NEW e \in String, NEW w, w = a \o (n \o e)
  PROVE  IsTriple(w, a, n, e)
<1>1. PICK k : k = n \o e
  OBVIOUS
<1>2. IsConcat(k, n, e)
  BY <1>1, Concatenated
<1>3. w = a \o k /\ k \in String
  BY <1>1, <1>2 DEF IsConcat, String
<1>4. IsConcat(w, a, k)
  BY <1>3, Concatenated
<1>5. Len(a) \in Nat /\ Len(n) \in Nat /\ Len(e) \in Nat
  BY LenProperties DEF String
<1>6. Len(k) = Len(n) + Len(e) /\ \A i \in 1..Len(k) : w[Len(a) + i] = k[i]
  BY <1>2, <1>4 DEF IsConcat
<1>7. \A i \in 1..Len(n) : w[Len(a) + i] = n[i]
  <2> SUFFICES ASSUME NEW i \in 1..Len(n) PROVE w[Len(a) + i] = n[i]
    OBVIOUS
  <2>1. i \in 1..Len(k)
    BY <1>5, <1>6
  <2>2. k[i] = n[i]
    BY <1>2 DEF IsConcat
  <2> QED
    BY <1>6, <2>1, <2>2
<1>8. \A i \in 1..Len(e) : w[Len(a) + Len(n) + i] = e[i]
  <2> SUFFICES ASSUME NEW i \in 1..Len(e) PROVE w[Len(a) + Len(n) + i] = e[i]
    OBVIOUS
  <2>1. Len(n) + i \in 1..Len(k) /\ Len(a) + (Len(n) + i) = Len(a) + Len(n) + i
    BY <1>5, <1>6
  <2>2. k[Len(n) + i] = e[i]
    BY <1>2 DEF IsConcat
  <2> QED
    BY <1>6, <2>1, <2>2
<1>9. Len(w) = Len(a) + Len(n) + Len(e)
  BY <1>4, <1>5, <1>6 DEF IsConcat
<1> QED
  BY <1>7, <1>8, <1>9 DEF IsTriple

\* Thirty-six bytes of numbers, of which the last four are zero.
Numeral(n) == n \in String /\ Len(n) = 36 /\ n[33] = 0 /\ n[34] = 0 /\ n[35] = 0 /\ n[36] = 0

\* The zeros of a duration have no place among the variables of another template.
LEMMA NoShift ==
  ASSUME NEW a \in String, NEW n, NEW e \in String, NEW b \in String, NEW m, NEW f,
         Numeral(n), Numeral(m), Calm(f), a \o (n \o e) = b \o (m \o f)
  PROVE  ~(Len(a) > Len(b))
<1>1. PICK w : w = a \o (n \o e) /\ w = b \o (m \o f)
  OBVIOUS
<1>2. n \in String /\ m \in String /\ f \in String /\ Len(n) = 36 /\ Len(m) = 36
  BY DEF Numeral, Calm
<1>3. IsTriple(w, a, n, e)
  BY <1>1, <1>2, Tripled
<1>4. IsTriple(w, b, m, f)
  BY <1>1, <1>2, Tripled
<1>5. Len(a) \in Nat /\ Len(b) \in Nat /\ Len(e) \in Nat /\ Len(f) \in Nat
  BY <1>2, LenProperties DEF String
<1>6. /\ Len(w) = Len(a) + 36 + Len(e) /\ Len(w) = Len(b) + 36 + Len(f)
      /\ \A i \in 1..36 : w[Len(a) + i] = n[i]
      /\ \A i \in 1..Len(f) : w[Len(b) + 36 + i] = f[i]
  BY <1>2, <1>3, <1>4 DEF IsTriple
<1>7. w[Len(a) + 33] = 0 /\ w[Len(a) + 34] = 0 /\ w[Len(a) + 35] = 0 /\ w[Len(a) + 36] = 0
  BY <1>6 DEF Numeral
<1> SUFFICES ASSUME Len(a) > Len(b) PROVE FALSE
  OBVIOUS
<1>8. PICK k \in Nat : k = Len(a) - Len(b) /\ k > 0
  <2>1. Len(a) - Len(b) \in Nat /\ Len(a) - Len(b) > 0
    BY <1>5
  <2> QED
    BY <2>1
<1>9. Len(a) = Len(b) + k /\ Len(f) = Len(e) + k /\ Len(f) > 0
  <2>1. Len(a) + 36 + Len(e) = Len(b) + 36 + Len(f)
    BY <1>6
  <2>2. \A p, q, r, t \in Nat :
          k = p - q /\ p + 36 + r = q + 36 + t => p = q + k /\ t = r + k /\ t > 0
    <3>1. k \in Nat /\ k > 0
      BY <1>8
    <3> QED
      BY <3>1
  <2> QED
    BY <1>5, <1>8, <2>1, <2>2
<1>10. f # <<>> /\ f[1] # 0
  <2>1. f # <<>>
    BY <1>9
  <2> QED
    BY <2>1 DEF Calm
<1>11. w[Len(b) + 36 + 1] = f[1]
  <2>1. 1 \in 1..Len(f)
    BY <1>5, <1>9
  <2> QED
    BY <1>6, <2>1
<1>12. CASE k = 1
  BY <1>5, <1>7, <1>9, <1>10, <1>11, <1>12
<1>13. CASE k = 2
  BY <1>5, <1>7, <1>9, <1>10, <1>11, <1>13
<1>14. CASE k = 3
  BY <1>5, <1>7, <1>9, <1>10, <1>11, <1>14
<1>15. CASE k > 3
  <2>1. PICK i \in Nat : i = k - 3
    BY <1>15
  <2>2. i \in 1..Len(f) /\ i + 1 \in 1..Len(f) /\ i + 2 \in 1..Len(f) /\ i + 2 <= Len(f)
    BY <1>5, <1>8, <1>9, <1>15, <2>1
  <2>3. /\ Len(b) + 36 + i = Len(a) + 33 /\ Len(b) + 36 + (i + 1) = Len(a) + 34
        /\ Len(b) + 36 + (i + 2) = Len(a) + 35
    BY <1>5, <1>9, <2>1
  <2>4. f[i] = 0 /\ f[i + 1] = 0 /\ f[i + 2] = 0
    BY <1>6, <1>7, <2>2, <2>3
  <2> QED
    BY <2>2, <2>4 DEF Calm
<1> QED
  BY <1>8, <1>12, <1>13, <1>14, <1>15

\* The bytes of a number of w words.
BytesOf(b, n, w) ==
  /\ b \in String /\ Len(b) = 2 * w
  /\ \A j \in 1..w : b[2 * j - 1] = n[j] % 256 /\ b[2 * j] = n[j] \div 256

\* What the bytes of a number look like.
LEMMA NumberHasBytes ==
  ASSUME NEW w \in Nat, NEW n \in Number(w)
  PROVE  BytesOf(M!le_bytes(n), n, w)
<1> DEFINE b == M!le_bytes(n)
<1>0. MaxShort \in Nat
  BY DEF MaxShort
<1>1. n \in [1..w -> Nat] /\ Len(n) = w
  BY <1>0 DEF Number
<1>2. b = [i \in 1..(2 * w) |-> IF i % 2 = 1 THEN n[(i + 1) \div 2] % 256
                                         ELSE n[i \div 2] \div 256]
  BY <1>1 DEF M!le_bytes
<1>3. \A i \in 1..(2 * w) : /\ i % 2 = 1 => (i + 1) \div 2 \in 1..w
                            /\ i % 2 # 1 => i \div 2 \in 1..w
  OBVIOUS
<1>4. \A x \in Nat : x % 256 \in Nat /\ x \div 256 \in Nat
  OBVIOUS
<1> HIDE DEF b
<1>5. \A i \in 1..(2 * w) : b[i] \in Nat
  <2> SUFFICES ASSUME NEW i \in 1..(2 * w) PROVE b[i] \in Nat
    OBVIOUS
  <2>1. CASE i % 2 = 1
    BY <1>1, <1>2, <1>3, <1>4, <2>1
  <2>2. CASE i % 2 # 1
    BY <1>1, <1>2, <1>3, <1>4, <2>2
  <2> QED
    BY <2>1, <2>2
<1>6. b \in Seq(Nat) /\ Len(b) = 2 * w
  <2>1. 2 * w \in Nat
    OBVIOUS
  <2>2. b \in [1..(2 * w) -> Nat]
    BY <1>2, <1>5
  <2> QED
    BY <2>1, <2>2
<1>7. ASSUME NEW j \in 1..w PROVE b[2 * j - 1] = n[j] % 256 /\ b[2 * j] = n[j] \div 256
  <2>1. /\ 2 * j - 1 \in 1..(2 * w) /\ (2 * j - 1) % 2 = 1 /\ (2 * j - 1 + 1) \div 2 = j
        /\ 2 * j \in 1..(2 * w) /\ (2 * j) % 2 # 1 /\ (2 * j) \div 2 = j
    OBVIOUS
  <2> QED
    BY <1>2, <2>1
<1> QED
  BY <1>6, <1>7 DEF BytesOf, String, b

\* A number can be read off its bytes.
LEMMA NumberTells ==
  ASSUME NEW w \in Nat, NEW n \in Number(w), NEW m \in Number(w), M!le_bytes(n) = M!le_bytes(m)
  PROVE  n = m
<1>1. PICK b : b = M!le_bytes(n) /\ b = M!le_bytes(m)
  OBVIOUS
<1>2. BytesOf(b, n, w) /\ BytesOf(b, m, w)
  BY <1>1, NumberHasBytes
<1>3. ASSUME NEW j \in 1..w PROVE n[j] = m[j]
  <2>1. n[j] % 256 = m[j] % 256 /\ n[j] \div 256 = m[j] \div 256
    BY <1>2 DEF BytesOf
  <2>2. n[j] \in Nat /\ m[j] \in Nat
    <3>1. MaxShort \in Nat
      BY DEF MaxShort
    <3> QED
      BY <3>1 DEF Number
  <2>3. \A x, y \in Nat : x % 256 = y % 256 /\ x \div 256 = y \div 256 => x = y
    OBVIOUS
  <2> QED
    BY <2>1, <2>2, <2>3
<1> QED
  BY <1>3 DEF Number

Numbered(t) ==
  /\ t.cpu_cores \in Number(2) /\ t.mem_mb \in Number(4)
  /\ t.bid \in Number(8) /\ t.duration_secs \in Number(4)

Quarters(k, a, b, c, e) ==
  /\ k = a \o b \o c \o e
  /\ a \in String /\ b \in String /\ c \in String /\ e \in String
  /\ Len(a) = 4 /\ Len(b) = 8 /\ Len(c) = 16 /\ Len(e) = 8

\* The numbers of a template are of fixed widths.
LEMMA NumberBytesAre ==
  ASSUME NEW t, Numbered(t)
  PROVE  Quarters(M!NumberBytes(t), M!le_bytes(t.cpu_cores), M!le_bytes(t.mem_mb),
                  M!le_bytes(t.bid), M!le_bytes(t.duration_secs))
<1>1. /\ BytesOf(M!le_bytes(t.cpu_cores), t.cpu_cores, 2)
      /\ BytesOf(M!le_bytes(t.mem_mb), t.mem_mb, 4)
      /\ BytesOf(M!le_bytes(t.bid), t.bid, 8)
      /\ BytesOf(M!le_bytes(t.duration_secs), t.duration_secs, 4)
  BY NumberHasBytes DEF Numbered
<1> QED
  BY <1>1 DEF M!NumberBytes, Quarters, BytesOf

\* Strings of these widths in a row can be told apart.
LEMMA QuartersTell ==
  ASSUME NEW k, NEW a, NEW b, NEW c, NEW e, NEW f, NEW g, NEW h, NEW l,
         Quarters(k, a, b, c, e), Quarters(k, f, g, h, l)
  PROVE  a = f /\ b = g /\ c = h /\ e = l
<1>1. /\ a \in String /\ b \in String /\ c \in String /\ e \in String
      /\ f \in String /\ g \in String /\ h \in String /\ l \in String
      /\ Len(a) = 4 /\ Len(b) = 8 /\ Len(c) = 16 /\ Len(e) = 8
      /\ Len(f) = 4 /\ Len(g) = 8 /\ Len(h) = 16 /\ Len(l) = 8
  BY DEF Quarters
<1>2. PICK k1 : k1 = a \o b
  OBVIOUS
<1>3. PICK k2 : k2 = k1 \o c
  OBVIOUS
<1>4. PICK l1 : l1 = f \o g
  OBVIOUS
<1>5. PICK l2 : l2 = l1 \o h
  OBVIOUS
<1>6. IsConcat(k1, a, b) /\ IsConcat(l1, f, g)
  BY <1>1, <1>2, <1>4, Concatenated
<1>7. k1 \in String /\ Len(k1) = 12 /\ l1 \in String /\ Len(l1) = 12
  BY <1>1, <1>6 DEF IsConcat, String
<1>8. IsConcat(k2, k1, c) /\ IsConcat(l2, l1, h)
  BY <1>1, <1>3, <1>5, <1>7, Concatenated
<1>9. k2 \in String /\ Len(k2) = 28 /\ l2 \in String /\ Len(l2) = 28
  BY <1>1, <1>7, <1>8 DEF IsConcat, String
<1>10. k = k2 \o e /\ k = l2 \o l
  BY <1>2, <1>3, <1>4, <1>5 DEF Quarters
<1>11. IsConcat(k, k2, e) /\ IsConcat(k, l2, l)
  BY <1>1, <1>9, <1>10, Concatenated
<1>12. k2 = l2 /\ e = l
  BY <1>1, <1>9, <1>11, LengthTells
<1>13. k1 = l1 /\ c = h
  BY <1>1, <1>7, <1>8, <1>12, LengthTells
<1>14. a = f /\ b = g
  BY <1>1, <1>6, <1>13, LengthTells
<1> QED
  BY <1>12, <1>13, <1>14

\* The numbers can be read off their bytes.
LEMMA NumberBytesTell ==
  ASSUME NEW t, NEW u, Numbered(t), Numbered(u), M!NumberBytes(t) = M!NumberBytes(u)
  PROVE  /\ t.cpu_cores = u.cpu_cores /\ t.mem_mb = u.mem_mb
         /\ t.bid = u.bid /\ t.duration_secs = u.duration_secs
<1>1. /\ M!le_bytes(t.cpu_cores) = M!le_bytes(u.cpu_cores)
      /\ M!le_bytes(t.mem_mb) = M!le_bytes(u.mem_mb)
      /\ M!le_bytes(t.bid) = M!le_bytes(u.bid)
      /\ M!le_bytes(t.duration_secs) = M!le_bytes(u.duration_secs)
  <2>1. PICK k : k = M!NumberBytes(t) /\ k = M!NumberBytes(u)
    OBVIOUS
  <2>2. Quarters(k, M!le_bytes(t.cpu_cores), M!le_bytes(t.mem_mb),
                 M!le_bytes(t.bid), M!le_bytes(t.duration_secs))
    BY <2>1, NumberBytesAre
  <2>3. Quarters(k, M!le_bytes(u.cpu_cores), M!le_bytes(u.mem_mb),
                 M!le_bytes(u.bid), M!le_bytes(u.duration_secs))
    BY <2>1, NumberBytesAre
  <2> QED
    BY <2>2, <2>3, QuartersTell
<1> QED
  BY <1>1, NumberTells DEF Numbered

\* The bytes of the numbers end in four zeros if the duration is below 2^32 s.
LEMMA NumbersAreNumeral ==
  ASSUME NEW t, Numbered(t), t.duration_secs[3] = 0, t.duration_secs[4] = 0
  PROVE  Numeral(M!NumberBytes(t))
<1>1. PICK k, a, b, c, e : /\ k = M!NumberBytes(t) /\ e = M!le_bytes(t.duration_secs)
                           /\ Quarters(k, a, b, c, e)
  BY NumberBytesAre
<1>2. PICK k1 : k1 = a \o b
  OBVIOUS
<1>3. PICK k2 : k2 = k1 \o c
  OBVIOUS
<1>4. IsConcat(k1, a, b)
  BY <1>1, <1>2, Concatenated DEF Quarters
<1>5. k1 \in String /\ Len(k1) = 12
  BY <1>1, <1>4 DEF IsConcat, Quarters, String
<1>6. IsConcat(k2, k1, c)
  BY <1>1, <1>3, <1>5, Concatenated DEF Quarters
<1>7. k2 \in String /\ Len(k2) = 28
  BY <1>1, <1>5, <1>6 DEF IsConcat, Quarters, String
<1>8. k = k2 \o e
  BY <1>1, <1>2, <1>3 DEF Quarters
<1>9. e \in String /\ Len(e) = 8
  BY <1>1 DEF Quarters
<1>10. IsConcat(k, k2, e)
  BY <1>7, <1>8, <1>9, Concatenated
<1>11. e[5] = 0 /\ e[6] = 0 /\ e[7] = 0 /\ e[8] = 0
  <2>1. BytesOf(e, t.duration_secs, 4)
    BY <1>1, NumberHasBytes DEF Numbered
  <2>2. /\ e[2 * 3 - 1] = t.duration_secs[3] % 256 /\ e[2 * 3] = t.duration_secs[3] \div 256
        /\ e[2 * 4 - 1] = t.duration_secs[4] % 256 /\ e[2 * 4] = t.duration_secs[4] \div 256
    BY <2>1 DEF BytesOf
  <2>3. 0 % 256 = 0 /\ 0 \div 256 = 0 /\ 2 * 3 - 1 = 5 /\ 2 * 3 = 6 /\ 2 * 4 - 1 = 7 /\ 2 * 4 = 8
    OBVIOUS
  <2> QED
    BY <2>2, <2>3
<1>12. k[28 + 5] = e[5] /\ k[28 + 6] = e[6] /\ k[28 + 7] = e[7] /\ k[28 + 8] = e[8]
  BY <1>7, <1>9, <1>10 DEF IsConcat
<1>13. k \in String /\ Len(k) = 36
  BY <1>7, <1>9, <1>10 DEF IsConcat, String
<1> QED
  BY <1>1, <1>11, <1>12, <1>13 DEF Numeral

\* What is known of a template whose revision tells it.
TemplateHas(t) ==
  /\ t.image \in String /\ Lacks(t.image, 0)
  /\ t.command \in Seq(Text) /\ t.env \in Seq(ValidVariable)
  /\ Numbered(t) /\ Numeral(M!NumberBytes(t))

\* A valid manifest has such a template.
LEMMA TemplatesHave ==
  ASSUME NEW t \in Texts, M!validate(t), M!Tellable(t)
  PROVE  TemplateHas(t)
<1>1. /\ t.image \in Text /\ t.command \in Seq(Text) /\ t.env \in Seq(Variable)
      /\ Numbered(t)
  BY ManifestAssumption DEF Variable, Numbered
<1>2. DOMAIN t.env = 1..Len(t.env) /\ Len(t.env) \in Nat
  BY <1>1, LenProperties
<1>3. \A i \in 1..Len(t.env) : t.env[i] \in ValidVariable
  <2> SUFFICES ASSUME NEW i \in 1..Len(t.env) PROVE t.env[i] \in ValidVariable
    OBVIOUS
  <2>1. t.env[i] \in Variable
    BY <1>1, ElementOfSeq
  <2>2. M!EnvVarValid(t.env[i])
    BY <1>2 DEF M!validate
  <2>3. t.env[i].value_from # <<>>
    BY <1>2 DEF M!Tellable
  <2> QED
    BY <2>1, <2>2, <2>3 DEF ValidVariable
<1>4. t.env \in Seq(ValidVariable)
  BY <1>1, <1>2, <1>3, LenProperties
<1>5. t.image \in String /\ Lacks(t.image, 0)
  BY <1>1, TextLacksNul
<1>6. Numeral(M!NumberBytes(t))
  BY <1>1, NumbersAreNumeral DEF M!Tellable
<1> QED
  BY <1>1, <1>4, <1>5, <1>6 DEF TemplateHas

\* The bytes of a template.
RevisionHas(r, t, a, n, e) ==
  /\ r = t.image \o <<0>> \o (a \o (n \o e))
  /\ a = M!WordBytes(t.command) /\ n = M!NumberBytes(t) /\ e = M!EnvBytes(t.env)
  /\ a \in String /\ Numeral(n) /\ Calm(e)

\* What revision hashes.
LEMMA RevisionIs ==
  ASSUME NEW t, TemplateHas(t)
  PROVE  RevisionHas(M!revision(t), t, M!WordBytes(t.command), M!NumberBytes(t),
                     M!EnvBytes(t.env))
<1>1. M!WordBytes(t.command) \in String
  <2> DEFINE cs == [i \in DOMAIN t.command |-> t.command[i] \o <<0>>]
             n == Len(t.command)
  <2>1. t.command \in Seq(Text)
    BY DEF TemplateHas
  <2>2. DOMAIN t.command = 1..n /\ n \in Nat /\ \A i \in 1..n : t.command[i] \in Text
    BY <2>1, LenProperties, ElementOfSeq
  <2>3. cs \in [1..n -> WordCode]
    BY <2>2 DEF WordCode
  <2>4. M!WordBytes(t.command) = M!FlattenSeq(cs)
    BY DEF M!WordBytes
  <2> HIDE DEF cs, n
  <2>5. cs \in Seq(WordCode)
    BY <2>2, <2>3
  <2>6. WordCode \subseteq String
    BY WordsAreCode DEF IsCode
  <2>7. cs \in Seq(String)
    BY <2>5, <2>6, SeqMonotonic
  <2>8. PICK f : IsFlat(f, cs) /\ M!FlattenSeq(cs) = f[Len(cs)]
    BY <2>7, Flattened
  <2>9. Len(cs) \in 0..Len(cs)
    <3>1. Len(cs) \in Nat
      BY <2>7, LenProperties
    <3> QED
      BY <3>1
  <2> QED
    BY <2>4, <2>8, <2>9 DEF IsFlat
<1>2. Calm(M!EnvBytes(t.env))
  BY EnvIsCalm DEF TemplateHas
<1>3. Numeral(M!NumberBytes(t))
  BY DEF TemplateHas
<1> QED
  BY <1>1, <1>2, <1>3 DEF RevisionHas, M!revision

\* The bytes of two templates are the same only if the templates are.
LEMMA RevisionTells ==
  ASSUME NEW t, NEW u, TemplateHas(t), TemplateHas(u), M!revision(t) = M!revision(u)
  PROVE  M!Template(t) = M!Template(u)
<1>1. PICK r : r = M!revision(t) /\ r = M!revision(u)
  OBVIOUS
<1>2. PICK a, n, e : RevisionHas(r, t, a, n, e)
  BY <1>1, RevisionIs
<1>3. PICK b, m, f : RevisionHas(r, u, b, m, f)
  BY <1>1, RevisionIs
<1>4. /\ a \in String /\ n \in String /\ e \in String /\ Len(n) = 36
      /\ b \in String /\ m \in String /\ f \in String /\ Len(m) = 36
      /\ Numeral(n) /\ Numeral(m) /\ Calm(e) /\ Calm(f)
  BY <1>2, <1>3 DEF RevisionHas, Numeral, Calm
<1>5. PICK p : p = n \o e
  OBVIOUS
<1>6. PICK q : q = m \o f
  OBVIOUS
<1>7. IsConcat(p, n, e) /\ IsConcat(q, m, f)
  BY <1>4, <1>5, <1>6, Concatenated
<1>8. p \in String /\ q \in String
  BY <1>7 DEF IsConcat, String
<1>9. PICK x : x = a \o p
  OBVIOUS
<1>10. PICK y : y = b \o q
  OBVIOUS
<1>11. IsConcat(x, a, p) /\ IsConcat(y, b, q)
  BY <1>4, <1>8, <1>9, <1>10, Concatenated
<1>12. x \in String /\ y \in String
  BY <1>11 DEF IsConcat, String
<1>13. t.image = u.image /\ x = y
  <2>1. PICK i, j : i = t.image /\ j = u.image
    OBVIOUS
  <2>2. PICK c \in Nat : c = 0
    OBVIOUS
  <2>3. i \in String /\ j \in String /\ Lacks(i, c) /\ Lacks(j, c)
    BY <2>1, <2>2 DEF TemplateHas
  <2>4. r = i \o <<c>> \o x
    BY <1>2, <1>5, <1>9, <2>1, <2>2 DEF RevisionHas
  <2>5. r = j \o <<c>> \o y
    BY <1>3, <1>6, <1>10, <2>1, <2>2 DEF RevisionHas
  <2>6. i \o <<c>> \o x = j \o <<c>> \o y
    BY <2>4, <2>5
  <2>7. i = j /\ x = y
    BY <1>12, <2>3, <2>6, JoinTells
  <2> QED
    BY <2>1, <2>7
<1>14. Len(a) = Len(b)
  <2>1. a \o (n \o e) = b \o (m \o f)
    BY <1>5, <1>6, <1>9, <1>10, <1>13
  <2>2. ~(Len(a) > Len(b))
    BY <1>4, <2>1, NoShift
  <2>3. ~(Len(b) > Len(a))
    BY <1>4, <2>1, NoShift
  <2>4. Len(a) \in Nat /\ Len(b) \in Nat
    BY <1>4, LenProperties DEF String
  <2> QED
    BY <2>2, <2>3, <2>4
<1>15. a = b /\ p = q
  BY <1>4, <1>8, <1>11, <1>13, <1>14, LengthTells
<1>16. n = m /\ e = f
  BY <1>4, <1>7, <1>15, LengthTells
<1>17. t.command = u.command
  BY <1>2, <1>3, <1>15, WordBytesTell DEF RevisionHas, TemplateHas
<1>18. t.env = u.env
  BY <1>2, <1>3, <1>16, EnvBytesTell DEF RevisionHas, TemplateHas
<1>19. /\ t.cpu_cores = u.cpu_cores /\ t.mem_mb = u.mem_mb
       /\ t.bid = u.bid /\ t.duration_secs = u.duration_secs
  BY <1>2, <1>3, <1>16, NumberBytesTell DEF RevisionHas, TemplateHas
<1> QED
  BY <1>13, <1>17, <1>18, <1>19 DEF M!Template

\* "Scaling is not a rollout but changing the image is" (revision): for manifests of
\* any strings and numbers, accepted deployments have one key, service or revision
\* if and only if they have one identity, publish one service or have one template.
THEOREM NamesAreExactTheorem == M!Spec => []NamesAreExact
<1>1. Carried => (M!Accepted => \A e \in Texts : M!validate(e) => M!RevisionTells(e))
  <2> SUFFICES ASSUME Carried, M!Accepted, NEW e \in Texts, M!validate(e),
                      M!Tellable(d), M!Tellable(e)
               PROVE  M!revision(e) = M!revision(d) <=> M!Template(e) = M!Template(d)
    BY DEF M!RevisionTells
  <2>1. d \in Texts /\ M!validate(d)
    BY DEF Carried
  <2>2. TemplateHas(d) /\ TemplateHas(e)
    BY <2>1, TemplatesHave
  <2>3. M!revision(e) = M!revision(d) => M!Template(e) = M!Template(d)
    BY <2>2, RevisionTells
  <2>4. ASSUME M!Template(e) = M!Template(d) PROVE M!revision(e) = M!revision(d)
    <3>1. /\ e.image = d.image /\ e.command = d.command /\ e.env = d.env
          /\ e.cpu_cores = d.cpu_cores /\ e.mem_mb = d.mem_mb
          /\ e.bid = d.bid /\ e.duration_secs = d.duration_secs
      BY <2>4 DEF M!Template
    <3> QED
      BY <3>1 DEF M!revision, M!NumberBytes
  <2> QED
    BY <2>3, <2>4
<1>2. (M!Accepted => \A e \in Texts : M!validate(e) => M!KeyTells(e) /\ M!ServiceTells(e))
        /\ (M!Accepted => \A e \in Texts : M!validate(e) => M!RevisionTells(e))
      => NamesAreExact
  BY DEF NamesAreExact, M!NamesAreExact
<1> QED
  BY NamesTheorem, CarriedAlways, <1>1, <1>2, PTL

=============================================================================
