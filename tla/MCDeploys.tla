------------------------------ MODULE MCDeploys ------------------------------
(***************************************************************************)
(* One deployment on its way to a host: what the manifest turns into         *)
(* (Manifest), what its grant is good for (Grants), and which hosts are      *)
(* asked (Placement). A behaviour is about one of them.                      *)
(***************************************************************************)
EXTENDS Integers, Sequences

CONSTANTS
  Texts, Stores, Nothing, DefaultNamespace, MAX_REPLICAS, MAX_IMAGE_LEN, MAX_ENV_VARS, MAX_ENV_LEN,
  MAX_NAME_LEN,
  Hosts, Roots, Tags, Tokens, me, NoTag, None, MaxTime, MaxRevoked,
  Modulus, Atlases, Requests, MaxPlaced

VARIABLES
  about,  \* what a behaviour is about
  d, store, stage, cmd,
  now, revoked, stored, applied, handles, live, verdict,
  atlas, request, wanted, candidates, to_place, attempts, placed, rejected,
  place_failures, ended

M == INSTANCE Manifest
G == INSTANCE Grants
P == INSTANCE Placement WITH d <- request

\* Strings are sequences of bytes; those of a manifest have no NUL. Numbers are
\* sequences of 16-bit words.
String == Seq(Nat)
Text == Seq(1..255)
MaxShort == 65535
Number(width) == [1..width -> 0..MaxShort]

ASSUME ManifestAssumption ==
  /\ \A t \in Texts :
       /\ t.name \in Text /\ t.namespace \in Text /\ t.service \in Text
       /\ t.image \in Text /\ t.command \in Seq(Text) /\ t.depends_on \in Seq(Text)
       /\ t.env \in Seq([name : Text, value : Text, value_from : {Nothing} \cup Text])
       /\ t.cpu_cores \in Number(2) /\ t.mem_mb \in Number(4)
       /\ t.bid \in Number(8) /\ t.duration_secs \in Number(4)
  /\ \A s \in Stores : \A n \in DOMAIN s : s[n] \in String
  /\ DefaultNamespace \in Text /\ M!validate_name(DefaultNamespace)

\* Numbers have their width; the lists of hosts are finite.
Word == 0..(Modulus - 1)

ASSUME PlacementAssumption ==
  /\ Modulus \in Nat \ {0} /\ MaxPlaced \in Nat
  /\ \A a \in Atlases : /\ Len(a) \in Nat
                         /\ \A i \in 1..Len(a) : /\ a[i].cpu_cores \in Word
                                                /\ a[i].mem_mb \in Word
                                                /\ a[i].running_jobs \in Word
  /\ \A r \in Requests : r.cpu_cores \in Word /\ r.mem_mb \in Nat

manifestVars == <<d, store, stage, cmd>>
grantVars == <<now, revoked, stored, applied, handles, live, verdict>>
placementVars == <<atlas, request, wanted, candidates, to_place, attempts, placed,
                   rejected, place_failures, ended>>
all == <<about, manifestVars, grantVars, placementVars>>

----------------------------------------------------------------------------
(* Manifests. *)

\* Characters: "a" and "b" stand for those of a name, and three that are special.
A == 97
B == 98
Hyphen == 45
Slash == 47
Equals == 61

Strings(chars, n) == UNION {[1..k -> chars] : k \in 0..n}

\* A number below 2^16, of so many words.
Small(n, width) == [i \in 1..width |-> IF i = 1 THEN n ELSE 0]

\* "default" in the code.
ShortDefault == <<B>>

Plain ==
  [name |-> <<A>>, namespace |-> DefaultNamespace, image |-> <<A>>, command |-> <<>>,
   replicas |-> 1, cpu_cores |-> Small(1, 2), mem_mb |-> Small(1, 4),
   bid |-> Small(1, 8), duration_secs |-> Small(60, 4),
   strategy |-> [type |-> "rolling_update", max_unavailable |-> 1, max_surge |-> 0],
   env |-> <<>>, liveness |-> Nothing, readiness |-> Nothing,
   service |-> <<>>, depends_on |-> <<>>]

Names == Strings({A, Hyphen, Slash}, 2) \cup {<<A, Slash, A>>, <<A, Hyphen, A>>}

Named ==
  {[Plain EXCEPT !.name = n, !.namespace = ns] : n, ns \in Names}
    \cup {[Plain EXCEPT !.namespace = ns, !.service = s] :
            ns, s \in {<<>>, <<A>>, <<B>>, <<A, Slash, A>>, <<A, A>>}}
    \cup {[Plain EXCEPT !.namespace = ns, !.depends_on = <<s>>] :
            ns, s \in {<<>>, <<A>>, <<B>>, <<A, Slash, A>>, <<A, A>>}}
    \cup {[Plain EXCEPT !.service = s, !.depends_on = <<<<A>>, t>>] :
            s, t \in {<<>>, <<A>>, <<B>>}}

Words == {<<A>>, <<A, A>>, <<Equals>>, <<A, Equals>>}
Commands == {<<>>} \cup {<<v>> : v \in Words} \cup {<<v, w>> : v, w \in Words}

Vars ==
  {[name |-> n, value |-> v, value_from |-> Nothing] :
     n \in {<<A>>, <<B>>, <<A, Equals, B>>, <<Hyphen, A>>}, v \in {<<>>, <<A>>, <<Equals, A>>}}
    \cup {[name |-> <<A>>, value |-> v, value_from |-> s] :
            v \in {<<>>, <<A>>}, s \in {<<>>, <<A>>, <<B>>}}
Envs == {<<>>} \cup {<<v>> : v \in Vars}
               \cup {<<v, w>> : v \in Vars, w \in {x \in Vars : x.value # <<>>}}

Launched ==
  {[Plain EXCEPT !.command = c, !.env = e] :
     c \in {<<>>, <<<<A>>>>, <<<<A>>, <<A>>>>, <<<<A, Equals>>>>}, e \in Envs}
    \cup {[Plain EXCEPT !.command = c] : c \in Commands}

Probe(k, p, f) ==
  [kind |-> k, command |-> <<>>, port |-> p, success_threshold |-> 1, failure_threshold |-> f]

\* The last bid is the lowest there is.
Numbers ==
  {[Plain EXCEPT !.replicas = r, !.cpu_cores = Small(c, 2), !.mem_mb = m, !.bid = b,
                 !.duration_secs = Small(t, 4)] :
     r \in {0, 3, 5}, c \in {0, 1}, m \in {Small(1, 4), Small(256, 4), <<0, 0, 1, 0>>},
     b \in {Small(0, 8), Small(1, 8), [Small(0, 8) EXCEPT ![8] = 32768]}, t \in {1, 256}}
    \cup {[Plain EXCEPT !.strategy.max_unavailable = u, !.liveness = p] :
            u \in {0, 1},
            p \in {Nothing} \cup {Probe("tcp", 0, 1), Probe("http", 80, 1),
                                    Probe("http", 80, 0), Probe("exec", 0, 1)}}
    \cup {[Plain EXCEPT !.image = i] :
            i \in {<<194, 160, A, 227, 128, 128>>, <<226, 128, 137>>, <<A, 195, 133>>, <<A, A>>, <<A, 10>>, <<32>>, <<A, 32, B>>, <<A, 58, B>>, <<>>}}

\* The numbers of the first moved by a byte: the second has an empty word for the
\* lowest byte of the processors, and the highest byte of a duration of millions
\* of years for the first letter of the variable.
Shifted ==
  {[Plain EXCEPT !.cpu_cores = Small(256, 2), !.mem_mb = Small(256, 4),
                 !.bid = Small(256, 8), !.duration_secs = Small(256, 4),
                 !.env = <<[name |-> <<A, A>>, value |-> <<>>, value_from |-> Nothing]>>],
   [Plain EXCEPT !.command = <<<<>>>>, !.duration_secs = <<1, 0, 0, A * 256>>,
                 !.env = <<[name |-> <<A>>, value |-> <<>>, value_from |-> Nothing]>>]}

AllTexts == Named \cup Launched \cup Numbers \cup Shifted

\* Stores with the secret "a" and with none.
SmallStores == {[n \in {<<A>>} |-> <<B>>], <<>>}

----------------------------------------------------------------------------
(* Grants. *)

TwoHosts == {"h1", "h2"}
HostRoots == [h \in TwoHosts |-> IF h = "h1" THEN {"org"} ELSE {}]
HostTags == [h \in TwoHosts |-> IF h = "h1" THEN {"gpu"} ELSE {}]

Token(issuer, audience, abilities, tag, not_after) ==
  [issuer |-> issuer, audience |-> audience, abilities |-> abilities, tag |-> tag,
   not_after |-> not_after]

All == {"deploy", "kill", "probe"}

\* Good for long or not, for all or for deployments only, of the host or of a
\* root, for this node or for another one.
SomeTokens ==
  {Token(i, "me", All, "notag", t) : i \in {"org", "h1", "h2"}, t \in {0, 9}}
    \cup {Token("org", "me", {"deploy"}, "notag", 9), Token("org", "me", All, "gpu", 9),
          Token("org", "you", All, "notag", 9), Token("org", "me", {"kill"}, "notag", 9)}

----------------------------------------------------------------------------
(* Atlas snapshots and requests. *)

Entry(cpu, mem, jobs) ==
  [cpu_cores |-> cpu, mem_mb |-> mem, running_jobs |-> jobs,
   tags |-> {"docker"}, fresh |-> TRUE]

Request(cpu, mem) == [cpu_cores |-> cpu, mem_mb |-> mem, select |-> {}]

\* Every pair of hosts, from idle to overloaded, at a width of three bits.
Pairs ==
  {<<Entry(c1, m1, j1), Entry(c2, m2, j2)>> :
     c1, c2 \in {1, 2, 7}, m1, m2 \in {2, 4, 7}, j1, j2 \in {0, 1, 5}}

\* The memory of the last one is cut to 1.
SmallRequests == {Request(1, 1), Request(2, 2), Request(3, 1), Request(1, 9)}

\* Hosts alike and different, a stale one and one without the tag; six and nine of
\* which a tick may have to ask every one, the most for two and three replicas
\* whose shortfall is always reported; seven, and eleven of which one is much
\* better than the others, where it need not be.
SomeAtlases ==
  {<<Entry(7, 7, 0), Entry(7, 7, 0), Entry(7, 7, 1), Entry(7, 7, 0)>>,
   <<Entry(4, 4, 0), [Entry(7, 7, 0) EXCEPT !.fresh = FALSE], Entry(4, 4, 0),
     [Entry(7, 7, 0) EXCEPT !.tags = {}]>>,
   [i \in 1..6 |-> Entry(3, 3, 0)], [i \in 1..7 |-> Entry(3, 3, 0)],
   [i \in 1..9 |-> Entry(3, 3, 0)],
   [i \in 1..11 |-> IF i = 1 THEN Entry(7, 4, 0) ELSE Entry(3, 4, 0)]}
    \cup Pairs

----------------------------------------------------------------------------
(* The part that a behaviour is not about has one initial state. *)

ManifestIdle == d = Plain /\ store = <<>> /\ stage = "idle" /\ cmd = <<>>

PlacementIdle ==
  /\ atlas = <<>> /\ request = Request(1, 1) /\ wanted = 0 /\ candidates = <<>>
  /\ to_place = 0 /\ attempts = 0 /\ placed = <<>> /\ rejected = {}
  /\ place_failures = 0 /\ ended = FALSE

MCInit ==
  /\ G!Init
  /\ \/ about = "manifest" /\ M!Init /\ PlacementIdle
     \/ about = "grant" /\ ManifestIdle /\ PlacementIdle
     \/ about = "placement" /\ ManifestIdle /\ P!Init

MCNext ==
  \/ about = "manifest" /\ M!Next /\ UNCHANGED <<about, grantVars, placementVars>>
  \/ about = "grant" /\ G!Next /\ UNCHANGED <<about, manifestVars, placementVars>>
  \/ about = "placement" /\ P!Next /\ UNCHANGED <<about, manifestVars, grantVars>>

MCSpec == MCInit /\ [][MCNext]_all

\* Accepted deployments have one key, service or revision only if they share what
\* it stands for (Deployment::validate, key, service_name, revision).
NamesAreExact == M!NamesAreExact

\* What the host runs is the command of the manifest, with its variables and
\* none else (Deployment::effective_command).
RunsAsWritten == M!RunsAsWritten

\* A grant for any host that the preflight refuses is honored nowhere
\* (preflight_checks).
RefusedForCause == G!RefusedForCause

\* More free capacity and fewer jobs never lower the score (score_host).
ScoreIsMonotone == P!ScoreIsMonotone

\* A tick that leaves one of its one or two replicas unplaced has asked every host
\* it had ranked (Controller::tick).
EveryHostAsked == P!EveryHostAsked

\* What a tick does not place it reports (TickReport::place_failures), where the
\* last attempt cannot drop the last host.
ShortfallReported == P!ShortfallReported

=============================================================================
