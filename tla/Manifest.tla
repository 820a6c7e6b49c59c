------------------------------ MODULE Manifest ------------------------------
(***************************************************************************)
(* A deployment from the parsed manifest to the command that a host runs     *)
(* (src/src/spec.rs, CeDriver::bid_spec): what is accepted, which names and  *)
(* revision it gets, and how its variables get into its container.           *)
(*                                                                         *)
(* A string is the sequence of its bytes, in UTF-8.  A parsed deployment is a record   *)
(* with the fields of Deployment; an option that is not there is Nothing.    *)
(* No string has a NUL in it: the names of commands and their arguments       *)
(* cannot have one where they are run.  A number of the pod template is the   *)
(* sequence of its 16-bit words, the lowest first: two for cpu_cores, four    *)
(* for mem_mb and duration_secs, eight for the bid, which has a sign.         *)
(***************************************************************************)
EXTENDS Integers, Sequences, FiniteSets, SequencesExt

CONSTANTS
  Texts,        \* parsed deployments
  Stores,       \* secret stores: functions from names to values
  Nothing,
  DefaultNamespace,
  MAX_REPLICAS, MAX_IMAGE_LEN, MAX_ENV_VARS, MAX_ENV_LEN, MAX_NAME_LEN

Lower == 97..122
Upper == 65..90
Digit == 48..57

\* The characters of White_Space, as the bytes of each.
Space ==
  {<<c>> : c \in 9..13 \cup {32}}
    \cup {<<194, 133>>, <<194, 160>>, <<225, 154, 128>>, <<226, 129, 159>>, <<227, 128, 128>>}
    \cup {<<226, 128, c>> : c \in 128..138 \cup {168, 169, 175}}

Hyphen == 45
Underscore == 95
Slash == 47
Equals == 61

----------------------------------------------------------------------------
(* What is accepted *)

Bytes(s) == Range(s)

\* A slip: only what the service names are made of is kept out.
NoHyphenEnds(s) ==
  /\ Len(s) \in 1..MAX_NAME_LEN
  /\ Hyphen \notin {Head(s), Last(s)}

validate_name(s) ==
  /\ Len(s) \in 1..MAX_NAME_LEN
  /\ Hyphen \notin {Head(s), Last(s)}
  /\ Bytes(s) \subseteq Lower \cup Digit \cup {Hyphen}

\* Byte i is of a white space character. (In UTF-8 the bytes of a character do not
\* occur but as that character.)
IsSpace(s, i) ==
  \E c \in Space : \E j \in 1..i :
    i < j + Len(c) /\ j + Len(c) - 1 <= Len(s) /\ SubSeq(s, j, j + Len(c) - 1) = c

\* The string without the white space at its ends.
trim(s) ==
  LET solid == {i \in DOMAIN s : ~IsSpace(s, i)}
  IN  IF solid = {} THEN <<>>
      ELSE SubSeq(s, CHOOSE i \in solid : \A j \in solid : i <= j,
                     CHOOSE i \in solid : \A j \in solid : i >= j)

validate_image(s) ==
  /\ Len(trim(s)) \in 1..MAX_IMAGE_LEN
  /\ Bytes(trim(s)) \subseteq Lower \cup Upper \cup Digit
                                \cup {Hyphen, Underscore, Slash, 46, 58, 64}

\* A slip: the characters after the first one are not looked at.
FirstCharOnly(e) ==
  /\ Len(e.name) \in 1..MAX_ENV_LEN
  /\ Head(e.name) \in Lower \cup Upper \cup {Underscore}

EnvVarValid(e) ==
  /\ Len(e.name) \in 1..MAX_ENV_LEN
  /\ Head(e.name) \in Lower \cup Upper \cup {Underscore}
  /\ Bytes(e.name) \subseteq Lower \cup Upper \cup Digit \cup {Underscore}
  /\ Len(e.value) <= MAX_ENV_LEN
  /\ e.value = <<>> \/ e.value_from = Nothing

ProbeValid(p) ==
  /\ p.success_threshold > 0 /\ p.failure_threshold > 0
  /\ p.kind = "exec" => p.command # <<>>
  /\ p.kind \in {"tcp", "http"} => p.port # 0

DependsOnValid(d) ==
  /\ \A i \in DOMAIN d.depends_on :
       validate_name(d.depends_on[i]) /\ d.depends_on[i] # d.service
  /\ IsInjective(d.depends_on)

\* Of the numbers of the template; a negative one has its highest bit set.
IsZero(n) == \A i \in DOMAIN n : n[i] = 0
IsNegative(n) == Last(n) >= 32768

validate(d) ==
  /\ validate_name(d.name) /\ validate_name(d.namespace)
  /\ validate_image(d.image)
  /\ d.replicas <= MAX_REPLICAS
  /\ ~IsZero(d.cpu_cores) /\ ~IsZero(d.mem_mb) /\ ~IsNegative(d.bid)
  /\ d.strategy.type = "rolling_update" =>
       d.strategy.max_unavailable > 0 \/ d.strategy.max_surge > 0
  /\ Len(d.env) <= MAX_ENV_VARS
  /\ \A i \in DOMAIN d.env : EnvVarValid(d.env[i])
  /\ IsInjective([i \in DOMAIN d.env |-> d.env[i].name])
  /\ \A p \in {d.liveness, d.readiness} \ {Nothing} : ProbeValid(p)
  /\ d.service # <<>> => validate_name(d.service)
  /\ DependsOnValid(d)

----------------------------------------------------------------------------
(* Names and revisions *)

key(d) == d.namespace \o <<Slash>> \o d.name

CeGke == <<99, 101, 45, 103, 107, 101, Slash>>  \* "ce-gke/"

resolved_service_name(ns, service) == CeGke \o ns \o <<Slash>> \o service

\* Of a deployment that publishes a service.
service_name(d) == resolved_service_name(d.namespace, d.service)

\* The bytes of a number, the lowest first.
le_bytes(n) ==
  [i \in 1..(2 * Len(n)) |-> IF i % 2 = 1 THEN n[(i + 1) \div 2] % 256
                                         ELSE n[i \div 2] \div 256]

NumberBytes(d) ==
  le_bytes(d.cpu_cores) \o le_bytes(d.mem_mb) \o le_bytes(d.bid) \o le_bytes(d.duration_secs)

WordBytes(command) == FlattenSeq([i \in DOMAIN command |-> command[i] \o <<0>>])

\* The name of the secret, if there is one.
SecretOf(e) == IF e.value_from = Nothing THEN <<>> ELSE e.value_from

EntryBytes(e) == e.name \o <<0>> \o e.value \o <<0>> \o SecretOf(e) \o <<1>>

EnvBytes(env) == FlattenSeq([i \in DOMAIN env |-> EntryBytes(env[i])])

\* What revision() hashes.  The hash is taken to have no collisions.
revision(d) ==
  d.image \o <<0>> \o (WordBytes(d.command) \o (NumberBytes(d) \o EnvBytes(d.env)))

----------------------------------------------------------------------------
(* The command *)

SecretsKnown(d, store) ==
  \A i \in DOMAIN d.env : d.env[i].value_from \in DOMAIN store \cup {Nothing}

CommandFails(d, store) == d.env # <<>> /\ (d.command = <<>> \/ ~SecretsKnown(d, store))

Resolved(e, store) == IF e.value_from = Nothing THEN e.value ELSE store[e.value_from]

as_kv(e, store) == e.name \o <<Equals>> \o Resolved(e, store)

Env == <<101, 110, 118>>  \* "env"

\* Where CommandFails does not hold.
effective_command(d, store) ==
  IF d.env = <<>> THEN d.command
  ELSE <<Env>> \o [i \in DOMAIN d.env |-> as_kv(d.env[i], store)] \o d.command

\* The env utility of the container: the words up to the first one without "="
\* are variables, the rest is what it runs.
IsAssignment(word) == Equals \in Bytes(word)

Assignments(words) ==
  CHOOSE n \in 0..Len(words) :
    /\ \A i \in 1..n : IsAssignment(words[i])
    /\ n = Len(words) \/ ~IsAssignment(words[n + 1])

NameOf(word) == SubSeq(word, 1, SelectInSeq(word, LAMBDA c : c = Equals) - 1)
ValueOf(word) == SubSeq(word, SelectInSeq(word, LAMBDA c : c = Equals) + 1, Len(word))

Runs(words) ==
  IF words = <<>> \/ words[1] # Env THEN [variables |-> {}, program |-> words]
  ELSE LET args == Tail(words)  n == Assignments(args)
       IN  [variables |-> {<<NameOf(args[i]), ValueOf(args[i])>> : i \in 1..n},
            program |-> SubSeq(args, n + 1, Len(args))]

----------------------------------------------------------------------------

VARIABLES d, store, stage, cmd

vars == <<d, store, stage, cmd>>

Init ==
  /\ d \in Texts
  /\ store \in Stores
  /\ stage = "parsed"
  /\ cmd = <<>>

Accept ==
  /\ stage = "parsed"
  /\ validate(d)
  /\ stage' = "accepted"
  /\ UNCHANGED <<d, store, cmd>>

Refuse ==
  /\ stage = "parsed"
  /\ ~validate(d)
  /\ stage' = "refused"
  /\ UNCHANGED <<d, store, cmd>>

\* bid_spec makes the command; an error of it fails the deployment to a host.
bid_spec ==
  /\ stage = "accepted"
  /\ IF CommandFails(d, store)
     THEN stage' = "failed" /\ cmd' = cmd
     ELSE stage' = "launched" /\ cmd' = effective_command(d, store)
  /\ UNCHANGED <<d, store>>

Next == Accept \/ Refuse \/ bid_spec

Spec == Init /\ [][Next]_vars

----------------------------------------------------------------------------
(* Properties *)

Accepted == stage \in {"accepted", "launched", "failed"}

\* The key of a deployment is that of no other.
KeyTells(e) == key(e) = key(d) => e.namespace = d.namespace /\ e.name = d.name

\* "Resolves to the exact name that sibling advertises" (resolved_service_name): the
\* name that a dependency resolves to in a namespace is that of the service of that
\* name in that namespace, and of no other. It is resolved in the namespace of the
\* deployment (Controller::evaluate_deps); of one that is applied by itself the
\* comment of DependencyRef says the default namespace. Nothing depends on which.
ServiceTells(p) ==
  \A i \in DOMAIN d.depends_on, ns \in {d.namespace, DefaultNamespace} :
    p.service # <<>> =>
      (resolved_service_name(ns, d.depends_on[i]) = service_name(p)
         <=> p.namespace = ns /\ p.service = d.depends_on[i])

Template(e) ==
  <<e.image, e.command, e.cpu_cores, e.mem_mb, e.bid, e.duration_secs, e.env>>

\* The words of the command are hashed without their count, and the numbers follow
\* them: they are told apart by the zeros of a duration below 2^32 s.  A secret
\* without a name is hashed like none.
Tellable(e) ==
  /\ e.duration_secs[3] = 0 /\ e.duration_secs[4] = 0
  /\ \A i \in DOMAIN e.env : e.env[i].value_from # <<>>

\* "Scaling is not a rollout but changing the image is" (revision): the revision
\* is that of the pod template.
RevisionTells(e) ==
  Tellable(d) /\ Tellable(e) => (revision(e) = revision(d) <=> Template(e) = Template(d))

\* Deployment::validate lets in only names whose parts can be told apart where
\* they are joined: accepted deployments have one key, service or revision if and
\* only if they have one identity, publish one service or have one pod template.
NamesAreExact ==
  Accepted =>
    \A e \in Texts : validate(e) => KeyTells(e) /\ ServiceTells(e) /\ RevisionTells(e)

\* "Prefixing the command with env NAME=VALUE ..." (effective_command): what the
\* host runs is the command of the manifest, with the variables of the manifest
\* and none else.  A program cannot be named like an assignment, and a manifest
\* whose own command is env has it set what it likes.
RunsAsWritten ==
  stage = "launched"
    /\ (d.command # <<>> => ~IsAssignment(d.command[1]) /\ d.command[1] # Env) =>
    Runs(cmd) = [variables |-> {<<d.env[i].name, Resolved(d.env[i], store)>> : i \in DOMAIN d.env},
                 program |-> d.command]

=============================================================================
