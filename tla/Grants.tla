------------------------------- MODULE Grants -------------------------------
(***************************************************************************)
(* The capability grant of one deployment: checked before a deployment is    *)
(* applied (preflight_checks, src/src/main.rs; src/src/auth.rs), kept with   *)
(* it, presented on every deploy and kill, and verified by the hosts, while  *)
(* time passes and grants are revoked.                                       *)
(*                                                                         *)
(* A grant is a chain of one link.  The verdict of ce-cap is modelled from   *)
(* the tests of auth.rs.  A tick of the controller is down to the one        *)
(* deployment of a replica to one host, and a kill is one that is asked for  *)
(* by delete.                                                                *)
(***************************************************************************)
EXTENDS Integers, FiniteSets

CONSTANTS
  Hosts,    \* functions are of these: ids of hosts
  Roots,    \* host -> the root keys it accepts besides its own
  Tags,     \* host -> its tags
  Tokens,   \* [issuer, audience, abilities, tag, not_after]
  me,       \* the id of the own node
  NoTag,    \* the tag of a grant for any host
  None,
  MaxTime,
  MaxRevoked

VARIABLES
  now,
  revoked,
  stored,   \* the grant kept with the deployment
  applied,  \* the deployment is in the store
  handles,  \* hosts of the replicas in the store
  live,     \* hosts on which a replica runs
  verdict   \* what the last command was told

vars == <<now, revoked, stored, applied, handles, live, verdict>>

Given == Tokens \cup {None}

Init ==
  /\ now = 0
  /\ revoked = {}
  /\ stored = None
  /\ applied = FALSE
  /\ handles = {} /\ live = {}
  /\ verdict = [kind |-> "none", grant |-> None]

\* ce_cap::authorize, at a node self with the given roots and tags.
authorize(self, roots, tags, requester, action, t, isRevoked) ==
  /\ t.issuer \in roots \cup {self}
  /\ requester = t.audience
  /\ action \in t.abilities
  /\ t.tag \in tags \cup {NoTag}
  /\ now <= t.not_after
  /\ ~isRevoked

\* An open host asks for no grant; the hosts here do.
Honors(h, action, t) ==
  t # None /\ authorize(h, Roots[h], Tags[h], me, action, t, t \in revoked)

\* A slip: only the own key is taken for a root.
preflight_rootless(t) == authorize(me, {}, {}, me, "deploy", t, FALSE)

\* preflight_checks: with the issuer as a root of the own node, or as the node.
preflight(t) ==
  \/ authorize(me, {t.issuer}, {}, me, "deploy", t, FALSE)
  \/ authorize(t.issuer, {}, {}, me, "deploy", t, FALSE)

\* managed.grant, or else that of the command line.
grant_of(g) == IF stored # None THEN stored ELSE g

\* upsert keeps the grant when none is given.
Upserted(g) == IF g # None THEN g ELSE stored

\* apply; reachable is whether the own node answers the preflight.
Apply(g, reachable) ==
  /\ IF reachable /\ g # None /\ ~preflight(g)
     THEN /\ verdict' = [kind |-> "refused", grant |-> g]
          /\ UNCHANGED <<stored, applied>>
     ELSE /\ verdict' = [kind |-> "applied", grant |-> g]
          /\ stored' = Upserted(g)
          /\ applied' = TRUE
  /\ UNCHANGED <<now, revoked, handles, live>>

\* The controller of a command, or of a daemon, that was given g.
Place(h, g) ==
  /\ applied /\ h \notin handles
  /\ Honors(h, "deploy", grant_of(g))
  /\ handles' = handles \cup {h}
  /\ live' = live \cup {h}
  /\ UNCHANGED <<now, revoked, stored, applied, verdict>>

Refusals(g) == {h \in handles : ~Honors(h, "kill", grant_of(g))}

\* delete: every replica is killed that can be; if some cannot, the deployment
\* stays as it is, unless forced.
Delete(g, force) ==
  /\ applied
  /\ live' = live \ (handles \ Refusals(g))
  /\ IF Refusals(g) = {} \/ force
     THEN applied' = FALSE /\ stored' = None /\ handles' = {}
     ELSE UNCHANGED <<applied, stored, handles>>
  /\ verdict' = [kind |-> IF Refusals(g) = {} THEN "deleted"
                          ELSE IF force THEN "forced" ELSE "kept",
                 grant |-> g]
  /\ UNCHANGED <<now, revoked>>

TimePasses ==
  /\ now < MaxTime
  /\ now' = now + 1
  /\ verdict' = [verdict EXCEPT !.kind = "none"]
  /\ UNCHANGED <<revoked, stored, applied, handles, live>>

Revoke(t) ==
  /\ Cardinality(revoked) < MaxRevoked
  /\ revoked' = revoked \cup {t}
  /\ verdict' = [verdict EXCEPT !.kind = "none"]
  /\ UNCHANGED <<now, stored, applied, handles, live>>

Next ==
  \/ \E g \in Given : \E b \in BOOLEAN : Apply(g, b) \/ Delete(g, b)
  \/ \E g \in Given : \E h \in Hosts : Place(h, g)
  \/ TimePasses
  \/ \E t \in Tokens : Revoke(t)

Spec == Init /\ [][Next]_vars

----------------------------------------------------------------------------
(* Properties *)

\* "Returns Ok(()) if it would be accepted" (preflight), for grants that hold on
\* every host of their issuer: one that is refused is honored nowhere.
RefusedForCause ==
  verdict.kind = "refused" /\ verdict.grant.tag = NoTag =>
    \A h \in Hosts : ~Honors(h, "deploy", verdict.grant)

=============================================================================
