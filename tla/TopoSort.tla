------------------------------ MODULE TopoSort ------------------------------
(***************************************************************************)
(* topo_sort (src/src/stack.rs): Kahn's algorithm over a map from a key to   *)
(* the keys that it depends on.  A step is one iteration of its while loop.  *)
(***************************************************************************)
EXTENDS Integers, Sequences, FiniteSets, Functions

CONSTANTS
  Key,     \* keys of deployments
  Rank,    \* the place of a key in the order of strings
  Graphs   \* the maps to sort, from some keys to sets of keys

ASSUME GraphAssumption ==
  /\ \A g \in Graphs :
       /\ DOMAIN g \subseteq Key /\ IsFiniteSet(DOMAIN g)
       /\ \A n \in DOMAIN g : g[n] \subseteq Key /\ IsFiniteSet(g[n])
  /\ Rank \in [Key -> Nat]

VARIABLES
  deps,      \* key -> its dependencies
  indegree,  \* node -> dependencies of it that are not in the order yet
  ready,     \* nodes that wait for no other
  order

sortVars == <<deps, indegree, ready, order>>

\* A key that some other depends on is a node too, though it maps to nothing.
NodesOf(g) == DOMAIN g \cup UNION {g[n] : n \in DOMAIN g}

DepsIn(g, n) == IF n \in DOMAIN g THEN g[n] ELSE {}

Nodes == NodesOf(deps)

DepsOf(n) == DepsIn(deps, n)

Emitted == Range(order)

Indegrees(g) == [n \in NodesOf(g) |-> Cardinality(DepsIn(g, n))]

\* What topo_sort has set up for g before its loop.
Begun(g, d, i, r, o) ==
  /\ d = g
  /\ i = Indegrees(g)
  /\ r = {n \in NodesOf(g) : Indegrees(g)[n] = 0}
  /\ o = <<>>

SortInit == \E g \in Graphs : Begun(g, deps, indegree, ready, order)

dependents(n) == {m \in Nodes : n \in DepsOf(m)}

\* A slip: a dependent is ready as soon as one of its dependencies is out.
EmitEager(n) ==
  /\ n \in ready
  /\ order' = Append(order, n)
  /\ indegree' = [m \in Nodes |->
                    IF m \in dependents(n) /\ indegree[m] > 0 THEN indegree[m] - 1
                                                              ELSE indegree[m]]
  /\ ready' = (ready \ {n}) \cup (dependents(n) \ Emitted)
  /\ UNCHANGED deps

\* n goes into the order and is one reason less to wait for its dependents.
Emit(n) ==
  /\ n \in ready
  /\ \A m \in ready : Rank[n] <= Rank[m]
  /\ order' = Append(order, n)
  /\ indegree' = [m \in Nodes |->
                    IF m \in dependents(n) /\ indegree[m] > 0 THEN indegree[m] - 1
                                                              ELSE indegree[m]]
  /\ ready' = (ready \ {n}) \cup {m \in dependents(n) : indegree'[m] = 0}
  /\ UNCHANGED deps

SortNext == \E n \in Nodes : Emit(n)

SortSpec == SortInit /\ [][SortNext]_sortVars

----------------------------------------------------------------------------
(* The end of the loop *)

SortOver == ready = {}

\* A slip: the length is compared with the number of keys of the map.
TooFewKeys == Len(order) # Cardinality(DOMAIN deps)

Cyclic == Len(order) # Cardinality(Nodes)

stuck == Nodes \ Emitted

----------------------------------------------------------------------------
(* Properties *)

SortTypeOK ==
  /\ deps \in Graphs
  /\ indegree \in [Nodes -> Nat]
  /\ ready \subseteq Nodes
  /\ order \in Seq(Nodes)

\* "Every key appears after all the keys it depends on" (topo_sort), at every
\* moment of the loop.
ProducersFirst ==
  \A i \in 1..Len(order) : \A p \in DepsOf(order[i]) :
    \E j \in 1..(i - 1) : order[j] = p

\* A set in which every node depends on another one of the set: on or behind a
\* cycle, all of it.
Waiting(W) == \A n \in W : DepsOf(n) \cap W # {}

\* "The unprocessed nodes are exactly those on/behind a cycle" (topo_sort): when
\* the loop ends, the nodes left over wait for one another, and no node of such
\* a set is in the order.
StuckExactly ==
  /\ SortOver => Waiting(stuck)
  /\ \A W \in SUBSET Nodes : Waiting(W) => W \cap Emitted = {}

\* topo_sort "errors ... if one exists": the lengths that are compared at the end
\* differ if and only if some nodes wait for one another.
CyclicExactly ==
  SortOver => (Cyclic <=> \E W \in (SUBSET Nodes) \ {{}} : Waiting(W))

=============================================================================
