---------------------------- MODULE StackProofs ----------------------------
(***************************************************************************)
(* The order of topo_sort (TopoSort), for every finite dependency map, and  *)
(* the order in which apply_stack hands the apps of a manifest on (Stack),  *)
(* for every manifest. The inductive invariant of the sort says what the    *)
(* counters count: a node that is not in the order yet waits for exactly    *)
(* those of its dependencies that are not.                                  *)
(* And the deployments that depend on each other in a circle (Gates).       *)
(***************************************************************************)
EXTENDS MCDependencies, FiniteSetTheorems, SequenceTheorems, WellFoundedInduction, TLAPS

FiniteMap(g) == IsFiniteSet(DOMAIN g) /\ \A n \in DOMAIN g : IsFiniteSet(g[n])

SortTyped ==
  /\ FiniteMap(deps)
  /\ indegree \in [Nodes -> Nat]
  /\ ready \subseteq Nodes
  /\ order \in Seq(Nodes)

\* indegree counts the dependencies that are not in the order.
Counts == \A n \in Nodes : indegree[n] = Cardinality(DepsOf(n) \ Emitted)

\* ready has the nodes that are not in the order and wait for nothing.
ReadyExact == ready = {n \in Nodes : n \notin Emitted /\ indegree[n] = 0}

\* The dependencies of a node in the order are in the order.
Closed == \A n \in Emitted : DepsOf(n) \subseteq Emitted

\* No node is in the order twice.
LengthCounts == Len(order) = Cardinality(Emitted)

NoWaitingEmitted == \A W \in SUBSET Nodes : Waiting(W) => W \cap Emitted = {}

SortInv ==
  SortTyped /\ Counts /\ ReadyExact /\ Closed /\ LengthCounts
    /\ ProducersFirst /\ NoWaitingEmitted

\* A finite map has finitely many nodes, each with finitely many dependencies.
LEMMA FiniteGraph ==
  ASSUME NEW g, FiniteMap(g)
  PROVE  /\ IsFiniteSet(NodesOf(g))
         /\ \A n \in NodesOf(g) : /\ DepsIn(g, n) \subseteq NodesOf(g)
                                  /\ IsFiniteSet(DepsIn(g, n))
<1>1. IsFiniteSet(DOMAIN g) /\ \A n \in DOMAIN g : IsFiniteSet(g[n])
  BY DEF FiniteMap
<1>2. IsFiniteSet(UNION {g[n] : n \in DOMAIN g})
  <2> DEFINE sets == {g[n] : n \in DOMAIN g}
  <2>1. IsFiniteSet(sets)
    <3> DEFINE f == [n \in DOMAIN g |-> g[n]]
    <3>1. f \in Surjection(DOMAIN g, sets)
      BY DEF Surjection
    <3> QED
      BY <1>1, <3>1, FS_Surjection
  <2>2. \A s \in sets : IsFiniteSet(s)
    BY <1>1
  <2> QED
    BY <2>1, <2>2, FS_UNION
<1>3. IsFiniteSet(NodesOf(g))
  BY <1>1, <1>2, FS_Union DEF NodesOf
<1>4. \A n \in NodesOf(g) : DepsIn(g, n) \subseteq NodesOf(g) /\ IsFiniteSet(DepsIn(g, n))
  BY <1>1, FS_EmptySet DEF NodesOf, DepsIn
<1> QED
  BY <1>3, <1>4

\* What appending a new node does to the set of the emitted ones.
LEMMA EmittedAfter ==
  ASSUME SortInv, NEW n \in Nodes, order' = Append(order, n)
  PROVE  /\ Emitted' = Emitted \cup {n}
         /\ Len(order') = Len(order) + 1
         /\ order' \in Seq(Nodes)
         /\ \A i \in 1..Len(order) : order'[i] = order[i]
         /\ order'[Len(order) + 1] = n
<1>1. order \in Seq(Nodes)
  BY DEF SortInv, SortTyped
<1>2. /\ Len(order') = Len(order) + 1
      /\ order' \in Seq(Nodes)
      /\ \A i \in 1..Len(order) : order'[i] = order[i]
      /\ order'[Len(order) + 1] = n
  BY <1>1
<1>3. DOMAIN order = 1..Len(order) /\ DOMAIN order' = 1..(Len(order) + 1)
  BY <1>1, <1>2
<1>4. Len(order) \in Nat
  BY <1>1
<1>5. Emitted' = Emitted \cup {n}
  BY <1>2, <1>3, <1>4 DEF Emitted, Range
<1> QED
  BY <1>2, <1>5

\* The invariant holds when the loop begins.
Begins == FiniteMap(deps) /\ Begun(deps, deps, indegree, ready, order)

\* The counters are right before the first iteration.
LEMMA InvInit == Begins => SortInv
<1> SUFFICES ASSUME Begins PROVE SortInv
  OBVIOUS
<1>1. /\ FiniteMap(deps) /\ indegree = Indegrees(deps) /\ order = <<>>
      /\ ready = {n \in Nodes : indegree[n] = 0}
  BY DEF Begun, Begins, Nodes
<1>2. Emitted = {}
  BY <1>1 DEF Emitted, Range
<1>3. \A n \in Nodes : Cardinality(DepsOf(n)) \in Nat
  BY <1>1, FiniteGraph, FS_CardinalityType DEF Nodes, DepsOf
<1>4. \A n \in Nodes : indegree[n] = Cardinality(DepsOf(n))
  BY <1>1 DEF Indegrees, Nodes, DepsOf
<1>5. SortTyped
  BY <1>1, <1>3 DEF SortTyped, Indegrees, Nodes, DepsOf
<1>6. Counts
  <2> \A n : DepsOf(n) \ Emitted = DepsOf(n)
    BY <1>2
  <2> QED
    BY <1>4 DEF Counts
<1>7. ReadyExact /\ Closed /\ LengthCounts /\ ProducersFirst /\ NoWaitingEmitted
  BY <1>1, <1>2, FS_EmptySet
     DEF ReadyExact, Closed, LengthCounts, ProducersFirst, NoWaitingEmitted
<1> QED
  BY <1>5, <1>6, <1>7 DEF SortInv

\* One iteration of the loop keeps it.
LEMMA InvEmit ==
  ASSUME SortInv, NEW n \in Nodes, Emit(n)
  PROVE  SortInv'
<1>1. /\ FiniteMap(deps) /\ indegree \in [Nodes -> Nat]
      /\ n \notin Emitted /\ indegree[n] = 0
  BY DEF SortInv, SortTyped, Emit, ReadyExact
<1>2. /\ deps' = deps /\ Nodes' = Nodes
      /\ \A m : DepsOf(m)' = DepsOf(m)
  BY DEF Emit, Nodes, DepsOf
<1>3. /\ Emitted' = Emitted \cup {n}
      /\ Len(order') = Len(order) + 1
      /\ order' \in Seq(Nodes)
      /\ \A i \in 1..Len(order) : order'[i] = order[i]
      /\ order'[Len(order) + 1] = n
  BY EmittedAfter DEF Emit
<1>4. \A m \in Nodes : DepsOf(m) \subseteq Nodes /\ IsFiniteSet(DepsOf(m) \ Emitted)
  <2> SUFFICES ASSUME NEW m \in Nodes
               PROVE  DepsOf(m) \subseteq Nodes /\ IsFiniteSet(DepsOf(m) \ Emitted)
    OBVIOUS
  <2>1. DepsOf(m) \subseteq Nodes /\ IsFiniteSet(DepsOf(m))
    BY <1>1, FiniteGraph DEF Nodes, DepsOf
  <2>2. DepsOf(m) \ Emitted \in SUBSET DepsOf(m)
    OBVIOUS
  <2> QED
    BY <2>1, <2>2, FS_Subset
<1>5. DepsOf(n) \subseteq Emitted
  <2>1. Cardinality(DepsOf(n) \ Emitted) = 0
    BY <1>1 DEF SortInv, Counts
  <2>2. DepsOf(n) \ Emitted = {}
    BY <2>1, <1>4, FS_EmptySet
  <2> QED
    BY <2>2
<1>6. \A m \in Nodes :
        /\ m \in dependents(n) => indegree[m] > 0 /\ indegree'[m] = indegree[m] - 1
        /\ m \notin dependents(n) => indegree'[m] = indegree[m]
        /\ indegree'[m] = Cardinality(DepsOf(m) \ (Emitted \cup {n}))
  <2> SUFFICES ASSUME NEW m \in Nodes
               PROVE  /\ m \in dependents(n) =>
                           indegree[m] > 0 /\ indegree'[m] = indegree[m] - 1
                      /\ m \notin dependents(n) => indegree'[m] = indegree[m]
                      /\ indegree'[m] = Cardinality(DepsOf(m) \ (Emitted \cup {n}))
    OBVIOUS
  <2> DEFINE waits == DepsOf(m) \ Emitted
  <2>1. indegree[m] = Cardinality(waits) /\ IsFiniteSet(waits) /\ indegree[m] \in Nat
    BY <1>1, <1>4 DEF SortInv, Counts
  <2>2. DepsOf(m) \ (Emitted \cup {n}) = waits \ {n}
    OBVIOUS
  <2>3. Cardinality(waits \ {n}) = IF n \in waits THEN Cardinality(waits) - 1
                                                  ELSE Cardinality(waits)
    BY <2>1, FS_RemoveElement
  <2>4. n \in waits <=> m \in dependents(n)
    BY <1>1 DEF dependents
  <2>5. n \in waits => indegree[m] > 0
    <3> HAVE n \in waits
    <3>1. waits # {}
      OBVIOUS
    <3>2. Cardinality(waits) # 0
      BY <3>1, <2>1, FS_EmptySet
    <3> HIDE DEF waits
    <3> QED
      BY <3>2, <2>1
  <2> HIDE DEF waits
  <2>6. indegree'[m] = IF m \in dependents(n) /\ indegree[m] > 0 THEN indegree[m] - 1
                                                                 ELSE indegree[m]
    BY DEF Emit
  <2> QED
    BY <2>1, <2>2, <2>3, <2>4, <2>5, <2>6
<1>7. SortTyped'
  <2>1. indegree' \in [Nodes -> Nat]
    <3>1. ASSUME NEW m \in Nodes PROVE indegree'[m] \in Nat
      <4>1. indegree[m] \in Nat
        BY <1>1
      <4>2. CASE m \in dependents(n)
        <5>1. indegree[m] > 0 /\ indegree'[m] = indegree[m] - 1
          BY <4>2, <1>6
        <5> QED
          BY <4>1, <5>1
      <4>3. CASE m \notin dependents(n)
        BY <4>1, <4>3, <1>6
      <4> QED
        BY <4>2, <4>3
    <3>2. indegree' = [m \in Nodes |-> indegree'[m]]
      BY DEF Emit
    <3> QED
      BY <3>1, <3>2
  <2>2. ready' \subseteq Nodes
    BY DEF Emit, dependents, SortInv, SortTyped
  <2> QED
    BY <1>1, <1>2, <1>3, <2>1, <2>2 DEF SortTyped
<1>8. Counts'
  BY <1>2, <1>3, <1>6 DEF Counts
<1>9. Closed'
  BY <1>2, <1>3, <1>5 DEF Closed, SortInv
<1>10. ReadyExact'
  <2>1. ready = {m \in Nodes : m \notin Emitted /\ indegree[m] = 0}
    BY DEF SortInv, ReadyExact
  <2>2. ready' = (ready \ {n}) \cup {m \in dependents(n) : indegree'[m] = 0}
    BY DEF Emit
  <2>3. \A m \in dependents(n) : m \in Nodes /\ m \notin Emitted /\ m # n
    BY <1>1, <1>5 DEF dependents, SortInv, Closed
  <2>4. \A m \in Nodes : m \in ready' <=> m \notin Emitted \cup {n} /\ indegree'[m] = 0
    <3> SUFFICES ASSUME NEW m \in Nodes
                 PROVE  m \in ready' <=> m \notin Emitted \cup {n} /\ indegree'[m] = 0
      OBVIOUS
    <3>1. CASE m \in dependents(n)
      <4>1. indegree[m] > 0
        BY <3>1, <1>6
      <4>2. m \notin ready
        BY <2>1, <4>1
      <4> QED
        BY <2>2, <2>3, <3>1, <4>2
    <3>2. CASE m \notin dependents(n)
      BY <2>1, <2>2, <3>2, <1>6
    <3> QED
      BY <3>1, <3>2
  <2>5. ready' \subseteq Nodes
    BY <1>7, <1>2 DEF SortTyped
  <2> QED
    BY <2>4, <2>5, <1>2, <1>3 DEF ReadyExact
<1>11. LengthCounts'
  <2>1. IsFiniteSet(Nodes)
    BY <1>1, FiniteGraph DEF Nodes
  <2>2. Emitted \in SUBSET Nodes
    BY DEF SortInv, SortTyped, Emitted, Range
  <2>3. IsFiniteSet(Emitted)
    BY <2>1, <2>2, FS_Subset
  <2>4. Cardinality(Emitted \cup {n}) = Cardinality(Emitted) + 1
    BY <1>1, <2>3, FS_AddElement
  <2> QED
    BY <1>3, <2>4 DEF LengthCounts, SortInv
<1>12. ProducersFirst'
  <2>1. Len(order) \in Nat /\ order \in Seq(Nodes)
    BY DEF SortInv, SortTyped
  <2> SUFFICES ASSUME NEW i \in 1..(Len(order) + 1), NEW p \in DepsOf(order'[i])
               PROVE  \E j \in 1..(i - 1) : order'[j] = p
    BY <1>2, <1>3 DEF ProducersFirst
  <2>2. CASE i \in 1..Len(order)
    <3>1. PICK j \in 1..(i - 1) : order[j] = p
      BY <2>2, <1>3 DEF SortInv, ProducersFirst
    <3>2. j \in 1..Len(order)
      BY <2>1, <2>2
    <3> QED
      BY <3>1, <3>2, <1>3
  <2>3. CASE i = Len(order) + 1
    <3>1. p \in Emitted
      BY <2>3, <1>3, <1>5
    <3>2. PICK j \in 1..Len(order) : order[j] = p
      BY <3>1, <2>1 DEF Emitted, Range
    <3> QED
      BY <3>2, <2>1, <2>3, <1>3
  <2> QED
    BY <2>1, <2>2, <2>3
<1>13. NoWaitingEmitted'
  BY <1>2, <1>3, <1>5 DEF NoWaitingEmitted, Waiting, SortInv
<1> QED
  BY <1>7, <1>8, <1>9, <1>10, <1>11, <1>12, <1>13 DEF SortInv

\* So does whatever the loop does, or does not.
LEMMA InvSort ==
  ASSUME SortInv, [SortNext]_sortVars
  PROVE  SortInv'
<1>1. CASE SortNext
  BY <1>1, InvEmit DEF SortNext
<1>2. CASE UNCHANGED sortVars
  <2>1. /\ UNCHANGED <<deps, indegree, ready, order, Nodes, Emitted>>
        /\ \A n : DepsOf(n)' = DepsOf(n)
        /\ \A W : Waiting(W)' = Waiting(W)
    BY <1>2 DEF sortVars, Nodes, Emitted, DepsOf, Waiting
  <2> QED
    BY <2>1 DEF SortInv, SortTyped, Counts, ReadyExact, Closed, LengthCounts,
                ProducersFirst, NoWaitingEmitted
<1> QED
  BY <1>1, <1>2

\* The invariant of the loop, at every moment.
LEMMA SortInvariance == SortSpec => []SortInv
<1>1. SortInit => Begins
  <2> SUFFICES ASSUME NEW g \in Graphs, Begun(g, deps, indegree, ready, order)
               PROVE  Begins
    BY DEF SortInit
  <2>1. FiniteMap(g) /\ deps = g
    BY GraphAssumption DEF FiniteMap, Begun
  <2> QED
    BY <2>1 DEF Begins
<1>2. SortInv /\ [SortNext]_sortVars => SortInv'
  BY InvSort
<1> QED
  BY <1>1, InvInit, <1>2, PTL DEF SortSpec

\* "Every key appears after all the keys it depends on" (topo_sort), for every
\* finite map.
THEOREM ProducersFirstTheorem == SortSpec => []ProducersFirst
<1>1. SortInv => ProducersFirst
  BY DEF SortInv
<1> QED
  BY SortInvariance, <1>1, PTL

\* The nodes of the message of topo_sort are those on or behind a cycle: when the
\* loop is over, a node that is left waits for one that is left.
LEMMA StuckWaits ==
  ASSUME SortInv, SortOver
  PROVE  Waiting(stuck)
<1> SUFFICES ASSUME NEW n \in stuck PROVE DepsOf(n) \cap stuck # {}
  BY DEF Waiting
<1>1. n \in Nodes /\ n \notin Emitted /\ indegree[n] # 0
  BY DEF stuck, SortOver, SortInv, ReadyExact
<1>2. Cardinality(DepsOf(n) \ Emitted) # 0
  BY <1>1 DEF SortInv, Counts
<1>3. DepsOf(n) \ Emitted # {}
  BY <1>2, FS_EmptySet
<1>4. DepsOf(n) \subseteq Nodes
  BY <1>1, FiniteGraph DEF SortInv, SortTyped, Nodes, DepsOf
<1> QED
  BY <1>3, <1>4 DEF stuck

\* "The unprocessed nodes are exactly those on/behind a cycle" (topo_sort).
THEOREM StuckTheorem == SortSpec => []StuckExactly
<1>1. SortInv => StuckExactly
  BY StuckWaits DEF SortInv, StuckExactly, NoWaitingEmitted
<1> QED
  BY SortInvariance, <1>1, PTL

\* topo_sort fails if and only if the map has a cycle.
THEOREM CyclicTheorem == SortSpec => []CyclicExactly
<1>1. SortInv => CyclicExactly
  <2> SUFFICES ASSUME SortInv, SortOver
               PROVE  Cyclic <=> \E W \in (SUBSET Nodes) \ {{}} : Waiting(W)
    BY DEF CyclicExactly
  <2>1. IsFiniteSet(Nodes)
    BY FiniteGraph DEF SortInv, SortTyped, Nodes
  <2>2. Emitted \in SUBSET Nodes
    BY DEF SortInv, SortTyped, Emitted, Range
  <2>3. Cyclic <=> stuck # {}
    <3>1. Emitted = Nodes <=> Cardinality(Emitted) = Cardinality(Nodes)
      BY <2>1, <2>2, FS_Subset
    <3> QED
      BY <3>1, <2>2 DEF Cyclic, stuck, SortInv, LengthCounts
  <2>4. stuck # {} => \E W \in (SUBSET Nodes) \ {{}} : Waiting(W)
    BY StuckWaits DEF stuck
  <2>5. ASSUME NEW W \in (SUBSET Nodes) \ {{}}, Waiting(W) PROVE stuck # {}
    BY <2>5 DEF SortInv, NoWaitingEmitted, stuck
  <2> QED
    BY <2>3, <2>4, <2>5
<1> QED
  BY SortInvariance, <1>1, PTL

----------------------------------------------------------------------------
(* The stack *)

IsSequence(as) == as \in Seq(Range(as))

\* The positions of a sequence.
LEMMA SequenceFacts ==
  ASSUME NEW as, IsSequence(as)
  PROVE  DOMAIN as = 1..Len(as) /\ Len(as) \in Nat
BY LenProperties DEF IsSequence

\* What replaces every app of a sequence by another is a sequence.
LEMMA SameDomain ==
  ASSUME NEW n \in Nat, NEW t, t = [i \in 1..n |-> t[i]]
  PROVE  IsSequence(t)
<1> DEFINE S == Range(t)
<1>1. DOMAIN t = 1..n
  OBVIOUS
<1>2. \A i \in 1..n : t[i] \in S
  BY <1>1 DEF Range
<1> HIDE DEF S
<1>3. t \in Seq(S)
  BY <1>1, <1>2
<1> QED
  BY <1>3 DEF IsSequence, S

\* The namespaces of the apps change, not how many there are.
LEMMA NamespacesKeepSequence ==
  ASSUME NEW as, IsSequence(as), NEW ns
  PROVE  IsSequence(shift(as, ns)) /\ IsSequence(parsed(as))
<1>1. DOMAIN as = 1..Len(as) /\ Len(as) \in Nat
  BY SequenceFacts
<1>2. IsSequence(shift(as, ns))
  <2> DEFINE t == shift(as, ns)
  <2>1. t = [i \in 1..Len(as) |-> t[i]]
    BY <1>1 DEF shift
  <2> HIDE DEF t
  <2>2. IsSequence(t)
    BY <1>1, <2>1, SameDomain
  <2> QED
    BY <2>2 DEF t
<1>3. IsSequence(parsed(as))
  <2> DEFINE t == parsed(as)
  <2>1. t = [i \in 1..Len(as) |-> t[i]]
    BY <1>1 DEF parsed
  <2> HIDE DEF t
  <2>2. IsSequence(t)
    BY <1>1, <2>1, SameDomain
  <2> QED
    BY <2>2 DEF t
<1> QED
  BY <1>2, <1>3

\* A set of positions has a last one. (WFMin, on the distances from the end.)
LEMMA HasLast ==
  ASSUME NEW n \in Nat, NEW I \in SUBSET (1..n), I # {}
  PROVE  \E x \in I : \A y \in I : x >= y
<1> DEFINE J == {n - i : i \in I}
           Less == {ss \in Nat \X Nat : ss[1] < ss[2]}
<1>1. J \subseteq Nat /\ J # {}
  <2>1. \A i \in I : n - i \in Nat
    OBVIOUS
  <2>2. PICK i \in I : TRUE
    OBVIOUS
  <2>3. n - i \in J
    OBVIOUS
  <2> QED
    BY <2>1, <2>3
<1>2. IsWellFoundedOn(Less, Nat)
  BY NatLessThanWellFounded DEF OpToRel
<1>3. PICK j \in J : \A y \in J : ~ (<<y, j>> \in Less)
  <2> HIDE DEF J, Less
  <2> QED
    BY <1>1, <1>2, WFMin
<1>4. \A y \in J : ~ (y < j)
  BY <1>1, <1>3
<1>5. PICK x \in I : j = n - x
  OBVIOUS
<1>6. \A y \in I : ~ (n - y < n - x)
  BY <1>4, <1>5
<1> QED
  BY <1>6

\* service_owner finds an app that publishes the service, if there is one.
LEMMA OwnerPublishes ==
  ASSUME NEW as, IsSequence(as), NEW ns, NEW s
  PROVE  \/ service_owner(as, ns, s) = {}
            /\ \A i \in DOMAIN as : ~Publishes(as[i], ns, s)
         \/ \E i \in DOMAIN as : /\ Publishes(as[i], ns, s)
                                 /\ service_owner(as, ns, s) = {key(as[i])}
<1> DEFINE I == {i \in 1..Len(as) : Publishes(as[i], ns, s)}
           of == IF I # {} THEN Max(I) ELSE 0
<1>1. DOMAIN as = 1..Len(as) /\ Len(as) \in Nat
  BY SequenceFacts
<1>2. service_owner(as, ns, s) = IF of = 0 THEN {} ELSE {key(as[of])}
  BY DEF service_owner, SelectLastInSeq
<1>3. CASE I = {}
  BY <1>1, <1>2, <1>3
<1>4. CASE I # {}
  <2>1. Max(I) \in I
    <3> HIDE DEF I
    <3>1. I \in SUBSET (1..Len(as))
      BY DEF I
    <3> QED
      BY <1>1, <1>4, <3>1, HasLast DEF Max
  <2>2. Max(I) \in DOMAIN as /\ Max(I) # 0 /\ Publishes(as[Max(I)], ns, s)
    <3> DEFINE x == Max(I)
    <3>1. x \in 1..Len(as) /\ Publishes(as[x], ns, s)
      BY <2>1
    <3> HIDE DEF x
    <3>2. \A n \in Nat : x \in 1..n => x # 0
      OBVIOUS
    <3>3. x # 0 /\ x \in DOMAIN as
      BY <1>1, <3>1, <3>2
    <3> QED
      BY <3>1, <3>3 DEF x
  <2>3. of = Max(I)
    BY <1>4
  <2> HIDE DEF of
  <2> QED
    BY <1>2, <2>2, <2>3
<1> QED
  BY <1>3, <1>4

KeysOf(as) == {key(app) : app \in Range(as)}

\* The dependency map of any list of apps is one that the sort can take.
LEMMA DepsMapFinite ==
  ASSUME NEW as, IsSequence(as)
  PROVE  FiniteMap(DepsMap(as)) /\ DOMAIN DepsMap(as) = KeysOf(as)
<1>1. DOMAIN as = 1..Len(as) /\ Len(as) \in Nat
  BY SequenceFacts
<1>2. IsFiniteSet(KeysOf(as))
  <2> DEFINE f == [i \in DOMAIN as |-> key(as[i])]
  <2>1. f \in Surjection(DOMAIN as, KeysOf(as))
    BY DEF Surjection, KeysOf, Range
  <2>2. IsFiniteSet(1..Len(as))
    <3>1. \A n \in Nat : IsFiniteSet(1..n)
      BY FS_Interval
    <3> QED
      BY <1>1, <3>1
  <2> HIDE DEF f
  <2> QED
    BY <1>1, <2>1, <2>2, FS_Surjection
<1>3. DOMAIN DepsMap(as) = KeysOf(as)
  BY DEF DepsMap, KeysOf
<1>4. ASSUME NEW k \in KeysOf(as)
      PROVE  DepsMap(as)[k] \subseteq KeysOf(as)
  <2>1. DepsMap(as)[k] =
          UNION {UNION {service_owner(as, app.namespace, s) \ {k} : s \in app.depends_on} :
                   app \in {a \in Range(as) : key(a) = k}}
    BY <1>4 DEF DepsMap, KeysOf
  <2>2. ASSUME NEW ns, NEW s PROVE service_owner(as, ns, s) \subseteq KeysOf(as)
    <3>1. \A i \in DOMAIN as : key(as[i]) \in KeysOf(as)
      BY DEF KeysOf, Range
    <3>2. CASE service_owner(as, ns, s) = {}
      BY <3>2
    <3>3. CASE \E i \in DOMAIN as : service_owner(as, ns, s) = {key(as[i])}
      <4>1. PICK i \in DOMAIN as : service_owner(as, ns, s) = {key(as[i])}
        BY <3>3
      <4>2. key(as[i]) \in KeysOf(as)
        BY <3>1
      <4> QED
        BY <4>1, <4>2
    <3> QED
      BY <3>2, <3>3, OwnerPublishes
  <2> SUFFICES ASSUME NEW x \in DepsMap(as)[k] PROVE x \in KeysOf(as)
    OBVIOUS
  <2>3. PICK app \in {a \in Range(as) : key(a) = k} :
          x \in UNION {service_owner(as, app.namespace, s) \ {k} : s \in app.depends_on}
    BY <2>1
  <2>4. PICK s \in app.depends_on : x \in service_owner(as, app.namespace, s)
    BY <2>3
  <2> QED
    BY <2>2, <2>4
<1> QED
  BY <1>2, <1>3, <1>4, FS_Subset DEF FiniteMap

\* In a valid stack whatever an app depends on has an owner, which is another
\* app, and which the map makes it wait for.
LEMMA OwnerIsWaitedFor ==
  ASSUME NEW as, IsSequence(as), validate(as),
         NEW app \in Range(as), NEW s \in app.depends_on
  PROVE  \E p \in Range(as) : /\ Publishes(p, app.namespace, s)
                              /\ key(p) \in DepsMap(as)[key(app)]
<1> DEFINE k == key(app)
           owner == service_owner(as, app.namespace, s)
<1>1. PICK i \in DOMAIN as : app = as[i]
  BY DEF Range
<1>2. \E j \in DOMAIN as : Publishes(as[j], app.namespace, s)
  BY <1>1 DEF validate, DepsResolve
<1>3. PICK j \in DOMAIN as : Publishes(as[j], app.namespace, s) /\ owner = {key(as[j])}
  BY <1>2, OwnerPublishes
<1>4. as[j] # app
  BY <1>1, <1>3 DEF validate, AppValid, Publishes
<1>5. key(as[j]) # k
  BY <1>1, <1>4 DEF validate, UniqueKeys
<1>6. key(as[j]) \in owner \ {k}
  BY <1>3, <1>5
<1>7. k \in KeysOf(as) /\ app \in {a \in Range(as) : key(a) = k}
  BY DEF KeysOf
<1>8. DepsMap(as)[k] =
        UNION {UNION {service_owner(as, a.namespace, z) \ {k} : z \in a.depends_on} :
                 a \in {a \in Range(as) : key(a) = k}}
  BY <1>7 DEF DepsMap, KeysOf
<1>9. key(as[j]) \in DepsMap(as)[k]
  <2> DEFINE of(a) == UNION {service_owner(as, a.namespace, z) \ {k} : z \in a.depends_on}
  <2>1. key(as[j]) \in of(app)
    BY <1>6
  <2> HIDE DEF k, of
  <2>2. of(app) \subseteq UNION {of(a) : a \in {a \in Range(as) : key(a) = k}}
    BY <1>7
  <2>3. DepsMap(as)[k] = UNION {of(a) : a \in {a \in Range(as) : key(a) = k}}
    BY <1>8 DEF of
  <2> QED
    BY <2>1, <2>2, <2>3
<1> QED
  BY <1>3, <1>9 DEF Range, k


\* A command that has passed the checks sorts, and applies, the apps that passed.
Checked ==
  stage \in {"sort", "resort", "order", "apply", "done", "failed"} =>
    validate(apps) /\ deps = DepsMap(apps)

\* What is applied is a prefix of the order, and nothing before there is one.
Prefix ==
  /\ applied \in Seq(Nodes)
  /\ Len(applied) <= Len(order)
  /\ \A i \in 1..Len(applied) : applied[i] = order[i]
  /\ stage \notin {"apply", "done", "failed"} => applied = <<>>

StackInv == IsSequence(apps) /\ SortInv /\ Checked /\ Prefix

\* InvInit, of the sort that a step of the stack begins.
LEMMA BegunNext == Begins' => SortInv'
BY InvInit, PTL

\* The empty sequence is a prefix of any order.
LEMMA NothingApplied ==
  ASSUME NEW ns, NEW o \in Seq(ns)
  PROVE  /\ <<>> \in Seq(ns) /\ Len(<<>>) = 0 /\ 0 <= Len(o)
         /\ \A i \in 1..Len(<<>>) : <<>>[i] = o[i]
OBVIOUS

\* The command starts with the invariant.
LEMMA StackInit ==
  ASSUME Init PROVE StackInv
<1>1. manifest \in Manifests /\ IsSequence(manifest.apps)
  BY StackAssumption DEF Init, IsSequence
<1>2. IsSequence(apps)
  BY <1>1, NamespacesKeepSequence DEF Init, apply_namespace
<1>3. SortInv
  <2>1. FiniteMap(<<>>)
    BY FS_EmptySet DEF FiniteMap
  <2>2. Begins
    BY <2>1 DEF Init, Begins, Begun
  <2> QED
    BY <2>2, InvInit
<1>4. Checked
  BY DEF Init, Checked
<1>5. Prefix
  <2>1. applied = <<>> /\ order \in Seq(Nodes)
    BY <1>3 DEF Init, SortInv, SortTyped
  <2> QED
    BY <2>1, NothingApplied DEF Prefix
<1> QED
  BY <1>2, <1>3, <1>4, <1>5 DEF StackInv

\* A sort that begins is of the apps as they are, when nothing is applied yet.
LEMMA StackBegins ==
  ASSUME StackInv, NEW next, BeginSort(next), next \in {"sort", "resort", "order"},
         validate(apps), stage \notin {"apply", "done", "failed"}
  PROVE  StackInv'
<1>1. /\ IsSequence(apps) /\ apps' = apps /\ applied' = applied /\ stage' = next
      /\ deps' = DepsMap(apps)
  BY DEF StackInv, BeginSort, Begun
<1>2. FiniteMap(deps')
  BY <1>1, DepsMapFinite
<1>3. SortInv'
  <2>1. Begins'
    BY <1>1, <1>2 DEF Begins, Begun, BeginSort
  <2> QED
    BY <2>1, BegunNext
<1>4. Checked'
  BY <1>1 DEF Checked
<1>5. Prefix'
  <2>1. applied' = <<>>
    BY <1>1 DEF StackInv, Prefix
  <2>2. order' \in Seq(Nodes')
    BY <1>3 DEF SortInv, SortTyped
  <2> QED
    BY <2>1, <2>2, NothingApplied DEF Prefix
<1> QED
  BY <1>1, <1>3, <1>4, <1>5 DEF StackInv

\* A step that leaves the sort alone leaves its invariant alone.
LEMMA SortKept ==
  ASSUME SortInv, UNCHANGED sortVars
  PROVE  SortInv' /\ UNCHANGED <<deps, order, Nodes>>
<1>1. UNCHANGED <<deps, order, Nodes>>
  BY DEF sortVars, Nodes
<1> QED
  BY <1>1, InvSort

\* Every step of the command keeps it.
LEMMA StackNext ==
  ASSUME StackInv, [Next]_vars
  PROVE  StackInv'
<1>0. IsSequence(apps) /\ SortInv /\ Checked /\ Prefix
  BY DEF StackInv
<1>1. ASSUME UNCHANGED <<apps, applied, sortVars>>,
             \/ stage' \in {"rejected"} /\ stage \notin {"apply", "done", "failed"}
             \/ stage = "order" /\ stage' = "apply"
             \/ stage = "apply" /\ stage' \in {"failed", "done"}
             \/ stage' = stage
      PROVE  StackInv'
  <2>1. SortInv' /\ UNCHANGED <<deps, order, Nodes>>
    BY <1>0, <1>1, SortKept
  <2>2. Checked'
    BY <1>0, <1>1, <2>1 DEF Checked
  <2>3. Prefix'
    BY <1>0, <1>1, <2>1 DEF Prefix
  <2> QED
    BY <1>0, <1>1, <2>1, <2>2, <2>3 DEF StackInv
<1>2. CASE Validate
  <2>1. CASE validate(apps)
    BY <1>2, <2>1, StackBegins DEF Validate
  <2>2. CASE ~validate(apps)
    BY <1>1, <1>2, <2>2 DEF Validate, Reject
  <2> QED
    BY <2>1, <2>2
<1>3. CASE Sort
  <2>1. SortInv' /\ deps' = deps
    BY <1>0, <1>3, InvSort DEF Sort, SortNext, Emit
  <2>2. UNCHANGED <<apps, stage, applied>> /\ stage \in {"sort", "resort", "order"}
    BY <1>3 DEF Sort, stackVars, Sorting
  <2>3. Checked'
    BY <1>0, <2>1, <2>2 DEF Checked
  <2>4. Prefix'
    <3>1. applied' = <<>>
      BY <1>0, <2>2 DEF Prefix
    <3>2. order' \in Seq(Nodes')
      BY <2>1 DEF SortInv, SortTyped
    <3> QED
      BY <3>1, <3>2, NothingApplied DEF Prefix
  <2> QED
    BY <1>0, <2>1, <2>2, <2>3, <2>4 DEF StackInv
<1>4. CASE CycleFound
  BY <1>1, <1>4 DEF CycleFound, Sorting, Reject
<1>5. CASE ShiftNamespace
  <2>1. /\ apps' = shift(apps, cli) /\ stage = "sort" /\ stage' = "revalidate"
        /\ applied' = applied /\ UNCHANGED sortVars
    BY <1>5 DEF ShiftNamespace
  <2>2. IsSequence(apps')
    BY <1>0, <2>1, NamespacesKeepSequence
  <2>3. SortInv' /\ UNCHANGED <<deps, order, Nodes>>
    BY <1>0, <2>1, SortKept
  <2>4. Checked'
    BY <2>1 DEF Checked
  <2>5. Prefix'
    BY <1>0, <2>1, <2>3 DEF Prefix
  <2> QED
    BY <2>2, <2>3, <2>4, <2>5 DEF StackInv
<1>6. CASE ComputeOrder
  <2>1. validate(apps)
    BY <1>0, <1>6 DEF ComputeOrder, Checked
  <2> QED
    BY <1>6, <2>1, StackBegins DEF ComputeOrder
<1>7. CASE StartApplying
  BY <1>1, <1>7 DEF StartApplying
<1>8. CASE ApplyNext
  <2>1. /\ stage = "apply" /\ Len(applied) < Len(order)
        /\ applied' = Append(applied, order[Len(applied) + 1])
        /\ UNCHANGED <<apps, stage, sortVars>>
    BY <1>8 DEF ApplyNext
  <2>2. SortInv' /\ UNCHANGED <<deps, order, Nodes>>
    BY <1>0, <2>1, SortKept
  <2>3. Checked'
    BY <1>0, <2>1, <2>2 DEF Checked
  <2>4. order \in Seq(Nodes) /\ applied \in Seq(Nodes)
    BY <1>0 DEF SortInv, SortTyped, Prefix
  <2>5. /\ applied' \in Seq(Nodes) /\ Len(applied') = Len(applied) + 1
        /\ Len(applied') <= Len(order)
        /\ \A i \in 1..Len(applied) : applied'[i] = applied[i]
        /\ applied'[Len(applied) + 1] = order[Len(applied) + 1]
    <3>1. Len(applied) + 1 \in 1..Len(order) /\ Len(applied) \in Nat
      BY <2>1, <2>4
    <3> QED
      BY <2>1, <2>4, <3>1
  <2>6. \A i \in 1..Len(applied') : applied'[i] = order[i]
    <3>1. \A i \in 1..Len(applied) : applied'[i] = order[i]
      BY <1>0, <2>5 DEF Prefix
    <3>2. Len(applied) \in Nat
      BY <2>4
    <3> QED
      BY <2>5, <3>1, <3>2
  <2>7. Prefix'
    BY <2>1, <2>2, <2>5, <2>6 DEF Prefix
  <2> QED
    BY <1>0, <2>1, <2>2, <2>3, <2>7 DEF StackInv
<1>9. CASE Abort
  BY <1>1, <1>9 DEF Abort
<1>10. CASE Finish
  BY <1>1, <1>10 DEF Finish
<1>11. CASE UNCHANGED vars
  BY <1>1, <1>11 DEF vars, stackVars
<1> QED
  BY <1>2, <1>3, <1>4, <1>5, <1>6, <1>7, <1>8, <1>9, <1>10, <1>11 DEF Next

\* "so producers come up before consumers" (apply_order): for every manifest.
THEOREM ConsumersTheorem == Spec => []ConsumersLast
<1>1. StackInv => ConsumersLast
  <2> SUFFICES ASSUME StackInv, NEW i \in 1..Len(applied),
                      NEW app \in Apps, key(app) = applied[i], NEW s \in app.depends_on
               PROVE  \E j \in 1..(i - 1) : \E p \in Apps :
                        key(p) = applied[j] /\ Publishes(p, app.namespace, s)
    BY DEF ConsumersLast
  <2>1. /\ IsSequence(apps) /\ SortInv /\ Checked /\ Prefix
    BY DEF StackInv
  <2>2. applied \in Seq(Nodes) /\ order \in Seq(Nodes) /\ Len(applied) <= Len(order)
    BY <2>1 DEF Prefix, SortInv, SortTyped
  <2>3. i \in 1..Len(order) /\ order[i] = key(app)
    BY <2>1, <2>2 DEF Prefix
  <2>4. applied # <<>>
    BY <2>2
  <2>5. validate(apps) /\ deps = DepsMap(apps)
    BY <2>1, <2>4 DEF Prefix, Checked
  <2>6. PICK p \in Apps : /\ Publishes(p, app.namespace, s)
                          /\ key(p) \in DepsMap(apps)[key(app)]
    BY <2>1, <2>5, OwnerIsWaitedFor DEF Apps
  <2>7. key(app) \in DOMAIN deps
    BY <2>1, <2>5, DepsMapFinite DEF KeysOf, Apps
  <2>8. key(p) \in DepsOf(order[i])
    BY <2>3, <2>5, <2>6, <2>7 DEF DepsOf, DepsIn
  <2>9. PICK j \in 1..(i - 1) : order[j] = key(p)
    BY <2>1, <2>3, <2>8 DEF SortInv, ProducersFirst
  <2>10. j \in 1..Len(applied)
    BY <2>2, <2>9
  <2>11. applied[j] = key(p)
    BY <2>1, <2>9, <2>10 DEF Prefix
  <2> QED
    BY <2>6, <2>9, <2>11
<1> QED
  BY StackInit, StackNext, <1>1, PTL DEF Spec


----------------------------------------------------------------------------
(* Deployments that depend on each other in a circle (Gates) *)

Phases == {"none", "Pending", "Running", "Failed"}

GatesTyped ==
  /\ replica \in [App -> Phases] /\ seen \in [App -> Phases]
  /\ record \subseteq App
  /\ readiness \in [App -> UNION {[D -> {"Absent", "Healthy"}] : D \in SUBSET App}]

\* Nobody in W has a replica or a record, no tick that has begun has seen the one or
\* found the other.
Down(W) ==
  \A a \in W :
    /\ replica[a] = "none" /\ seen[a] = "none" /\ a \notin record
    /\ \A b \in App : a \in DOMAIN readiness[b] => readiness[b][a] = "Absent"

CirclesDown == \A W \in SUBSET App : G!Circular(W) => Down(W)

\* The gate of a deployment is closed once all is learned: one of those it depends
\* on is down (Gate::evaluate).
LEMMA GateIsClosed ==
  ASSUME GatesTyped, NEW W \in SUBSET App, G!Circular(W), Down(W),
         NEW a \in W, DOMAIN readiness[a] = depends_on[a]
  PROVE  ~G!is_ready(a)
<1>1. PICK s \in depends_on[a] \cap W : TRUE
  BY DEF G!Circular
<1>2. readiness[a][s] = "Absent"
  BY <1>1 DEF Down
<1>3. ~G!met(a, s)
  BY <1>2 DEF G!met
<1> QED
  BY <1>1, <1>3 DEF G!is_ready, G!unmet

\* A lookup adds one answer to those of a tick.
LEMMA LookupLearns ==
  ASSUME GatesTyped, NEW a \in App, NEW s \in App, G!Lookup(a, s)
  PROVE  /\ readiness' \in [App -> UNION {[D -> {"Absent", "Healthy"}] : D \in SUBSET App}]
         /\ \A b, t \in App :
              t \in DOMAIN readiness'[b] =>
                \/ t \in DOMAIN readiness[b] /\ readiness'[b][t] = readiness[b][t]
                \/ t = s /\ readiness'[b][t] \in {G!service_ready(s), "Absent"}
<1> DEFINE learned == UNION {[D -> {"Absent", "Healthy"}] : D \in SUBSET App}
           now(o) == [t \in DOMAIN readiness[a] \cup {s} |->
                        IF t = s THEN o ELSE readiness[a][t]]
<1>1. PICK o \in {G!service_ready(s), "Absent"} :
        readiness' = [readiness EXCEPT ![a] = now(o)]
  BY DEF G!Lookup
<1>2. PICK D \in SUBSET App : readiness[a] \in [D -> {"Absent", "Healthy"}]
  BY DEF GatesTyped
<1>3. o \in {"Absent", "Healthy"}
  BY <1>1 DEF G!service_ready
<1>4. now(o) \in [D \cup {s} -> {"Absent", "Healthy"}]
  BY <1>2, <1>3
<1>5. D \cup {s} \in SUBSET App
  BY <1>2
<1>6. now(o) \in learned
  BY <1>4, <1>5
<1>7. readiness \in [App -> learned]
  BY DEF GatesTyped
<1>8. readiness' \in [App -> learned]
  BY <1>1, <1>6, <1>7
<1>9. ASSUME NEW b \in App, NEW t \in App, t \in DOMAIN readiness'[b]
      PROVE  \/ t \in DOMAIN readiness[b] /\ readiness'[b][t] = readiness[b][t]
             \/ t = s /\ readiness'[b][t] \in {G!service_ready(s), "Absent"}
  <2>1. CASE b = a
    <3>1. readiness'[b] = now(o)
      BY <1>1, <1>7, <2>1
    <3>2. CASE t = s
      BY <1>1, <3>1, <3>2
    <3>3. CASE t # s
      BY <1>9, <2>1, <3>1, <3>3
    <3> QED
      BY <3>2, <3>3
  <2>2. CASE b # a
    <3>1. readiness'[b] = readiness[b]
      BY <1>1, <1>7, <2>2
    <3> QED
      BY <1>9, <3>1
  <2> QED
    BY <2>1, <2>2
<1> QED
  BY <1>8, <1>9

LEMMA CircleStep ==
  ASSUME GatesTyped, CirclesDown, [G!Next]_(G!vars)
  PROVE  GatesTyped' /\ CirclesDown'
<1> DEFINE learned == UNION {[D -> {"Absent", "Healthy"}] : D \in SUBSET App}
<1>1. ASSUME NEW a \in App, G!Refresh(a)
      PROVE  GatesTyped' /\ CirclesDown'
  <2>1. readiness' = [readiness EXCEPT ![a] = G!NoReadiness] /\ seen' = [seen EXCEPT ![a] = replica[a]]
          /\ replica' = replica /\ record' = record
    BY <1>1 DEF G!Refresh, G!world
  <2>2. G!NoReadiness \in learned
    <3>1. G!NoReadiness \in [{} -> {"Absent", "Healthy"}] /\ {} \in SUBSET App
      BY DEF G!NoReadiness
    <3> QED
      BY <3>1
  <2>3. readiness \in [App -> learned]
    BY DEF GatesTyped
  <2>4. GatesTyped'
    <3>1. readiness' \in [App -> learned]
      BY <2>1, <2>2, <2>3
    <3>2. replica' \in [App -> Phases] /\ seen' \in [App -> Phases] /\ record' \subseteq App
      BY <2>1 DEF GatesTyped
    <3> QED
      BY <3>1, <3>2 DEF GatesTyped
  <2>5. ASSUME NEW W \in SUBSET App, G!Circular(W)
        PROVE  Down(W)'
    <3>1. Down(W)
      BY <2>5 DEF CirclesDown
    <3>2. ASSUME NEW b \in App
          PROVE  readiness'[b] = readiness[b] \/ DOMAIN readiness'[b] = {}
      BY <2>1, <2>3 DEF G!NoReadiness
    <3>3. ASSUME NEW b \in App
          PROVE  seen'[b] \in {seen[b], replica[b]}
      BY <2>1 DEF GatesTyped
    <3> QED
      BY <2>1, <3>1, <3>2, <3>3 DEF Down
  <2> QED
    BY <2>4, <2>5 DEF CirclesDown, G!Circular
<1>2. ASSUME NEW a \in App, NEW s \in App, G!Lookup(a, s)
      PROVE  GatesTyped' /\ CirclesDown'
  <2>1. replica' = replica /\ seen' = seen /\ record' = record
    BY <1>2 DEF G!Lookup
  <2>2. GatesTyped'
    BY <1>2, <2>1, LookupLearns DEF GatesTyped
  <2>3. ASSUME NEW W \in SUBSET App, G!Circular(W)
        PROVE  Down(W)'
    <3>1. Down(W)
      BY <2>3 DEF CirclesDown
    <3>2. ASSUME NEW t \in W, NEW b \in App, t \in DOMAIN readiness'[b]
          PROVE  readiness'[b][t] = "Absent"
      <4>1. t \in App /\ t \notin record
        BY <3>1 DEF Down
      <4>2. G!service_ready(t) = "Absent"
        BY <4>1 DEF G!service_ready
      <4>3. CASE t \in DOMAIN readiness[b] /\ readiness'[b][t] = readiness[b][t]
        BY <3>1, <4>3 DEF Down
      <4>4. CASE t = s /\ readiness'[b][t] \in {G!service_ready(s), "Absent"}
        BY <4>2, <4>4
      <4> QED
        BY <1>2, <3>2, <4>1, <4>3, <4>4, LookupLearns
    <3> QED
      BY <2>1, <3>1, <3>2 DEF Down
  <2> QED
    BY <2>2, <2>3 DEF CirclesDown, G!Circular
<1>3. ASSUME NEW a \in App, G!Act(a)
      PROVE  GatesTyped' /\ CirclesDown'
  <2>1. seen' = seen /\ readiness' = readiness
    BY <1>3 DEF G!Act
  <2>2. replica' = [replica EXCEPT ![a] =
          IF ~G!MustPlace(a) THEN @
          ELSE IF G!is_ready(a) /\ a \notin gone THEN "Pending" ELSE "none"]
    BY <1>3 DEF G!Act
  <2>3. record' = IF G!MayAdvertise(a) THEN record \cup {a} ELSE record
    BY <1>3 DEF G!Act
  <2>4. GatesTyped'
    <3>1. replica' \in [App -> Phases]
      BY <2>2 DEF GatesTyped, Phases
    <3>2. record' \subseteq App
      BY <2>3 DEF GatesTyped
    <3> QED
      BY <2>1, <3>1, <3>2 DEF GatesTyped
  <2>5. ASSUME NEW W \in SUBSET App, G!Circular(W)
        PROVE  Down(W)'
    <3>1. Down(W)
      BY <2>5 DEF CirclesDown
    <3>2. a \in W => ~G!is_ready(a)
      BY <1>3, <2>5, <3>1, GateIsClosed DEF G!Act
    <3>3. ASSUME NEW b \in W
          PROVE  replica'[b] = "none" /\ b \notin record'
      <4>1. replica[b] = "none" /\ b \notin record /\ seen[b] = "none" /\ b \in App
        BY <3>1 DEF Down
      <4>2. b = a => ~G!MayAdvertise(a)
        BY <4>1 DEF G!MayAdvertise
      <4>3. b \notin record'
        BY <2>3, <4>1, <4>2
      <4>4. CASE b = a
        BY <2>2, <3>2, <3>3, <4>1, <4>3, <4>4 DEF GatesTyped
      <4>5. CASE b # a
        BY <2>2, <4>1, <4>3, <4>5 DEF GatesTyped
      <4> QED
        BY <4>3, <4>4, <4>5
    <3> QED
      BY <2>1, <3>1, <3>3 DEF Down
  <2> QED
    BY <2>4, <2>5 DEF CirclesDown, G!Circular
<1>4. ASSUME seen' = seen, readiness' = readiness, record' \subseteq record,
             replica' \in [App -> Phases],
             \A b \in App : replica[b] = "none" => replica'[b] = "none"
      PROVE  GatesTyped' /\ CirclesDown'
  <2>1. GatesTyped'
    BY <1>4 DEF GatesTyped
  <2>2. ASSUME NEW W \in SUBSET App, G!Circular(W)
        PROVE  Down(W)'
    <3>1. Down(W)
      BY <2>2 DEF CirclesDown
    <3> QED
      BY <1>4, <3>1 DEF Down
  <2> QED
    BY <2>1, <2>2 DEF CirclesDown, G!Circular
<1>5. ASSUME NEW a \in App,
             G!Starts(a) \/ G!Ends(a) \/ G!Goes(a) \/ G!ExpiresInTime(a) \/ G!ExpiresEarly(a)
      PROVE  GatesTyped' /\ CirclesDown'
  <2>1. seen' = seen /\ readiness' = readiness /\ record' \subseteq record
    BY <1>5 DEF G!Starts, G!Ends, G!Goes, G!ExpiresInTime, G!ExpiresEarly, G!Expires
  <2>2. \/ replica' = replica
        \/ replica[a] # "none" /\ \E p \in Phases : replica' = [replica EXCEPT ![a] = p]
        \/ replica' = [replica EXCEPT ![a] = IF @ = "none" THEN @ ELSE "Failed"]
    BY <1>5 DEF G!Starts, G!Ends, G!Goes, G!ExpiresInTime, G!ExpiresEarly, G!Expires, Phases
  <2>3. replica' \in [App -> Phases]
    BY <2>2 DEF GatesTyped, Phases
  <2>4. \A b \in App : replica[b] = "none" => replica'[b] = "none"
    BY <2>2 DEF GatesTyped
  <2> QED
    BY <1>4, <2>1, <2>3, <2>4
<1>6. ASSUME UNCHANGED G!vars
      PROVE  GatesTyped' /\ CirclesDown'
  BY <1>4, <1>6 DEF G!vars, G!world, GatesTyped
<1> QED
  BY <1>1, <1>2, <1>3, <1>5, <1>6 DEF G!Next, G!Tick

\* Deployments that depend on each other in a circle, each accepted by itself (apply
\* in main.rs), never come up, for any number of deployments, dependencies and
\* failures, and whatever the deployments outside the circle do.
THEOREM CircleTheorem == G!Spec => []G!CircleStaysDown
<1>1. G!Init => GatesTyped /\ CirclesDown
  <2> SUFFICES ASSUME G!Init PROVE GatesTyped /\ CirclesDown
    OBVIOUS
  <2>1. replica \in [App -> Phases] /\ seen \in [App -> Phases] /\ record = {}
    BY DEF G!Init, Phases
  <2>2. readiness = [a \in App |-> G!NoReadiness]
    BY DEF G!Init
  <2>3. G!NoReadiness \in [{} -> {"Absent", "Healthy"}] /\ {} \in SUBSET App
    BY DEF G!NoReadiness
  <2>4. G!NoReadiness \in UNION {[D -> {"Absent", "Healthy"}] : D \in SUBSET App}
    BY <2>3
  <2>5. readiness \in [App -> UNION {[D -> {"Absent", "Healthy"}] : D \in SUBSET App}]
    BY <2>2, <2>4
  <2>6. \A b \in App : DOMAIN readiness[b] = {} /\ replica[b] = "none" /\ seen[b] = "none"
    BY <2>2, <2>3 DEF G!Init
  <2> QED
    BY <2>1, <2>5, <2>6 DEF GatesTyped, CirclesDown, Down
<1>2. GatesTyped /\ CirclesDown /\ [G!Next]_(G!vars) => (GatesTyped /\ CirclesDown)'
  BY CircleStep
<1>3. CirclesDown => G!CircleStaysDown
  BY DEF CirclesDown, Down, G!CircleStaysDown
<1> QED
  BY <1>1, <1>2, <1>3, PTL DEF G!Spec

=============================================================================
