------------------------------ MODULE Snowball ------------------------------
(***************************************************************************)
(* datasets.sample.snowball: grow a set of nodes breadth first until the   *)
(* subgraph it induces has enough edges, hopping to another component when *)
(* one is exhausted.  The edges are counted as nodes are admitted, never   *)
(* afterwards.  One step is one turn of the loop.                          *)
(***************************************************************************)
EXTENDS Integers, Sequences, FiniteSets

CONSTANTS Nodes,   \* the node ids
          Targets  \* the values of target_edges

ASSUME SnowballAssumption ==
  /\ Nodes \subseteq Nat
  /\ IsFiniteSet(Nodes)
  /\ Targets \subseteq Nat

VARIABLES
  adj,       \* build_adjacency: the neighbours of each node
  target,    \* target_edges
  selected,  \* the nodes admitted so far
  edges_in,  \* the count of induced edges
  queue,     \* the nodes to visit, in order, from position qi on
  qi,
  pc

vars == <<adj, target, selected, edges_in, queue, qi, pc>>

\* Definitions whose name begins with Slip are the next definition with a mistake in
\* it, as in ReadWorkload.

\* build_adjacency: undirected, so the direction an edge was read in does not matter;
\* read_edges has dropped the self loops.  A node without an edge is not in it.
Pairs == {e \in Nodes \X Nodes : e[1] < e[2]}

BuildAdjacency(edges) ==
  [u \in {n \in Nodes : \E e \in edges : n \in {e[1], e[2]}} |->
     {v \in Nodes : <<u, v>> \in edges \/ <<v, u>> \in edges}]

\* The subgraph spanned by a set of nodes, one edge per pair.
InducedEdges(nodes) == {e \in nodes \X nodes : e[2] \in adj[e[1]] /\ e[1] < e[2]}

\* sorted(...) of a set of node ids: the i-th has i - 1 below it.
Ascending(s) ==
  [i \in 1 .. Cardinality(s) |-> CHOOSE n \in s : Cardinality({m \in s : m < n}) = i - 1]

Init ==
  /\ \E edges \in SUBSET Pairs : adj = BuildAdjacency(edges)
  /\ target \in Targets
  /\ selected = {}
  /\ edges_in = 0
  /\ qi = 1
  /\ IF target = 0 \/ DOMAIN adj = {}
     THEN queue = <<>> /\ pc = "returned"
     ELSE queue \in {<<n>> : n \in DOMAIN adj} /\ pc = "loop"

SlipRemaining == Nodes \ selected  \* a node all of whose edges were dropped

Remaining == DOMAIN adj \ selected

SlipHop ==  \* hopping as soon as the last node of the queue has been taken out
  /\ pc = "loop" /\ edges_in < target
  /\ qi >= Len(queue)
  /\ \E n \in Remaining : queue' = Append(queue, n)
  /\ UNCHANGED <<adj, target, selected, edges_in, qi, pc>>

\* The component is exhausted and rng.choice picks a node of another.
Hop ==
  /\ pc = "loop" /\ edges_in < target
  /\ qi > Len(queue)
  /\ \E n \in Remaining : queue' = Append(queue, n)
  /\ UNCHANGED <<adj, target, selected, edges_in, qi, pc>>

SlipNeighbours(node) ==  \* each edge is followed one way only
  Ascending({n \in adj[node] \ selected : node < n})

Neighbours(node) == Ascending(adj[node] \ selected)

SlipAdmit(node) ==  \* all the edges of the node are counted
  /\ edges_in' = edges_in + Cardinality(adj[node])
  /\ selected' = selected \cup {node}
  /\ queue' = queue \o Neighbours(node)

\* The edges gained by admitting a node are those back into the selected set.
Admit(node) ==
  /\ edges_in' = edges_in + Cardinality(adj[node] \cap selected)
  /\ selected' = selected \cup {node}
  /\ queue' = queue \o Neighbours(node)

SlipVisit ==  \* a node queued twice is admitted twice
  /\ pc = "loop" /\ edges_in < target
  /\ qi <= Len(queue)
  /\ qi' = qi + 1
  /\ Admit(queue[qi])
  /\ UNCHANGED <<adj, target, pc>>

Visit ==
  /\ pc = "loop" /\ edges_in < target
  /\ qi <= Len(queue)
  /\ qi' = qi + 1
  /\ IF queue[qi] \in selected THEN UNCHANGED <<selected, edges_in, queue>>
     ELSE Admit(queue[qi])
  /\ UNCHANGED <<adj, target, pc>>

SlipReturn ==  \* a graph with too few edges is not thought of
  /\ pc = "loop"
  /\ edges_in >= target
  /\ pc' = "returned"
  /\ UNCHANGED <<adj, target, selected, edges_in, queue, qi>>

\* The target is met, or there is no component left.
Return ==
  /\ pc = "loop"
  /\ edges_in >= target \/ (qi > Len(queue) /\ Remaining = {})
  /\ pc' = "returned"
  /\ UNCHANGED <<adj, target, selected, edges_in, queue, qi>>

Returned == pc = "returned" /\ UNCHANGED vars

Next == Hop \/ Visit \/ Return \/ Returned

\* snowball is a plain loop: nothing keeps it from its next turn.
Spec == Init /\ [][Next]_vars /\ WF_vars(Hop \/ Visit \/ Return)

---------------------------------------------------------------------------
(* Properties.                                                             *)

TypeOK ==
  /\ DOMAIN adj \subseteq Nodes
  /\ \A u \in DOMAIN adj : adj[u] \subseteq {v \in DOMAIN adj \ {u} : u \in adj[v]}
  /\ target \in Targets
  /\ selected \subseteq DOMAIN adj
  /\ edges_in \in Nat
  /\ queue \in Seq(DOMAIN adj)
  /\ qi \in 1 .. Len(queue) + 1
  /\ pc \in {"loop", "returned"}

\* The running count is the number of edges of the induced subgraph, the one prepare
\* writes and puts in the manifest.
EdgesCounted == edges_in = Cardinality(InducedEdges(selected))

\* What the caller gets: a subgraph with enough edges, or the whole graph; and one
\* that would be too small without the last node admitted.
SampleIsTight ==
  /\ pc = "returned" =>
       Cardinality(InducedEdges(selected)) >= target \/ selected = DOMAIN adj
  /\ target > 0 /\ Cardinality(InducedEdges(selected)) >= target =>
       \E last \in selected : Cardinality(InducedEdges(selected \ {last})) < target

\* A component is finished before another is begun: whenever the queue has run out, no
\* edge leaves the sample, so the sample cuts through one component at most ("keeps
\* one dense connected region intact").
Closed == \A u \in selected : adj[u] \subseteq selected
WholeComponents == qi > Len(queue) => Closed

\* A node is admitted only next to the sample, or when no edge leaves it: the sample is
\* grown along edges, whatever the order of the queue.
GrowsAlongEdges ==
  [][\A n \in selected' \ selected : adj[n] \cap selected # {} \/ Closed]_vars

\* What makes these inductive: a neighbour of the sample is in it or waits in the queue,
\* and what waits there is in the sample, next to it, or the first of a new component.
Waiting == qi .. Len(queue)

Frontier ==
  /\ \A u \in selected : adj[u] \subseteq selected \cup {queue[j] : j \in Waiting}
  /\ \A j \in Waiting : \/ queue[j] \in selected
                        \/ adj[queue[j]] \cap selected # {}
                        \/ j = qi /\ j = Len(queue) /\ Closed

Tight == target > 0 /\ edges_in >= target =>
           \E last \in selected : Cardinality(InducedEdges(selected \ {last})) < target

Over == pc = "returned" => edges_in >= target \/ selected = DOMAIN adj

IInv == TypeOK /\ EdgesCounted /\ Frontier /\ Tight /\ Over

\* The sampler returns "rather than loop forever" (test_sample.py), whatever the graph.
SamplerReturns == <>(pc = "returned")
=============================================================================
