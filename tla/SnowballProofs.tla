--------------------------- MODULE SnowballProofs ---------------------------
(***************************************************************************)
(* Snowball for every finite set of nodes, every graph over them, every    *)
(* target and every random choice: its invariants, from the inductive      *)
(* IInv.                                                                   *)
(***************************************************************************)
EXTENDS Snowball, FiniteSetTheorems, TLAPS

\* Sorting a finite set lists its members and nothing else (sorted(...)).
LEMMA AscendingLists ==
  ASSUME NEW s \in SUBSET Nat, IsFiniteSet(s)
  PROVE  /\ Ascending(s) \in Seq(s)
         /\ \A n \in s : \E i \in 1 .. Len(Ascending(s)) : Ascending(s)[i] = n
<1> DEFINE Below(n) == {m \in s : m < n}
           c == Cardinality(s)
           rank == [n \in s |-> Cardinality(Below(n))]
<1>1. c \in Nat
  BY FS_CardinalityType
<1>2. ASSUME NEW n \in s
      PROVE  IsFiniteSet(Below(n)) /\ Cardinality(Below(n)) \in 0 .. c - 1
  <2>1. IsFiniteSet(Below(n)) /\ Cardinality(Below(n)) <= c /\ (c = Cardinality(Below(n)) => s = Below(n))
    BY FS_Subset
  <2>2. s # Below(n)
    <3>1. n \notin Below(n)
      BY n \in Nat
    <3> QED
      BY <3>1
  <2>3. Cardinality(Below(n)) \in Nat
    BY <2>1, FS_CardinalityType
  <2> HIDE DEF Below, c
  <2> QED
    BY <1>1, <2>1, <2>2, <2>3
<1>3. ASSUME NEW m \in s, NEW n \in s, m < n
      PROVE  Cardinality(Below(m)) < Cardinality(Below(n))
  <2>1. Below(m) \in SUBSET Below(n) /\ m \in Below(n) /\ m \notin Below(m)
    <3>1. m \in Nat /\ n \in Nat
      OBVIOUS
    <3>2. ASSUME NEW k \in Below(m)  PROVE  k \in Below(n)
      BY <1>3, <3>1, k \in Nat
    <3>3. m \in Below(n)
      BY <1>3
    <3>4. m \notin Below(m)
      BY <3>1
    <3> HIDE DEF Below
    <3> QED
      BY <3>2, <3>3, <3>4
  <2>2. Cardinality(Below(m)) <= Cardinality(Below(n))
        /\ (Cardinality(Below(n)) = Cardinality(Below(m)) => Below(n) = Below(m))
    BY <1>2, <2>1, FS_Subset
  <2>3. Cardinality(Below(m)) \in Nat /\ Cardinality(Below(n)) \in Nat
    BY <1>1, <1>2
  <2> HIDE DEF Below
  <2> QED
    BY <2>1, <2>2, <2>3
<1>4. rank \in Injection(s, 0 .. c - 1)
  <2>1. rank \in [s -> 0 .. c - 1]
    BY <1>2
  <2>2. ASSUME NEW m \in s, NEW n \in s, m # n
        PROVE  rank[m] # rank[n]
    <3>1. m < n \/ n < m
      BY <2>2, m \in Nat, n \in Nat
    <3>2. Cardinality(Below(m)) \in Nat /\ Cardinality(Below(n)) \in Nat
      BY <1>1, <1>2
    <3> HIDE DEF Below
    <3> QED
      BY <1>3, <2>2, <3>1, <3>2
  <2> HIDE DEF rank
  <2> QED
    BY <2>1, <2>2 DEF Injection, IsInjective
<1>5. IsFiniteSet(0 .. c - 1) /\ Cardinality(0 .. c - 1) = c
  <2>1. c - 1 \in Int
    BY <1>1
  <2> QED
    BY <1>1, <2>1, FS_Interval
<1>6. rank \in Surjection(s, 0 .. c - 1)
  <2> HIDE DEF rank
  <2> QED
    BY <1>4, <1>5, FS_Injection
<1>7. ASSUME NEW i \in 1 .. c
      PROVE  \E n \in s : Cardinality(Below(n)) = i - 1
  <2>1. i - 1 \in 0 .. c - 1
    BY <1>1
  <2>2. \E n \in s : rank[n] = i - 1
    <3> HIDE DEF rank
    <3> QED
      BY <1>6, <2>1 DEF Surjection
  <2> QED
    BY <2>2
<1>8. ASSUME NEW i \in 1 .. c
      PROVE  Ascending(s)[i] \in s /\ Cardinality(Below(Ascending(s)[i])) = i - 1
  BY <1>7 DEF Ascending
<1>9. DOMAIN Ascending(s) = 1 .. c
  BY DEF Ascending
<1>10. Ascending(s) \in [1 .. c -> s]
  BY <1>8 DEF Ascending
<1>11. Ascending(s) \in Seq(s) /\ Len(Ascending(s)) = c
  <2> HIDE DEF c
  <2> QED
    BY <1>1, <1>9, <1>10
<1>12. ASSUME NEW n \in s
       PROVE  \E i \in 1 .. Len(Ascending(s)) : Ascending(s)[i] = n
  <2> DEFINE i == Cardinality(Below(n)) + 1
  <2>1. i \in 1 .. c /\ i - 1 = Cardinality(Below(n)) /\ Cardinality(Below(n)) \in Nat
    <3> HIDE DEF c, Below
    <3> QED
      BY <1>1, <1>2
  <2>2. Ascending(s)[i] \in s /\ Cardinality(Below(Ascending(s)[i])) = Cardinality(Below(n))
    <3> HIDE DEF i, Below, c
    <3> QED
      BY <1>8, <2>1
  <2>3. Ascending(s)[i] = n
    <3> DEFINE m == Ascending(s)[i]
    <3>1. m \in s /\ m \in Nat /\ n \in Nat /\ Cardinality(Below(m)) = Cardinality(Below(n))
      <4> HIDE DEF i, Below
      <4> QED
        BY <2>2
    <3>2. ~ (m < n) /\ ~ (n < m)
      <4>1. (m < n => Cardinality(Below(m)) < Cardinality(Below(n)))
            /\ (n < m => Cardinality(Below(n)) < Cardinality(Below(m)))
        <5> HIDE DEF m, Below
        <5> QED
          BY <1>3, <3>1
      <4>2. Cardinality(Below(n)) \in Nat
        BY <2>1
      <4> HIDE DEF m, Below
      <4> QED
        BY <3>1, <4>1, <4>2
    <3> HIDE DEF m
    <3>3. m = n
      BY <3>1, <3>2
    <3> QED
      BY <3>3 DEF m
  <2> HIDE DEF i
  <2> QED
    BY <1>11, <2>1, <2>3
<1> QED
  BY <1>11, <1>12

\* A graph has finitely many nodes, each known by its number.
LEMMA GraphIsFinite ==
  ASSUME DOMAIN adj \subseteq Nodes, NEW S \in SUBSET DOMAIN adj
  PROVE  /\ IsFiniteSet(S) /\ S \in SUBSET Nat
         /\ IsFiniteSet(InducedEdges(S)) /\ Cardinality(InducedEdges(S)) \in Nat
<1>1. S \in SUBSET Nodes /\ IsFiniteSet(Nodes) /\ Nodes \in SUBSET Nat
  BY SnowballAssumption
<1>2. IsFiniteSet(S)
  BY <1>1, FS_Subset
<1>3. IsFiniteSet(S \X S)
  BY <1>2, FS_Product
<1>4. InducedEdges(S) \in SUBSET (S \X S)
  BY DEF InducedEdges
<1>5. IsFiniteSet(InducedEdges(S))
  BY <1>3, <1>4, FS_Subset
<1> QED
  BY <1>1, <1>2, <1>5, FS_CardinalityType

\* Admitting a node gains as many edges as it has neighbours in the set already: what
\* lets the loop count edges as it goes (edges_in += sum(1 for n in adj[node] if n in selected)).
LEMMA InducedGrows ==
  ASSUME TypeOK, NEW S \in SUBSET DOMAIN adj, NEW node \in DOMAIN adj \ S
  PROVE  /\ Cardinality(adj[node] \cap S) \in Nat
         /\ Cardinality(InducedEdges(S \cup {node}))
              = Cardinality(InducedEdges(S)) + Cardinality(adj[node] \cap S)
<1> DEFINE back == adj[node] \cap S
           new == InducedEdges(S \cup {node})
           old == InducedEdges(S)
           edge == [v \in back |-> IF v < node THEN <<v, node>> ELSE <<node, v>>]
<1>1. /\ \A u \in DOMAIN adj : \A v \in adj[u] : v \in DOMAIN adj /\ v # u /\ u \in adj[v]
      /\ DOMAIN adj \subseteq Nodes
  BY DEF TypeOK
<1>2. \A v \in DOMAIN adj : v \in Nat
  BY <1>1, SnowballAssumption
<1>3. IsFiniteSet(new) /\ IsFiniteSet(old) /\ IsFiniteSet(back)
      /\ Cardinality(new) \in Nat /\ Cardinality(old) \in Nat
  <2>1. S \cup {node} \in SUBSET DOMAIN adj /\ back \in SUBSET DOMAIN adj
    OBVIOUS
  <2> HIDE DEF new, old, back
  <2> QED
    BY <1>1, <2>1, GraphIsFinite DEF new, old
<1>4. Cardinality(back) \in Nat
  BY <1>3, FS_CardinalityType
<1>5. new \cap old = old
  BY DEF InducedEdges
<1>6. edge \in [back -> new \ old]
  <2>1. ASSUME NEW v \in back
        PROVE  edge[v] \in new \ old
    <3>1. v \in adj[node] /\ v \in S /\ node \in adj[v] /\ v # node /\ v \in Nat /\ node \in Nat
      BY <1>1, <1>2
    <3>2. CASE v < node
      BY <3>1, <3>2 DEF InducedEdges
    <3>3. CASE ~(v < node)
      <4>1. node < v
        BY <3>1, <3>3
      <4> QED
        BY <3>1, <3>3, <4>1 DEF InducedEdges
    <3> QED
      BY <3>2, <3>3
  <2> HIDE DEF new, old, back
  <2> QED
    BY <2>1
<1>7. \A v, w \in back : edge[v] = edge[w] => v = w
  BY <1>1, <1>2
<1>8. \A e \in new \ old : \E v \in back : edge[v] = e
  <2> SUFFICES ASSUME NEW e \in new \ old
               PROVE  \E v \in back : edge[v] = e
    OBVIOUS
  <2>1. e = <<e[1], e[2]>> /\ e[1] \in S \cup {node} /\ e[2] \in S \cup {node}
        /\ e[2] \in adj[e[1]] /\ e[1] < e[2]
    BY DEF InducedEdges
  <2>2. ~(e[1] \in S /\ e[2] \in S)
    BY <2>1 DEF InducedEdges
  <2>3. e[1] \in Nat /\ e[2] \in Nat /\ e[1] # e[2]
    BY <1>2, <2>1
  <2>4. CASE e[1] = node
    <3>1. e[2] \in back /\ ~(e[2] < node)
      BY <2>1, <2>3, <2>4
    <3> QED
      BY <2>1, <2>4, <3>1
  <2>5. CASE e[2] = node
    <3>1. e[1] \in back /\ e[1] < node
      BY <1>1, <2>1, <2>3, <2>5
    <3> QED
      BY <2>1, <2>5, <3>1
  <2> QED
    BY <2>1, <2>2, <2>4, <2>5
<1>9. ExistsBijection(back, new \ old)
  <2> HIDE DEF edge, back, new, old
  <2>1. edge \in Bijection(back, new \ old)
    BY <1>6, <1>7, <1>8 DEF Bijection, Injection, Surjection, IsInjective
  <2> QED
    BY <2>1 DEF ExistsBijection
<1>10. Cardinality(new \ old) = Cardinality(back)
  <2> HIDE DEF back, new, old
  <2> QED
    BY <1>3, <1>9, FS_Bijection
<1>11. Cardinality(new \ old) = Cardinality(new) - Cardinality(old)
  <2> HIDE DEF back, new, old
  <2> QED
    BY <1>3, <1>5, FS_Difference
<1> HIDE DEF back, new, old
<1>12. Cardinality(new) = Cardinality(old) + Cardinality(back)
  BY <1>3, <1>4, <1>10, <1>11
<1> QED
  BY <1>4, <1>12 DEF back, new, old

\* build_adjacency's answer is an undirected graph without loops, and nothing is sampled yet.
LEMMA InitIInv ==
  Init => IInv
<1> SUFFICES ASSUME Init
             PROVE  IInv
  OBVIOUS
<1>1. PICK edges \in SUBSET Pairs : adj = BuildAdjacency(edges)
  BY DEF Init
<1>2. /\ DOMAIN adj \subseteq Nodes
      /\ \A u \in DOMAIN adj : adj[u] \subseteq {v \in DOMAIN adj \ {u} : u \in adj[v]}
  <2>1. DOMAIN adj = {n \in Nodes : \E e \in edges : n \in {e[1], e[2]}}
    BY <1>1 DEF BuildAdjacency
  <2>2. \A u \in DOMAIN adj : adj[u] = {v \in Nodes : <<u, v>> \in edges \/ <<v, u>> \in edges}
    BY <1>1, <2>1 DEF BuildAdjacency
  <2>3. ASSUME NEW u \in DOMAIN adj, NEW v \in adj[u]
        PROVE  v \in DOMAIN adj /\ v # u /\ u \in adj[v]
    <3>1. u \in Nodes /\ v \in Nodes /\ (<<u, v>> \in edges \/ <<v, u>> \in edges)
      BY <2>1, <2>2, <2>3
    <3>2. u \in Nat /\ v \in Nat /\ (<<u, v>> \in Pairs \/ <<v, u>> \in Pairs)
      BY <3>1, SnowballAssumption
    <3>3. v # u
      BY <3>2 DEF Pairs
    <3>4. v \in DOMAIN adj
      BY <2>1, <3>1
    <3> QED
      BY <2>2, <3>1, <3>3, <3>4
  <2> QED
    BY <2>1, <2>3
<1>3. target \in Targets /\ target \in Nat
  BY SnowballAssumption DEF Init
<1>4. /\ selected = {} /\ edges_in = 0 /\ qi = 1
      /\ queue \in Seq(DOMAIN adj) /\ Len(queue) \in {0, 1}
      /\ pc \in {"loop", "returned"}
  <2>1. CASE target = 0 \/ DOMAIN adj = {}
    <3>1. queue = <<>> /\ pc = "returned" /\ selected = {} /\ edges_in = 0 /\ qi = 1
      BY <2>1 DEF Init
    <3> QED
      BY <3>1
  <2>2. CASE ~(target = 0 \/ DOMAIN adj = {})
    <3>1. PICK n \in DOMAIN adj : queue = <<n>>
      BY <2>2 DEF Init
    <3>2. pc = "loop" /\ selected = {} /\ edges_in = 0 /\ qi = 1
      BY <2>2 DEF Init
    <3> QED
      BY <3>1, <3>2
  <2> QED
    BY <2>1, <2>2
<1>5. TypeOK
  <2>1. edges_in \in Nat /\ qi \in 1 .. Len(queue) + 1 /\ selected \subseteq DOMAIN adj
    BY <1>4
  <2> QED
    BY <1>2, <1>3, <1>4, <2>1 DEF TypeOK
<1>6. EdgesCounted
  <2>1. InducedEdges(selected) = {}
    BY <1>4 DEF InducedEdges
  <2> QED
    BY <1>4, <2>1, FS_EmptySet DEF EdgesCounted
<1>7. Frontier
  <2>1. ASSUME NEW j \in Waiting
        PROVE  j = qi /\ j = Len(queue)
    <3>1. j \in 1 .. 0 \/ (j \in 1 .. 1 /\ Len(queue) = 1)
      BY <1>4 DEF Waiting
    <3> QED
      BY <1>4, <3>1
  <2> QED
    BY <1>4, <2>1 DEF Frontier, Closed
<1>8. Tight
  BY <1>3, <1>4 DEF Tight
<1>9. Over
  BY <1>3 DEF Init, Over
<1> QED
  BY <1>5, <1>6, <1>7, <1>8, <1>9 DEF IInv

\* Hopping: the queue has run out, so no edge leaves the sample.
LEMMA HopIInv ==
  IInv /\ Hop => IInv'
<1> SUFFICES ASSUME IInv, Hop
             PROVE  IInv'
  OBVIOUS
<1>1. PICK n \in Remaining : queue' = Append(queue, n)
  BY DEF Hop
<1>2. /\ n \in DOMAIN adj /\ queue \in Seq(DOMAIN adj)
      /\ qi = Len(queue) + 1 /\ Len(queue) \in Nat
      /\ edges_in \in Nat /\ target \in Nat /\ edges_in < target
      /\ UNCHANGED <<adj, target, selected, edges_in, qi, pc>>
  BY SnowballAssumption DEF IInv, TypeOK, Hop, Remaining
<1>3. queue' \in Seq(DOMAIN adj) /\ Len(queue') = qi
  BY <1>1, <1>2
<1>4. TypeOK'
  BY <1>2, <1>3 DEF IInv, TypeOK
<1>5. EdgesCounted'
  BY <1>2 DEF IInv, EdgesCounted, InducedEdges
<1>6. Frontier'
  <2>1. Waiting = {} /\ Waiting' = {qi}
    BY <1>2, <1>3 DEF Waiting
  <2>2. \A u \in selected : adj[u] \subseteq selected
    BY <2>1 DEF IInv, Frontier
  <2> QED
    BY <1>2, <1>3, <2>1, <2>2 DEF Frontier, Closed
<1>7. Tight' /\ Over'
  BY <1>2 DEF Hop, Tight, Over
<1> QED
  BY <1>4, <1>5, <1>6, <1>7 DEF IInv

\* Visiting a node queued twice: it was admitted the first time.
LEMMA VisitAgainIInv ==
  ASSUME IInv, Visit, queue[qi] \in selected
  PROVE  IInv'
<1>1. /\ queue \in Seq(DOMAIN adj)
      /\ qi \in Nat /\ Len(queue) \in Nat /\ qi <= Len(queue)
      /\ edges_in \in Nat /\ target \in Nat /\ edges_in < target
      /\ qi' = qi + 1
      /\ UNCHANGED <<adj, target, selected, edges_in, queue, pc>>
  BY SnowballAssumption DEF IInv, TypeOK, Visit
<1>2. TypeOK'
  BY <1>1 DEF IInv, TypeOK
<1>3. EdgesCounted'
  BY <1>1 DEF IInv, EdgesCounted, InducedEdges
<1>4. Frontier'
  <2>1. Waiting = Waiting' \cup {qi} /\ qi \notin Waiting'
    BY <1>1 DEF Waiting
  <2>2. \A u \in selected : adj[u] \subseteq selected \cup {queue[j] : j \in Waiting'}
    BY <2>1 DEF IInv, Frontier
  <2>3. \A j \in Waiting' : queue[j] \in selected \/ adj[queue[j]] \cap selected # {}
    BY <2>1 DEF IInv, Frontier
  <2> QED
    BY <1>1, <2>2, <2>3 DEF Frontier
<1>5. Tight' /\ Over'
  BY <1>1 DEF Visit, Tight, Over
<1> QED
  BY <1>2, <1>3, <1>4, <1>5 DEF IInv

\* Admitting a node: the count follows the induced edges, and its neighbours are in the
\* sample or queued behind it.
LEMMA AdmitIInv ==
  ASSUME IInv, Visit, queue[qi] \notin selected
  PROVE  IInv'
<1> DEFINE node == queue[qi]
           more == Neighbours(node)
<1>1. /\ queue \in Seq(DOMAIN adj)
      /\ qi \in 1 .. Len(queue) /\ Len(queue) \in Nat
      /\ edges_in \in Nat /\ target \in Nat /\ edges_in < target
      /\ selected \in SUBSET DOMAIN adj
      /\ node \in DOMAIN adj \ selected
  <2>1. queue \in Seq(DOMAIN adj) /\ qi \in 1 .. Len(queue) /\ Len(queue) \in Nat
    BY DEF IInv, TypeOK, Visit
  <2>2. node \in DOMAIN adj
    BY <2>1
  <2> QED
    BY <2>1, <2>2, SnowballAssumption DEF IInv, TypeOK, Visit
<1>2. /\ qi' = qi + 1
      /\ edges_in' = edges_in + Cardinality(adj[node] \cap selected)
      /\ selected' = selected \cup {node}
      /\ queue' = queue \o more
      /\ UNCHANGED <<adj, target, pc>>
      /\ pc = "loop"
  BY DEF Visit, Admit
<1>3. /\ DOMAIN adj \subseteq Nodes
      /\ \A u \in DOMAIN adj : \A v \in adj[u] : v \in DOMAIN adj /\ v # u /\ u \in adj[v]
  BY DEF IInv, TypeOK
<1>4. /\ more \in Seq(adj[node] \ selected)
      /\ \A n \in adj[node] \ selected : \E i \in 1 .. Len(more) : more[i] = n
  <2>1. adj[node] \ selected \in SUBSET DOMAIN adj
    BY <1>1, <1>3
  <2>2. IsFiniteSet(adj[node] \ selected) /\ adj[node] \ selected \in SUBSET Nat
    BY <1>3, <2>1, GraphIsFinite
  <2> QED
    BY <2>2, AscendingLists DEF Neighbours
<1>5. /\ Cardinality(adj[node] \cap selected) \in Nat
      /\ Cardinality(InducedEdges(selected \cup {node}))
           = Cardinality(InducedEdges(selected)) + Cardinality(adj[node] \cap selected)
  BY <1>1, InducedGrows DEF IInv
<1> HIDE DEF node, more
<1>6. more \in Seq(DOMAIN adj) /\ Len(more) \in Nat
  BY <1>1, <1>3, <1>4
<1>7. /\ queue' \in Seq(DOMAIN adj) /\ Len(queue') = Len(queue) + Len(more)
      /\ \A j \in 1 .. Len(queue) : queue'[j] = queue[j]
      /\ \A i \in 1 .. Len(more) : queue'[Len(queue) + i] = more[i]
  BY <1>1, <1>2, <1>6
<1>8. TypeOK'
  <2>1. qi' \in 1 .. Len(queue') + 1
    BY <1>1, <1>2, <1>6, <1>7
  <2>2. edges_in' \in Nat /\ selected' \subseteq DOMAIN adj
    BY <1>1, <1>2, <1>5
  <2> QED
    BY <1>2, <1>7, <2>1, <2>2 DEF IInv, TypeOK
<1>9. EdgesCounted'
  <2>1. InducedEdges(selected)' = InducedEdges(selected \cup {node})
    BY <1>2 DEF InducedEdges
  <2> QED
    BY <1>2, <1>5, <2>1 DEF IInv, EdgesCounted
<1>10. Frontier'
  <2>1. /\ Waiting = {qi} \cup (qi + 1 .. Len(queue))
        /\ Waiting' = (qi + 1 .. Len(queue)) \cup {Len(queue) + i : i \in 1 .. Len(more)}
    <3>1. Waiting' = qi + 1 .. Len(queue) + Len(more)
      BY <1>2, <1>7 DEF Waiting
    <3>2. \A j \in Waiting' :
             j \in qi + 1 .. Len(queue) \/ (j - Len(queue) \in 1 .. Len(more) /\ j = Len(queue) + (j - Len(queue)))
      BY <1>1, <1>6, <3>1
    <3>3. Waiting' = (qi + 1 .. Len(queue)) \cup {Len(queue) + i : i \in 1 .. Len(more)}
      <4>1. ASSUME NEW i \in 1 .. Len(more)  PROVE  Len(queue) + i \in Waiting'
        BY <1>1, <1>6, <3>1
      <4>2. qi + 1 .. Len(queue) \subseteq Waiting'
        BY <1>1, <1>6, <3>1
      <4>3. \A j \in Waiting' :
               j \in (qi + 1 .. Len(queue)) \cup {Len(queue) + i : i \in 1 .. Len(more)}
        BY <3>2
      <4> QED
        BY <4>1, <4>2, <4>3
    <3>4. Waiting = {qi} \cup (qi + 1 .. Len(queue))
      BY <1>1 DEF Waiting
    <3> QED
      BY <3>3, <3>4
  <2>2. {queue'[j] : j \in Waiting'}
          = {queue[j] : j \in qi + 1 .. Len(queue)} \cup {more[i] : i \in 1 .. Len(more)}
    <3>1. \A j \in qi + 1 .. Len(queue) : queue'[j] = queue[j]
      BY <1>1, <1>7
    <3> QED
      BY <1>7, <2>1, <3>1
  <2>3. ASSUME NEW u \in selected \cup {node}
        PROVE  adj[u] \subseteq selected \cup {node} \cup {queue'[j] : j \in Waiting'}
    <3>1. CASE u \in selected
      <4>1. adj[u] \subseteq selected \cup {queue[j] : j \in Waiting}
        BY <3>1 DEF IInv, Frontier
      <4> QED
        BY <2>1, <2>2, <4>1 DEF node
    <3>2. CASE u = node
      BY <1>4, <2>2, <3>2
    <3> QED
      BY <3>1, <3>2
  <2>4. ASSUME NEW j \in Waiting'
        PROVE  queue'[j] \in selected \cup {node}
               \/ adj[queue'[j]] \cap (selected \cup {node}) # {}
    <3>1. CASE j \in qi + 1 .. Len(queue)
      <4>1. queue'[j] = queue[j] /\ j # qi /\ j \in Waiting
        BY <1>1, <1>7, <2>1, <3>1
      <4> QED
        BY <4>1 DEF IInv, Frontier
    <3>2. ASSUME NEW i \in 1 .. Len(more), j = Len(queue) + i
          PROVE  adj[queue'[j]] \cap (selected \cup {node}) # {}
      <4>1. queue'[j] = more[i]
        BY <1>7, <3>2
      <4>2. more[i] \in adj[node]
        BY <1>4
      <4> QED
        BY <1>1, <1>3, <4>1, <4>2
    <3> QED
      BY <2>1, <3>1, <3>2
  <2>5. \A u \in selected' : adj'[u] \subseteq selected' \cup {queue'[j] : j \in Waiting'}
    BY <1>2, <2>3
  <2>6. \A j \in Waiting' : queue'[j] \in selected' \/ adj'[queue'[j]] \cap selected' # {}
    BY <1>2, <2>4
  <2> QED
    BY <2>5, <2>6 DEF Frontier
<1>11. Tight'
  <2>1. PICK last : last = node
    OBVIOUS
  <2>2. InducedEdges(selected \ {last})' = InducedEdges(selected)
    <3>1. selected' \ {last} = selected
      BY <1>1, <1>2, <2>1
    <3> QED
      BY <1>2, <3>1 DEF InducedEdges
  <2>3. Cardinality(InducedEdges(selected \ {last}))' < target'
    BY <1>1, <1>2, <2>2 DEF IInv, EdgesCounted
  <2>4. last \in selected'
    BY <1>2, <2>1
  <2> QED
    BY <2>3, <2>4 DEF Tight
<1>12. Over'
  BY <1>2 DEF Over
<1> QED
  BY <1>8, <1>9, <1>10, <1>11, <1>12 DEF IInv

\* Every turn of the loop keeps the count, the frontier and the tightness of the sample.
LEMMA StepIInv ==
  IInv /\ [Next]_vars => IInv'
<1> SUFFICES ASSUME IInv, [Next]_vars
             PROVE  IInv'
  OBVIOUS
<1>1. CASE Hop
  BY <1>1, HopIInv
<1>2. CASE Visit
  BY <1>2, VisitAgainIInv, AdmitIInv
<1>3. CASE Return
  <2>1. /\ UNCHANGED <<adj, target, selected, edges_in, queue, qi>>
        /\ pc' = "returned"
        /\ selected \subseteq DOMAIN adj
        /\ edges_in >= target \/ Remaining = {}
    BY <1>3 DEF Return, IInv, TypeOK
  <2>2. TypeOK'
    BY <2>1 DEF IInv, TypeOK
  <2>3. EdgesCounted' /\ Tight'
    BY <2>1 DEF IInv, EdgesCounted, Tight, InducedEdges
  <2>4. Frontier'
    BY <2>1 DEF IInv, Frontier, Waiting, Closed
  <2>5. Over'
    BY <2>1 DEF Over, Remaining
  <2> QED
    BY <2>2, <2>3, <2>4, <2>5 DEF IInv
<1>4. CASE UNCHANGED vars
  <2>1. TypeOK' /\ Over'
    BY <1>4 DEF IInv, TypeOK, Over, vars
  <2>2. EdgesCounted' /\ Tight'
    BY <1>4 DEF IInv, EdgesCounted, Tight, InducedEdges, vars
  <2>3. Frontier'
    BY <1>4 DEF IInv, Frontier, Waiting, Closed, vars
  <2> QED
    BY <2>1, <2>2, <2>3 DEF IInv
<1> QED
  BY <1>1, <1>2, <1>3, <1>4 DEF Next, Returned

\* The inductive invariant of the sampler.
THEOREM SpecIInv ==
  Spec => []IInv
<1> QED
  BY InitIInv, StepIInv, PTL DEF Spec

\* The state keeps its type; above all the queue position never passes the end by more than one.
THEOREM SpecTypeOK ==
  Spec => []TypeOK
<1>1. IInv => TypeOK
  BY DEF IInv
<1> QED
  BY <1>1, SpecIInv, PTL

\* edges_in, counted as nodes are admitted, is the number of edges prepare will write.
THEOREM SpecEdgesCounted ==
  Spec => []EdgesCounted
<1>1. IInv => EdgesCounted
  BY DEF IInv
<1> QED
  BY <1>1, SpecIInv, PTL

\* What snowball returns has enough edges or is the whole graph, and overshoots by no more
\* than its last node.
THEOREM SpecSampleIsTight ==
  Spec => []SampleIsTight
<1>1. IInv => SampleIsTight
  BY DEF IInv, EdgesCounted, Tight, Over, SampleIsTight
<1> QED
  BY <1>1, SpecIInv, PTL

\* No edge leaves the sample when the queue has run out.
THEOREM SpecWholeComponents ==
  Spec => []WholeComponents
<1>1. IInv => WholeComponents
  <2> SUFFICES ASSUME IInv, qi > Len(queue)
               PROVE  Closed
    BY DEF WholeComponents
  <2>1. Waiting = {}
    BY DEF IInv, TypeOK, Waiting
  <2> QED
    BY <2>1 DEF IInv, Frontier, Closed
<1> QED
  BY <1>1, SpecIInv, PTL

\* A node is admitted next to the sample, or when no edge leaves it.
THEOREM SpecGrowsAlongEdges ==
  Spec => GrowsAlongEdges
<1>1. IInv /\ [Next]_vars =>
        [\A n \in selected' \ selected : adj[n] \cap selected # {} \/ Closed]_vars
  <2> SUFFICES ASSUME IInv, Next, NEW n \in selected' \ selected
               PROVE  adj[n] \cap selected # {} \/ Closed
    BY DEF vars
  <2>1. n = queue[qi] /\ qi <= Len(queue)
    BY DEF Next, Hop, Visit, Admit, Return, Returned, vars
  <2>2. qi \in Waiting
    BY <2>1 DEF IInv, TypeOK, Waiting
  <2> QED
    BY <2>1, <2>2 DEF IInv, Frontier
<1> QED
  BY <1>1, SpecIInv, PTL DEF Spec, GrowsAlongEdges

---------------------------------------------------------------------------
(* Termination                                                             *)

\* What runs down: the nodes to be admitted; whether a node in the queue is one of them, as
\* there is until the component is exhausted; the positions of the queue still to be read.
Fresh == \E j \in Waiting : queue[j] \notin selected
Pending == Len(queue) + 1 - qi
LoopRunsDown ==
  [][pc = "loop" /\ pc' = "loop" =>
       \/ Cardinality(Remaining') \in 0 .. Cardinality(Remaining) - 1
       \/ Remaining' = Remaining /\ Fresh' /\ ~ Fresh
       \/ Remaining' = Remaining /\ (Fresh' <=> Fresh) /\ Pending' \in 0 .. Pending - 1]_vars

\* Every turn makes one of the three smaller and none of those before it larger, whatever
\* the graph: as all are natural numbers or truth values the loop cannot go on for ever.  It
\* is what SamplerReturns rests on; that a turn can be taken is what no deadlock means.
THEOREM SpecLoopRunsDown ==
  Spec => LoopRunsDown
<1>1. IInv /\ [Next]_vars =>
        [pc = "loop" /\ pc' = "loop" =>
           \/ Cardinality(Remaining') \in 0 .. Cardinality(Remaining) - 1
           \/ Remaining' = Remaining /\ Fresh' /\ ~ Fresh
           \/ Remaining' = Remaining /\ (Fresh' <=> Fresh) /\ Pending' \in 0 .. Pending - 1]_vars
  <2> SUFFICES ASSUME IInv, Next, pc = "loop", pc' = "loop"
               PROVE  \/ Cardinality(Remaining') \in 0 .. Cardinality(Remaining) - 1
                      \/ Remaining' = Remaining /\ Fresh' /\ ~ Fresh
                      \/ /\ Remaining' = Remaining
                         /\ (Fresh' <=> Fresh) /\ Pending' \in 0 .. Pending - 1
    BY DEF vars, Next
  <2>1. /\ queue \in Seq(DOMAIN adj) /\ Len(queue) \in Nat
        /\ qi \in 1 .. Len(queue) + 1
        /\ DOMAIN adj \subseteq Nodes
    BY DEF IInv, TypeOK
  <2>2. CASE Hop
    <3>1. PICK n \in Remaining : queue' = Append(queue, n)
      BY <2>2 DEF Hop
    <3>2. /\ Remaining' = Remaining /\ qi = Len(queue) + 1
          /\ qi' = qi /\ selected' = selected /\ n \notin selected
      BY <2>1, <2>2 DEF Hop, Remaining
    <3>3. Len(queue') = qi /\ queue'[qi] = n
      BY <2>1, <3>1, <3>2
    <3>4. Waiting = {} /\ Waiting' = {qi}
      BY <2>1, <3>2, <3>3 DEF Waiting
    <3> QED
      BY <3>2, <3>3, <3>4 DEF Fresh
  <2>3. CASE Visit /\ queue[qi] \in selected
    <3>1. /\ UNCHANGED <<adj, selected, queue>> /\ qi' = qi + 1 /\ qi <= Len(queue)
      BY <2>3 DEF Visit
    <3>2. Waiting = Waiting' \cup {qi}
      BY <2>1, <3>1 DEF Waiting
    <3>3. Fresh' <=> Fresh
      BY <2>3, <3>1, <3>2 DEF Fresh
    <3>4. Pending' \in 0 .. Pending - 1
      BY <2>1, <3>1 DEF Pending
    <3> QED
      BY <3>1, <3>3, <3>4 DEF Remaining
  <2>4. CASE Visit /\ queue[qi] \notin selected
    <3>1. /\ selected' = selected \cup {queue[qi]} /\ adj' = adj
          /\ queue[qi] \in DOMAIN adj
      BY <2>1, <2>4 DEF Visit, Admit
    <3>2. queue[qi] \in Remaining /\ Remaining' = Remaining \ {queue[qi]}
      BY <2>4, <3>1 DEF Remaining
    <3>3. IsFiniteSet(Remaining)
      BY <2>1, GraphIsFinite DEF Remaining
    <3>4. Cardinality(Remaining') = Cardinality(Remaining) - 1 /\ Cardinality(Remaining) \in Nat
      BY <3>2, <3>3, FS_RemoveElement, FS_CardinalityType
    <3>5. Cardinality(Remaining') \in Nat
      BY <3>2, <3>3, FS_RemoveElement, FS_CardinalityType
    <3> QED
      BY <3>4, <3>5
  <2>5. ~ Return /\ ~ Returned
    BY DEF Return, Returned
  <2> QED
    BY <2>2, <2>3, <2>4, <2>5 DEF Next
<1> QED
  BY <1>1, SpecIInv, PTL DEF Spec, LoopRunsDown
=============================================================================
