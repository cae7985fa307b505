----------------------------- MODULE LoadProofs -----------------------------
(***************************************************************************)
(* Load and Calibrate for every adapter, graph, batch size and sequence of *)
(* attempts: from the first insert on the store holds this graph alone,    *)
(* whatever was there and whatever failed; an index that is missing is     *)
(* reported; rows that were counted are stored, and a load or an attempt   *)
(* that is called complete is.                                             *)
(***************************************************************************)
EXTENDS Calibrate, NumberFacts

---------------------------------------------------------------------------
(* The inductive invariant                                                 *)

Phases == {"idle", "wipe", "shrink", "nodes", "indexes", "edges", "loaded", "raised"}

Typed ==
  /\ kind \in Kinds
  /\ phase \in Phases
  /\ sent \in Nat /\ form \in Nat
  /\ errors \in [nodes : Nat, indexes : Nat, edges : Nat]

\* No phase but the wipe takes anything away, so what it leaves is all that is not of
\* this load.
OwnInv ==
  Inserting /\ kind # "falkordb" =>
    (\A n \in nodes : n[2] = attempt) /\ (\A e \in edges : e.by = attempt)

\* A wipe that looks at the nodes only leaves no edge, as no edge is without its nodes.
Attached(es, ns) == \A e \in es : e.from \in ns /\ e.to \in ns
EndpointInv == kind # "arangodb" => Attached(edges, nodes)

\* The indexes tried so far are there or have been reported; then all of them are.
Accounted == 1 .. Len(Forms) \ indexes \subseteq refused \/ errors.indexes = 1
IndexInv ==
  /\ phase \in {"wipe", "shrink"} => sent = 0
  /\ phase = "indexes" => \A i \in 1 .. sent : i \in indexes \/ i \in refused
  /\ phase \in {"edges", "loaded"} \/ (phase = "nodes" /\ kind = "kuzu") => Accounted

IInv == Typed /\ OwnInv /\ EndpointInv /\ IndexInv

---------------------------------------------------------------------------
LEMMA InitIInv == Init => IInv
BY DEF Init, LoadInit, IInv, Typed, Phases, OwnInv, Inserting, EndpointInv, Attached, IndexInv

\* Where the phases lead.
LEMMA FollowingIs ==
  /\ kind = "kuzu" => /\ Following("wipe") = "indexes" /\ Following("indexes") = "nodes"
                      /\ Following("nodes") = "edges"
  /\ kind # "kuzu" => /\ Following("wipe") = "nodes" /\ Following("nodes") = "indexes"
                      /\ Following("indexes") = "edges"
  /\ Following("edges") = "loaded"
BY DEF Following

\* The wipe of a Cypher engine, as long as it goes on, keeps only whole edges.
LEMMA WipingKeepsIInv ==
  ASSUME IInv, WipeSome \/ WipeFails \/ Shrink
  PROVE  IInv'
<1>1. /\ phase \in {"wipe", "shrink"} /\ phase' \in {"wipe", "shrink", "raised"}
      /\ UNCHANGED <<kind, attempt, sent, form, errors>>
  BY DEF WipeSome, WipeFails, Shrink, given, counts
<1>2. EndpointInv'
  <2>1. CASE Shrink
    BY <2>1 DEF Shrink, store, given, IInv, EndpointInv, Attached
  <2>2. ASSUME NEW left, Keep(left) PROVE EndpointInv'
    BY <1>1, <2>2 DEF Keep, EndpointInv, Attached
  <2> QED BY <2>1, <2>2 DEF WipeSome, WipeFails
<1>3. Typed' /\ OwnInv' /\ IndexInv'
  BY <1>1 DEF IInv, Typed, Phases, OwnInv, Inserting, IndexInv
<1> QED BY <1>2, <1>3 DEF IInv

\* When the wipe is over, the store is empty (or the engine is FalkorDB).
LEMMA WipedKeepsIInv ==
  ASSUME IInv, WipeEnds \/ DropGraph \/ Truncate \/ DeleteStore
  PROVE  IInv'
<1>1. /\ phase = "wipe" /\ phase' \in {Following("wipe"), "raised"}
      /\ UNCHANGED <<kind, attempt, sent, form, errors, refused>>
  BY DEF WipeEnds, DropGraph, Truncate, DeleteStore, given, counts
<1>2. phase' \in {"nodes", "indexes", "raised"} /\ (phase' = "nodes" => kind # "kuzu")
  BY <1>1, FollowingIs
<1>3. /\ phase' # "raised" /\ kind # "falkordb" => nodes' = {} /\ edges' = {}
      /\ EndpointInv'
  <2>1. CASE WipeEnds
    <3>1. nodes = {} /\ UNCHANGED <<nodes, edges>> /\ kind # "arangodb"
      BY <2>1 DEF WipeEnds, store, Bolt
    <3> QED BY <1>1, <3>1 DEF IInv, EndpointInv, Attached
  <2>2. CASE DropGraph
    BY <1>1, <2>2 DEF DropGraph, Emptied, store, IInv, EndpointInv, Attached
  <2>3. CASE Truncate
    BY <1>1, <2>3 DEF Truncate, Emptied, EndpointInv
  <2>4. CASE DeleteStore
    BY <1>1, <2>4 DEF DeleteStore, Emptied, store, IInv, EndpointInv, Attached
  <2> QED BY <2>1, <2>2, <2>3, <2>4
<1>4. Typed' /\ OwnInv' /\ IndexInv'
  BY <1>1, <1>2, <1>3 DEF IInv, Typed, Phases, OwnInv, Inserting, IndexInv
<1> QED BY <1>3, <1>4 DEF IInv

\* An index more is there, or one more is refused.
LEMMA IndexingKeepsIInv ==
  ASSUME IInv, CreateIndex \/ FormRefused
  PROVE  IInv'
<1>1. /\ phase = "indexes" /\ UNCHANGED <<phase, kind, attempt, nodes, edges, errors>>
      /\ sent \in Nat /\ form \in Nat
  BY DEF CreateIndex, FormRefused, NoMoreForms, given, counts, IInv, Typed
<1>2. \/ sent' = sent /\ form' = form + 1 /\ indexes \subseteq indexes' /\ refused' = refused
      \/ /\ sent' = sent + 1 /\ form' = 0
         /\ indexes \subseteq indexes' /\ refused \subseteq refused'
         /\ sent + 1 \in indexes' \/ sent + 1 \in refused'
  BY DEF CreateIndex, FormRefused, NoMoreForms, IndexDone, counts
<1>3. \A i \in 1 .. sent' : i \in indexes' \/ i \in refused'
  <2>1. \A i \in 1 .. sent : i \in indexes \/ i \in refused
    BY <1>1 DEF IInv, IndexInv
  <2> QED BY <1>1, <1>2, <2>1
<1>4. Typed' /\ IndexInv'
  BY <1>1, <1>2, <1>3 DEF IInv, Typed, IndexInv
<1>5. OwnInv' /\ EndpointInv'
  BY <1>1 DEF IInv, OwnInv, Inserting, EndpointInv, Attached
<1> QED BY <1>4, <1>5 DEF IInv

LEMMA IndexedKeepsIInv ==
  ASSUME IInv, IndexesEnd \/ WaitFails
  PROVE  IInv'
<1>1. /\ phase = "indexes" /\ phase' = Following("indexes") /\ sent = Len(Forms) /\ sent' = 0
      /\ UNCHANGED <<kind, attempt, nodes, edges, indexes, form>>
  BY DEF IndexesEnd, WaitFails, given, store
<1>2. phase' \in {"nodes", "edges"}
  BY <1>1, FollowingIs
<1>3. Forms' = Forms
  BY <1>1 DEF Forms
<1>4. errors' \in [nodes : Nat, indexes : Nat, edges : Nat] /\ Accounted'
  <2>1. CASE IndexesEnd
    <3>1. UNCHANGED <<errors, refused>>
      BY <2>1 DEF IndexesEnd, counts
    <3>2. 1 .. Len(Forms) \ indexes \subseteq refused
      BY <1>1 DEF IInv, IndexInv
    <3> QED BY <1>1, <1>3, <3>1, <3>2 DEF Accounted, IInv, Typed
  <2>2. CASE WaitFails
    BY <2>2 DEF WaitFails, Accounted, IInv, Typed
  <2> QED BY <2>1, <2>2
<1>5. Typed' /\ IndexInv'
  BY <1>1, <1>2, <1>4 DEF IInv, Typed, Phases, IndexInv
<1>6. OwnInv' /\ EndpointInv'
  BY <1>1, <1>2 DEF IInv, OwnInv, Inserting, EndpointInv, Attached
<1> QED BY <1>5, <1>6 DEF IInv

\* What is inserted is of this load, and an edge comes with its nodes.
LEMMA InsertingKeepsIInv ==
  ASSUME IInv, InsertNodes \/ InsertEdges
  PROVE  IInv'
<1>1. /\ phase \in {"nodes", "edges"}
      /\ UNCHANGED <<phase, kind, attempt, indexes, form, refused>>
  BY DEF InsertNodes, InsertEdges, given
<1>2. /\ sent' \in Nat /\ errors' \in [nodes : Nat, indexes : Nat, edges : Nat]
      /\ errors'.indexes = errors.indexes
  BY DEF InsertNodes, InsertEdges, Acknowledged, Failed, IInv, Typed
<1>3. nodes \subseteq nodes' /\ \A n \in nodes' \ nodes : n[2] = attempt
  <2>1. CASE InsertNodes
    <3>1. PICK some : nodes' \in {nodes, nodes \cup (some \X {attempt})}
      BY <2>1 DEF InsertNodes
    <3> QED BY <3>1
  <2>2. CASE InsertEdges
    BY <2>2 DEF InsertEdges
  <2> QED BY <2>1, <2>2
<1>4. \A e \in edges' \ edges :
        e.by = attempt /\ (kind # "arangodb" => e.from \in nodes /\ e.to \in nodes)
  <2>1. CASE InsertNodes
    BY <2>1 DEF InsertNodes
  <2>2. CASE InsertEdges
    <3>1. PICK some : edges' \in {edges, edges \cup IF kind = "arangodb" THEN Addressed(some)
                                                                    ELSE Matched(some)}
      BY <2>2 DEF InsertEdges
    <3>2. \A e \in Addressed(some) : e.by = attempt
      BY DEF Addressed
    <3>3. \A e \in Matched(some) : e.by = attempt /\ e.from \in nodes /\ e.to \in nodes
      BY DEF Matched
    <3> QED BY <3>1, <3>2, <3>3
  <2> QED BY <2>1, <2>2
<1>5. OwnInv' /\ EndpointInv'
  BY <1>1, <1>3, <1>4 DEF IInv, OwnInv, Inserting, EndpointInv, Attached
<1>6. Forms' = Forms
  BY <1>1 DEF Forms
<1>7. Typed' /\ IndexInv'
  BY <1>1, <1>2, <1>6 DEF IInv, Typed, IndexInv, Accounted
<1> QED BY <1>5, <1>7 DEF IInv

LEMMA PhaseEndKeepsIInv ==
  ASSUME IInv, PhaseEnds
  PROVE  IInv'
<1>1. /\ phase \in {"nodes", "edges"} /\ phase' = Following(phase) /\ sent' = 0
      /\ UNCHANGED <<kind, attempt, nodes, edges, indexes, form, errors, refused>>
  BY DEF PhaseEnds, given, store, counts
<1>2. /\ phase' \in {"indexes", "edges", "loaded"}
      /\ phase' \in {"edges", "loaded"} => phase = "edges" \/ kind = "kuzu"
  BY <1>1, FollowingIs
<1>3. Forms' = Forms
  BY <1>1 DEF Forms
<1>4. Typed' /\ IndexInv'
  BY <1>1, <1>2, <1>3 DEF IInv, Typed, Phases, IndexInv, Accounted
<1>5. OwnInv' /\ EndpointInv'
  BY <1>1, <1>2 DEF IInv, OwnInv, Inserting, EndpointInv, Attached
<1> QED BY <1>4, <1>5 DEF IInv

\* Between two loads the store is left as it is, or reset.
LEMMA AttemptKeepsIInv ==
  ASSUME IInv, BeginAttempt \/ AttemptFails \/ AttemptEnds
  PROVE  IInv'
<1>1. /\ phase' \in {"idle", "wipe"} /\ kind' = kind
      /\ sent' \in Nat /\ form' \in Nat /\ (phase' = "wipe" => sent' = 0)
      /\ errors' \in [nodes : Nat, indexes : Nat, edges : Nat]
  BY DEF BeginAttempt, AttemptFails, AttemptEnds, Begin, Ready, given, counts, IInv, Typed
<1>2. UNCHANGED <<nodes, edges>> \/ (nodes' = {} /\ edges' = {})
  BY DEF BeginAttempt, AttemptFails, AttemptEnds, Recreated, Emptied, store
<1>3. Typed' /\ OwnInv' /\ IndexInv'
  BY <1>1 DEF IInv, Typed, Phases, OwnInv, Inserting, IndexInv
<1>4. EndpointInv'
  BY <1>1, <1>2 DEF IInv, EndpointInv, Attached
<1> QED BY <1>3, <1>4 DEF IInv

LEMMA StepKeepsIInv == ASSUME IInv, [Next]_vars PROVE IInv'
<1>1. CASE LoadStep
  BY <1>1, WipingKeepsIInv, WipedKeepsIInv, IndexingKeepsIInv, IndexedKeepsIInv,
     InsertingKeepsIInv, PhaseEndKeepsIInv DEF LoadStep, Step
<1>2. CASE BeginAttempt \/ AttemptFails \/ AttemptEnds
  BY <1>2, AttemptKeepsIInv
<1>3. CASE UNCHANGED loadVars
  <2>1. UNCHANGED <<kind, attempt, phase, sent, form, errors, refused, nodes, edges, indexes>>
    BY <1>3 DEF loadVars, given, store, counts
  <2>2. Forms' = Forms
    BY <2>1 DEF Forms
  <2> QED BY <2>1, <2>2 DEF IInv, Typed, OwnInv, Inserting, EndpointInv, Attached, IndexInv, Accounted
<1>4. CASE WriteJson \/ WriteMarkdown \/ SweepLost \/ Finished \/ UNCHANGED vars
  BY <1>3, <1>4 DEF WriteJson, WriteMarkdown, SweepLost, Finished, vars
<1> QED BY <1>1, <1>2, <1>4 DEF Next, SweepStep

---------------------------------------------------------------------------
(* The theorems                                                            *)

THEOREM LoadInvariant == Spec => []IInv
<1> QED BY InitIInv, StepKeepsIInv, PTL DEF Spec

\* What the benchmark measures is its own graph (wipe, insert_node_batch,
\* insert_edge_batch), on every engine whose wipe reports that it failed.
THEOREM OnlyThisGraphHolds == Spec => []OnlyThisGraph
<1>1. IInv => OnlyThisGraph
  BY DEF IInv, OwnInv, OnlyThisGraph, Own
<1> QED BY <1>1, LoadInvariant, PTL

\* Indexes actually created (create_indexes): whatever form was refused, lost with the
\* session or carried out unnoticed, none is missing without a word.
THEOREM IndexesAccountedHolds == Spec => []IndexesAccounted
<1>1. IInv => IndexesAccounted
  BY DEF IInv, IndexInv, Accounted, IndexesAccounted
<1> QED BY <1>1, LoadInvariant, PTL

---------------------------------------------------------------------------
(* What is counted and what is stored                                      *)

\* The rows of the first n batches are the first so many.
Ahead(n, total) == Smaller(n * size, total)

LEMMA BatchFacts ==
  ASSUME size \in Nat \ {0}, NEW n \in Nat, NEW total \in Nat
  PROVE  /\ Ahead(n, total) \in 0 .. total
         /\ Ahead(0, total) = 0
         /\ n = Batches(total) => Ahead(n, total) = total
         /\ n < Batches(total) =>
              /\ Ahead(n, total) <= Ahead(n + 1, total)
              /\ BatchOf(n + 1, total) = Ahead(n, total) + 1 .. Ahead(n + 1, total)
              /\ IsFiniteSet(BatchOf(n + 1, total))
              /\ Cardinality(BatchOf(n + 1, total)) = Ahead(n + 1, total) - Ahead(n, total)
<1> DEFINE q == Batches(total)
<1>1. q \in Nat /\ size * q <= total + size - 1 /\ total + size - 1 < size * q + size
  <2>1. total + size - 1 \in Nat
    OBVIOUS
  <2> QED BY <2>1, SMT DEF Batches
<1>2. n * size \in Nat /\ (n + 1) * size = n * size + size /\ 0 * size = 0
  BY SMT
<1>3. n = q => total <= n * size
  BY <1>1
<1>4. n < q => n * size < total
  <2> SUFFICES ASSUME n < q PROVE n * size < total
    OBVIOUS
  <2>1. n * size + size <= q * size
    BY <1>1, SMT
  <2>2. q * size = size * q /\ q * size \in Nat
    BY <1>1, SMT
  <2> QED BY <1>1, <1>2, <2>1, <2>2
<1>5. /\ Ahead(n, total) \in 0 .. total
      /\ Ahead(0, total) = 0
      /\ n = q => Ahead(n, total) = total
  BY <1>2, <1>3 DEF Ahead, Smaller
<1>6. ASSUME n < q
      PROVE  /\ Ahead(n, total) <= Ahead(n + 1, total)
             /\ BatchOf(n + 1, total) = Ahead(n, total) + 1 .. Ahead(n + 1, total)
  <2>1. Ahead(n, total) = n * size /\ Ahead(n, total) <= Ahead(n + 1, total)
    BY <1>2, <1>4, <1>6 DEF Ahead, Smaller
  <2>2. (n + 1) - 1 = n
    OBVIOUS
  <2> QED BY <2>1, <2>2 DEF BatchOf, Ahead
<1>7. ASSUME n < q
      PROVE  /\ IsFiniteSet(BatchOf(n + 1, total))
             /\ Cardinality(BatchOf(n + 1, total)) = Ahead(n + 1, total) - Ahead(n, total)
  <2>1. Ahead(n, total) \in Nat /\ Ahead(n + 1, total) \in Nat
    BY <1>2 DEF Ahead, Smaller
  <2> DEFINE a == Ahead(n, total) + 1
             b == Ahead(n + 1, total)
  <2>2. a \in Int /\ b \in Int /\ a <= b + 1
    BY <1>6, <1>7, <2>1
  <2>3. IsFiniteSet(a .. b) /\ Cardinality(a .. b) = IF a > b THEN 0 ELSE b - a + 1
    <3> HIDE DEF a, b
    <3> QED BY <2>2, FS_Interval
  <2> QED BY <1>6, <1>7, <2>1, <2>2, <2>3
<1> QED BY <1>5, <1>6, <1>7

\* How many nodes and edges this load has tried so far.
Early == phase \in {"wipe", "shrink"} \/ (phase = "indexes" /\ kind = "kuzu")
NodesDue == IF Early THEN 0 ELSE IF phase = "nodes" THEN Ahead(sent, NumNodes) ELSE NumNodes
EdgesDue == IF phase = "edges" THEN Ahead(sent, Len(Edges))
            ELSE IF phase = "loaded" THEN Len(Edges) ELSE 0

\* Nodes and edges are of this graph or of an earlier load's; no edge is older than its
\* nodes, and an edge whose nodes were not looked for is as old as they.
EdgeOf(i, by, from, to) ==
  [row |-> i, by |-> by, from |-> <<Edges[i][1], from>>, to |-> <<Edges[i][2], to>>]
IsEdge(e) == \E i \in 1 .. Len(Edges), by \in 0 .. attempt :
               \E from, to \in 0 .. by :
                 e = EdgeOf(i, by, from, to) /\ (kind = "arangodb" => from = by /\ to = by)

Verdicts == {"complete", "partial", "error"}

Shape ==
  /\ size \in BatchSizes
  /\ attempt \in Nat
  /\ IsFiniteSet(nodes)
  /\ \A n \in nodes : n[1] \in Nat /\ n[2] \in 0 .. attempt /\ n = <<n[1], n[2]>>
  /\ \A e \in edges : IsEdge(e)
  /\ rows \in [nodes : Nat, edges : Nat]
  /\ done \in Seq([size : BatchSizes, verdict : Verdicts, whole : BOOLEAN, rates : BOOLEAN])

\* What was counted is stored: all of the nodes, and of the edges as many as found both
\* ends.  What was tried without an error was counted.
Anchored == kind = "arangodb" \/ Nodes \X {attempt} \subseteq nodes
Going == phase \notin {"idle", "raised"}
NodesCounted ==
  /\ Own \subseteq (1 .. NodesDue) \X {attempt}
  /\ rows.nodes <= Cardinality(Own)
  /\ errors.nodes = 0 => rows.nodes = NodesDue
EdgesCounted ==
  /\ Stored \subseteq 1 .. EdgesDue
  /\ rows.edges <= EdgesDue
  /\ Anchored => rows.edges <= Cardinality(Stored)
  /\ errors.edges = 0 => rows.edges = EdgesDue
Reported == \A n \in 1 .. Len(done) :
              done[n].size = SizeOf(n) /\ (done[n].verdict = "complete" => done[n].whole)

Tally == Shape /\ (Going => NodesCounted /\ EdgesCounted) /\ Reported

\* An attempt under way is one of those to be made; when the report is written they are
\* all made.
UnderWay ==
  /\ sweep = "running" /\ phase # "idle" => Len(done) < Attempts
  /\ sweep \in {"json", "written"} => Len(done) = Attempts

---------------------------------------------------------------------------
\* The batch sizes of the attempts are those of the sweep.
LEMMA SizeOfTyped ==
  ASSUME NEW n \in 1 .. Attempts
  PROVE  SizeOf(n) \in BatchSizes
<1> DEFINE q == (n - 1) \div Repeats
<1>1. n - 1 \in Nat /\ Repeats \in Nat \ {0} /\ Len(Sizes) \in Nat /\ n - 1 < Len(Sizes) * Repeats
  BY CalibrateAssumption, SMT DEF Attempts
<1>2. q \in Nat /\ Repeats * q <= n - 1
  BY <1>1, SMT
<1>3. q < Len(Sizes)
  <2> SUFFICES ASSUME Len(Sizes) <= q PROVE FALSE
    BY <1>1, <1>2
  <2>1. Len(Sizes) * Repeats <= Repeats * q
    BY <1>1, <1>2, SMT
  <2>2. Len(Sizes) * Repeats \in Nat /\ Repeats * q \in Nat
    BY <1>1, <1>2, SMT
  <2> HIDE DEF q
  <2> QED BY <1>1, <1>2, <2>1, <2>2
<1>4. q + 1 \in 1 .. Len(Sizes)
  BY <1>1, <1>2, <1>3
<1> QED BY <1>4, CalibrateAssumption DEF SizeOf

LEMMA Constants ==
  /\ NumNodes \in Nat /\ Len(Edges) \in Nat
  /\ \A i \in 1 .. Len(Edges) : Edges[i][1] \in Nodes /\ Edges[i][2] \in Nodes
  /\ size \in BatchSizes => size \in Nat \ {0}
  /\ \A n \in 1 .. NumNodes : n \in Nat
<1>1. NumNodes \in Nat /\ BatchSizes \subseteq Nat \ {0} /\ Edges \in Seq(Nodes \X Nodes)
  BY LoadAssumption
<1>2. Len(Edges) \in Nat /\ \A i \in 1 .. Len(Edges) : Edges[i] \in Nodes \X Nodes
  BY <1>1
<1>3. \A p \in Nodes \X Nodes : p[1] \in Nodes /\ p[2] \in Nodes
  OBVIOUS
<1>4. \A i \in 1 .. Len(Edges) : Edges[i][1] \in Nodes /\ Edges[i][2] \in Nodes
  BY <1>2, <1>3
<1>5. \A n \in 1 .. NumNodes : n \in Nat
  OBVIOUS
<1> QED BY <1>1, <1>2, <1>4, <1>5

LEMMA InitTally == Init => Tally
<1> SUFFICES ASSUME Init PROVE Tally
  OBVIOUS
<1>1. PICK left \in Leftovers : nodes = left \X {0}
  BY DEF Init, LoadInit
<1>2. IsFiniteSet(left) /\ left \subseteq Nat
  BY LoadAssumption
<1>3. IsFiniteSet(left \X {0})
  BY <1>2, FS_Product, FS_Singleton
<1>4. \A n \in nodes : n[1] \in Nat /\ n[2] = 0 /\ n = <<n[1], n[2]>>
  <2>1. \A n \in left \X {0} : n[1] \in left /\ n[2] \in {0} /\ n = <<n[1], n[2]>>
    OBVIOUS
  <2> QED BY <1>1, <1>2, <2>1
<1>5. size \in BatchSizes /\ attempt = 0 /\ edges = {} /\ done = <<>> /\ rows = [nodes |-> 0, edges |-> 0]
  BY DEF Init, LoadInit
<1>6. Shape
  BY <1>1, <1>3, <1>4, <1>5 DEF Shape
<1> QED BY <1>5, <1>6 DEF Tally, Going, Reported, Init, LoadInit

\* While nothing has been sent, nothing is counted or stored.
LEMMA NothingYet ==
  ASSUME Shape, NodesCounted, EdgesCounted
  PROVE  /\ NodesDue = 0 => Own = {} /\ rows.nodes = 0
         /\ EdgesDue = 0 => Stored = {} /\ rows.edges = 0
<1>1. rows.nodes \in Nat /\ rows.edges \in Nat
  BY DEF Shape
<1>2. NodesDue = 0 => Own = {}
  BY DEF NodesCounted
<1>3. NodesDue = 0 => rows.nodes = 0
  BY <1>1, <1>2, FS_EmptySet DEF NodesCounted
<1>4. EdgesDue = 0 => Stored = {} /\ rows.edges = 0
  BY <1>1 DEF EdgesCounted
<1> QED BY <1>2, <1>3, <1>4

\* The wipe takes away, and counts nothing.
LEMMA WipeKeepsTally ==
  ASSUME IInv, Tally, UNCHANGED sweepVars,
         WipeSome \/ WipeEnds \/ WipeFails \/ Shrink \/ DropGraph \/ Truncate \/ DeleteStore
  PROVE  Tally'
<1>1. /\ phase \in {"wipe", "shrink"}
      /\ phase' \in {"wipe", "shrink", "raised", Following("wipe")}
      /\ phase = "shrink" => phase' = "wipe"
      /\ UNCHANGED <<kind, attempt, size, sent, rows, errors, done>>
  BY DEF WipeSome, WipeEnds, WipeFails, Shrink, DropGraph, Truncate, DeleteStore, given, counts,
         sweepVars
<1>2. nodes' \subseteq nodes /\ edges' \subseteq edges
  <2>1. ASSUME NEW left, left \in {nodes} \cup Deleted, Keep(left)
        PROVE  nodes' \subseteq nodes /\ edges' \subseteq edges
    BY <2>1 DEF Deleted, Keep
  <2> QED BY <2>1 DEF WipeSome, WipeEnds, WipeFails, Shrink, DropGraph, Truncate, DeleteStore,
                      Emptied, store
<1>3. Shape'
  <2>1. IsFiniteSet(nodes')
    BY <1>2, FS_Subset DEF Tally, Shape
  <2> QED BY <1>1, <1>2, <2>1 DEF Tally, Shape, IsEdge, EdgeOf
<1>4. Going /\ NodesDue = 0 /\ EdgesDue = 0
  BY <1>1 DEF Going, NodesDue, EdgesDue, Early
<1>5. Own = {} /\ Stored = {} /\ rows.nodes = 0 /\ rows.edges = 0
  BY <1>4, NothingYet DEF Tally
<1>6. Own' = {} /\ Stored' = {}
  BY <1>1, <1>2, <1>5 DEF Own, Stored
<1>7. ASSUME Going' PROVE NodesDue' = 0 /\ EdgesDue' = 0
  <2>1. phase' \in {"wipe", "shrink"} \/ (phase' = "indexes" /\ kind' = "kuzu") \/ phase' = "nodes"
    BY <1>1, <1>7, FollowingIs DEF Going
  <2>2. sent' = 0
    BY <1>1 DEF IInv, IndexInv
  <2>3. (Ahead(sent, NumNodes))' = 0
    BY <1>1, <2>2, BatchFacts, Constants DEF Tally, Shape, Ahead
  <2> QED BY <2>1, <2>3 DEF NodesDue, EdgesDue, Early
<1>8. Going' => NodesCounted' /\ EdgesCounted'
  BY <1>1, <1>5, <1>6, <1>7, FS_EmptySet DEF NodesCounted, EdgesCounted
<1>9. Reported'
  BY <1>1 DEF Tally, Reported
<1> QED BY <1>3, <1>8, <1>9 DEF Tally

\* Indexes are not counted among the rows.
LEMMA IndexKeepsTally ==
  ASSUME IInv, Tally, UNCHANGED sweepVars, CreateIndex \/ FormRefused \/ IndexesEnd \/ WaitFails
  PROVE  Tally'
<1>1. /\ phase = "indexes"
      /\ phase' = "indexes" \/ (phase' = Following("indexes") /\ sent' = 0)
      /\ UNCHANGED <<kind, attempt, size, nodes, edges, rows, done>>
      /\ errors'.nodes = errors.nodes /\ errors'.edges = errors.edges
  BY DEF CreateIndex, FormRefused, IndexesEnd, WaitFails, NoMoreForms, given, store, counts,
         sweepVars, IInv, Typed
<1>2. Shape' /\ Reported'
  BY <1>1 DEF Tally, Shape, IsEdge, Reported
<1>3. Going /\ EdgesDue = 0 /\ NodesDue = IF kind = "kuzu" THEN 0 ELSE NumNodes
  BY <1>1 DEF Going, NodesDue, EdgesDue, Early
<1>4. NodesDue' = NodesDue /\ EdgesDue' = 0
  <2>1. sent' = 0 => (Ahead(sent, NumNodes))' = 0 /\ (Ahead(sent, Len(Edges)))' = 0
    BY <1>1, BatchFacts, Constants DEF Tally, Shape, Ahead
  <2> QED BY <1>1, <1>3, <2>1, FollowingIs DEF NodesDue, EdgesDue, Early
<1>5. UNCHANGED <<Own, Stored, Anchored>>
  BY <1>1 DEF Own, Stored, Anchored
<1>6. NodesCounted' /\ EdgesCounted'
  BY <1>1, <1>3, <1>4, <1>5 DEF Tally, NodesCounted, EdgesCounted
<1> QED BY <1>2, <1>6 DEF Tally

\* The bounds of a batch after n batches.
LEMMA NextBatch ==
  ASSUME Shape, sent \in Nat, NEW total \in Nat, sent < Batches(total)
  PROVE  LET a == Ahead(sent, total)
             b == Ahead(sent + 1, total)
             some == BatchOf(sent + 1, total)
         IN  /\ a \in Nat /\ b \in Nat /\ a <= b /\ b <= total
             /\ some = a + 1 .. b /\ IsFiniteSet(some) /\ Cardinality(some) = b - a
             /\ IsFiniteSet(1 .. a) /\ Cardinality(1 .. a) = a
<1>1. size \in Nat \ {0} /\ sent + 1 \in Nat
  BY Constants DEF Shape
<1>2. Ahead(sent, total) \in 0 .. total /\ Ahead(sent + 1, total) \in 0 .. total
  BY <1>1, BatchFacts
<1> DEFINE a == Ahead(sent, total)
<1>3. a \in Nat /\ a \in Int /\ 1 \in Int
  BY <1>2
<1>4. IsFiniteSet(1 .. a) /\ Cardinality(1 .. a) = a
  <2> HIDE DEF a
  <2> QED BY <1>3, Prefix
<1> QED BY <1>1, <1>2, <1>4, BatchFacts

\* A batch of nodes that is acknowledged is counted, and new to the store.
LEMMA InsertNodesKeepsTally ==
  ASSUME IInv, Tally, UNCHANGED sweepVars, InsertNodes
  PROVE  Tally'
<1> DEFINE a == Ahead(sent, NumNodes)
           b == Ahead(sent + 1, NumNodes)
           some == BatchOf(sent + 1, NumNodes)
<1>1. /\ phase = "nodes" /\ sent \in Nat /\ sent < Batches(NumNodes) /\ sent' = sent + 1
      /\ UNCHANGED <<phase, kind, attempt, size, edges, done>>
      /\ \/ /\ nodes' = nodes \cup (some \X {attempt})
            /\ rows' = [rows EXCEPT !.nodes = @ + Cardinality(some)]
            /\ errors' = errors
         \/ /\ nodes' \in {nodes, nodes \cup (some \X {attempt})}
            /\ rows' = rows
            /\ errors' = [errors EXCEPT !.nodes = @ + 1]
  BY DEF InsertNodes, Acknowledged, Failed, given, sweepVars, IInv, Typed
<1>2. /\ a \in Nat /\ b \in Nat /\ a <= b /\ b <= NumNodes
      /\ some = a + 1 .. b /\ IsFiniteSet(some) /\ Cardinality(some) = b - a
      /\ IsFiniteSet(1 .. a)
  BY <1>1, NextBatch, Constants DEF Tally
<1>3. Shape /\ NodesCounted /\ EdgesCounted /\ NodesDue = a /\ EdgesDue = 0
  BY <1>1 DEF Tally, Going, NodesDue, EdgesDue, Early
<1>4. NodesDue' = b /\ EdgesDue' = 0
  BY <1>1 DEF NodesDue, EdgesDue, Early, Ahead
<1> HIDE DEF a, b, some
<1>5. attempt \in Nat /\ IsFiniteSet(nodes) /\ rows \in [nodes : Nat, edges : Nat]
  BY <1>3 DEF Shape
<1>6. IsFiniteSet(Own) /\ Cardinality(Own) \in Nat
  BY <1>5, FS_Subset, FS_CardinalityType DEF Own
<1>7. /\ IsFiniteSet(some \X {attempt})
      /\ Cardinality(some \X {attempt}) = b - a
  BY <1>2, Marked
<1>8. Own \cap (some \X {attempt}) = {}
  BY <1>2, <1>3 DEF NodesCounted
<1>9. /\ IsFiniteSet(Own \cup (some \X {attempt}))
      /\ Cardinality(Own \cup (some \X {attempt})) = Cardinality(Own) + (b - a)
  BY <1>6, <1>7, <1>8, Grows
<1>10. Own' \in {Own, Own \cup (some \X {attempt})}
  BY <1>1 DEF Own
<1>11. Shape'
  <2>1. IsFiniteSet(nodes')
    <3>1. IsFiniteSet(nodes \cup (some \X {attempt}))
      BY <1>5, <1>7, FS_Union
    <3> QED BY <1>1, <1>5, <3>1
  <2>2. \A n \in some \X {attempt} : n[1] \in Nat /\ n[2] \in 0 .. attempt /\ n = <<n[1], n[2]>>
    BY <1>2, <1>5
  <2>3. rows' \in [nodes : Nat, edges : Nat]
    BY <1>1, <1>2, <1>5
  <2> QED BY <1>1, <1>3, <2>1, <2>2, <2>3 DEF Shape, IsEdge
<1>12. NodesCounted'
  <2>1. Own' \subseteq (1 .. b) \X {attempt}
    BY <1>2, <1>3, <1>5, <1>10 DEF NodesCounted
  <2>2. CASE rows' = [rows EXCEPT !.nodes = @ + Cardinality(some)] /\ errors' = errors
             /\ nodes' = nodes \cup (some \X {attempt})
    <3>1. Own' = Own \cup (some \X {attempt})
      BY <1>1, <2>2 DEF Own
    <3> QED BY <1>1, <1>2, <1>3, <1>4, <1>5, <1>6, <1>9, <2>1, <2>2, <3>1 DEF NodesCounted
  <2>3. CASE rows' = rows /\ errors' = [errors EXCEPT !.nodes = @ + 1]
    <3>1. Cardinality(Own) <= Cardinality(Own') /\ Cardinality(Own') \in Nat
      <4>1. CASE Own' = Own
        BY <1>6, <4>1
      <4>2. CASE Own' = Own \cup (some \X {attempt})
        BY <1>2, <1>6, <1>9, <4>2
      <4> QED BY <1>10, <4>1, <4>2
    <3>2. errors'.nodes # 0
      BY <2>3 DEF IInv, Typed
    <3>3. rows'.nodes <= Cardinality(Own')
      BY <1>3, <1>5, <1>6, <2>3, <3>1 DEF NodesCounted
    <3> QED BY <1>1, <1>4, <2>1, <3>2, <3>3 DEF NodesCounted
  <2> QED BY <1>1, <2>2, <2>3
<1>13. EdgesCounted'
  <2>1. Stored = {} /\ rows.edges = 0
    BY <1>3, NothingYet
  <2>2. Stored' = {} /\ rows'.edges = 0
    BY <1>1, <1>5, <2>1 DEF Stored
  <2> QED BY <1>4, <2>2, FS_EmptySet DEF EdgesCounted
<1>14. Reported'
  BY <1>1 DEF Tally, Reported
<1> QED BY <1>11, <1>12, <1>13, <1>14 DEF Tally

\* The edges a batch creates are edges of this load; where all nodes are there, or are not
\* looked for, every row creates one.
NewEdges(some) == IF kind = "arangodb" THEN Addressed(some) ELSE Matched(some)

LEMMA BatchEdges ==
  ASSUME Shape, NEW some \in SUBSET (1 .. Len(Edges))
  PROVE  /\ \A e \in NewEdges(some) : IsEdge(e) /\ e.by = attempt /\ e.row \in some
         /\ Anchored => \A i \in some : \E e \in NewEdges(some) : e.row = i
<1>1. attempt \in 0 .. attempt
  BY DEF Shape
<1>2. \A i \in some : EdgeOf(i, attempt, attempt, attempt) \in Addressed(some)
  BY DEF Addressed, EdgeOf
<1>3. \A e \in Addressed(some) : \E i \in some : e = EdgeOf(i, attempt, attempt, attempt)
  BY DEF Addressed, EdgeOf
<1>4. ASSUME NEW e \in Matched(some)
      PROVE  \E i \in some : \E u, v \in 0 .. attempt : e = EdgeOf(i, attempt, u, v)
  <2>1. PICK i \in some, n \in nodes, m \in nodes :
          /\ e = [row |-> i, by |-> attempt, from |-> n, to |-> m]
          /\ n[1] = Edges[i][1] /\ m[1] = Edges[i][2]
    BY <1>4 DEF Matched
  <2>2. /\ n[2] \in 0 .. attempt /\ m[2] \in 0 .. attempt
        /\ n = <<n[1], n[2]>> /\ m = <<m[1], m[2]>>
    BY DEF Shape
  <2>3. e = EdgeOf(i, attempt, n[2], m[2])
    BY <2>1, <2>2 DEF EdgeOf
  <2> QED BY <2>2, <2>3
<1>5. ASSUME NEW i \in some, Nodes \X {attempt} \subseteq nodes
      PROVE  EdgeOf(i, attempt, attempt, attempt) \in Matched(some)
  <2> DEFINE n == <<Edges[i][1], attempt>>
             m == <<Edges[i][2], attempt>>
  <2>1. n \in nodes /\ m \in nodes
    BY <1>5, Constants
  <2>2. n[1] = Edges[i][1] /\ m[1] = Edges[i][2]
    OBVIOUS
  <2> HIDE DEF n, m
  <2>3. [row |-> i, by |-> attempt, from |-> n, to |-> m] \in Matched(some)
    BY <2>1, <2>2 DEF Matched
  <2> QED BY <2>3 DEF EdgeOf, n, m
<1>6. \A e \in NewEdges(some) :
        \E i \in some : \E u, v \in 0 .. attempt :
          e = EdgeOf(i, attempt, u, v) /\ (kind = "arangodb" => u = attempt /\ v = attempt)
  BY <1>1, <1>3, <1>4 DEF NewEdges
<1>7. \A i, u, v : EdgeOf(i, attempt, u, v).by = attempt /\ EdgeOf(i, attempt, u, v).row = i
  BY DEF EdgeOf
<1>8. \A e \in NewEdges(some) : IsEdge(e) /\ e.by = attempt /\ e.row \in some
  BY <1>1, <1>6, <1>7 DEF IsEdge
<1>9. ASSUME Anchored, NEW i \in some
      PROVE  EdgeOf(i, attempt, attempt, attempt) \in NewEdges(some)
  BY <1>2, <1>5, <1>9 DEF Anchored, NewEdges
<1> QED BY <1>7, <1>8, <1>9

\* A batch of edges that is acknowledged is counted, found or not; what it found is new
\* to the store.
LEMMA InsertEdgesKeepsTally ==
  ASSUME IInv, Tally, UNCHANGED sweepVars, InsertEdges
  PROVE  Tally'
<1> DEFINE a == Ahead(sent, Len(Edges))
           b == Ahead(sent + 1, Len(Edges))
           some == BatchOf(sent + 1, Len(Edges))
<1>1. /\ phase = "edges" /\ sent \in Nat /\ sent < Batches(Len(Edges)) /\ sent' = sent + 1
      /\ UNCHANGED <<phase, kind, attempt, size, nodes, done>>
      /\ \/ /\ edges' = edges \cup NewEdges(some)
            /\ rows' = [rows EXCEPT !.edges = @ + Cardinality(some)]
            /\ errors' = errors
         \/ /\ edges' \in {edges, edges \cup NewEdges(some)}
            /\ rows' = rows
            /\ errors' = [errors EXCEPT !.edges = @ + 1]
  BY DEF InsertEdges, Acknowledged, Failed, NewEdges, given, sweepVars, IInv, Typed
<1>2. /\ a \in Nat /\ b \in Nat /\ a <= b /\ b <= Len(Edges)
      /\ some = a + 1 .. b /\ IsFiniteSet(some) /\ Cardinality(some) = b - a
  BY <1>1, NextBatch, Constants DEF Tally
<1>3. Shape /\ NodesCounted /\ EdgesCounted /\ EdgesDue = a
  BY <1>1 DEF Tally, Going, EdgesDue
<1>4. EdgesDue' = b /\ NodesDue = NumNodes /\ NodesDue' = NumNodes
  BY <1>1 DEF NodesDue, EdgesDue, Early, Ahead
<1> HIDE DEF a, b, some
<1>5. rows \in [nodes : Nat, edges : Nat] /\ some \in SUBSET (1 .. Len(Edges))
  BY <1>2, <1>3, Constants DEF Shape
<1>6. /\ \A e \in NewEdges(some) : IsEdge(e) /\ e.by = attempt /\ e.row \in some
      /\ Anchored => \A i \in some : \E e \in NewEdges(some) : e.row = i
  BY <1>3, <1>5, BatchEdges
<1>7. /\ Stored \subseteq 1 .. a
      /\ IsFiniteSet(Stored) /\ Cardinality(Stored) \in Nat
  BY <1>2, <1>3, Prefix DEF EdgesCounted
<1>8. /\ Stored \subseteq Stored' /\ Stored' \subseteq Stored \cup some
      /\ edges' = edges \cup NewEdges(some) /\ Anchored => Stored' = Stored \cup some
  BY <1>1, <1>6 DEF Stored
<1>9. /\ IsFiniteSet(Stored') /\ Cardinality(Stored) <= Cardinality(Stored')
      /\ Cardinality(Stored') \in Nat
      /\ Stored' \subseteq 1 .. b
  <2>1. Stored' \in SUBSET (1 .. b)
    BY <1>2, <1>7, <1>8
  <2>2. IsFiniteSet(Stored') /\ Cardinality(Stored') \in 0 .. b
    BY <1>2, <2>1, Prefix
  <2>3. Cardinality(Stored) <= Cardinality(Stored')
    BY <1>8, <2>2, FS_Subset
  <2> QED BY <1>2, <2>1, <2>2, <2>3
<1>10. Cardinality(Stored \cup some) = Cardinality(Stored) + (b - a)
  <2>1. Stored \cap some = {}
    BY <1>2, <1>7
  <2> QED BY <1>2, <1>7, <2>1, Grows
<1>11. Anchored' <=> Anchored
  BY <1>1 DEF Anchored
<1>12. Shape'
  <2>1. \A e \in edges' : IsEdge(e)
    BY <1>1, <1>3, <1>6 DEF Shape
  <2>2. rows' \in [nodes : Nat, edges : Nat]
    BY <1>1, <1>2, <1>5
  <2> QED BY <1>1, <1>3, <2>1, <2>2 DEF Shape, IsEdge
<1>13. NodesCounted'
  <2>1. Own' = Own /\ rows'.nodes = rows.nodes /\ errors'.nodes = errors.nodes
    BY <1>1, <1>5 DEF Own, IInv, Typed
  <2> QED BY <1>1, <1>3, <1>4, <2>1 DEF NodesCounted
<1>14. EdgesCounted'
  <2>1. CASE rows' = [rows EXCEPT !.edges = @ + Cardinality(some)] /\ errors' = errors
             /\ edges' = edges \cup NewEdges(some)
    <3>1. rows'.edges = rows.edges + (b - a) /\ rows.edges \in Nat
      BY <1>2, <1>5, <2>1
    <3>2. Anchored => rows'.edges <= Cardinality(Stored')
      <4> SUFFICES ASSUME Anchored PROVE rows'.edges <= Cardinality(Stored')
        OBVIOUS
      <4>1. Cardinality(Stored') = Cardinality(Stored) + (b - a)
        BY <1>8, <1>10, <2>1
      <4>2. rows.edges <= Cardinality(Stored)
        BY <1>3 DEF EdgesCounted
      <4> HIDE DEF Stored
      <4> QED BY <1>2, <1>7, <3>1, <4>1, <4>2
    <3> QED BY <1>2, <1>3, <1>4, <1>9, <1>11, <2>1, <3>1, <3>2 DEF EdgesCounted
  <2>2. CASE rows' = rows /\ errors' = [errors EXCEPT !.edges = @ + 1]
    <3>1. errors'.edges # 0
      BY <2>2 DEF IInv, Typed
    <3>2. rows.edges \in Nat /\ rows'.edges = rows.edges
      BY <1>5, <2>2
    <3> QED BY <1>2, <1>3, <1>4, <1>7, <1>9, <1>11, <3>1, <3>2 DEF EdgesCounted
  <2> QED BY <1>1, <2>1, <2>2
<1>15. Reported'
  BY <1>1 DEF Tally, Reported
<1> QED BY <1>12, <1>13, <1>14, <1>15 DEF Tally

LEMMA PhaseEndKeepsTally ==
  ASSUME IInv, Tally, UNCHANGED sweepVars, PhaseEnds
  PROVE  Tally'
<1>1. /\ \/ phase = "nodes" /\ sent = Batches(NumNodes)
         \/ phase = "edges" /\ sent = Batches(Len(Edges))
      /\ phase' = Following(phase) /\ sent' = 0
      /\ UNCHANGED <<kind, attempt, size, nodes, edges, rows, errors, done>>
  BY DEF PhaseEnds, given, store, counts, sweepVars
<1>2. Shape' /\ Reported'
  BY <1>1 DEF Tally, Shape, IsEdge, Reported
<1>3. size \in Nat \ {0} /\ size' = size /\ sent \in Nat
  BY <1>1, Constants DEF Tally, Shape, IInv, Typed
<1>4. /\ sent = Batches(NumNodes) => Ahead(sent, NumNodes) = NumNodes
      /\ sent = Batches(Len(Edges)) => Ahead(sent, Len(Edges)) = Len(Edges)
      /\ (Ahead(sent, Len(Edges)))' = 0
  BY <1>1, <1>3, BatchFacts, Constants DEF Ahead
<1>5. Going /\ NodesDue' = NodesDue /\ EdgesDue' = EdgesDue
  <2>1. CASE phase = "nodes"
    BY <1>1, <1>4, <2>1, FollowingIs DEF Going, NodesDue, EdgesDue, Early
  <2>2. CASE phase = "edges"
    BY <1>1, <1>4, <2>2, FollowingIs DEF Going, NodesDue, EdgesDue, Early
  <2> QED BY <1>1, <2>1, <2>2
<1>6. UNCHANGED <<Own, Stored, Anchored>>
  BY <1>1 DEF Own, Stored, Anchored
<1>7. NodesCounted' /\ EdgesCounted'
  BY <1>1, <1>5, <1>6 DEF Tally, NodesCounted, EdgesCounted
<1> QED BY <1>2, <1>7 DEF Tally

\* As many of this load's nodes as there are, are all of them.
LEMMA NodesComplete ==
  ASSUME NodesCounted, NodesDue = NumNodes, rows.nodes = NumNodes
  PROVE  Own = Nodes \X {attempt} /\ Cardinality(Own) = NumNodes /\ Anchored
<1>1. IsFiniteSet(Nodes \X {attempt}) /\ Cardinality(Nodes \X {attempt}) = NumNodes
  BY Constants, Prefix, Marked DEF Nodes
<1>2. Own \in SUBSET (Nodes \X {attempt}) /\ NumNodes <= Cardinality(Own)
  BY DEF NodesCounted, Nodes
<1>3. /\ IsFiniteSet(Own) /\ Cardinality(Own) <= NumNodes
      /\ Cardinality(Own) = NumNodes => Own = Nodes \X {attempt}
  BY <1>1, <1>2, FS_Subset
<1>4. Cardinality(Own) \in Nat
  BY <1>3, FS_CardinalityType
<1>5. Own = Nodes \X {attempt} /\ Cardinality(Own) = NumNodes
  <2> HIDE DEF Own
  <2> QED BY <1>2, <1>3, <1>4, Constants
<1> QED BY <1>5 DEF Own, Anchored

\* And with them as many edges are all of those.
LEMMA CompleteIsWhole == Tally /\ phase = "loaded" /\ Complete => Whole
<1> SUFFICES ASSUME Tally, phase = "loaded", Complete PROVE Whole
  OBVIOUS
<1>1. Going /\ NodesDue = NumNodes /\ EdgesDue = Len(Edges)
  BY DEF Going, NodesDue, EdgesDue, Early
<1>2. Own = Nodes \X {attempt} /\ Anchored
  BY <1>1, NodesComplete DEF Tally, Complete
<1>3. Stored \subseteq 1 .. Len(Edges) /\ Len(Edges) <= Cardinality(Stored)
  BY <1>1, <1>2 DEF Tally, EdgesCounted, Complete
<1>4. Stored = 1 .. Len(Edges)
  <2>1. /\ Cardinality(Stored) \in 0 .. Len(Edges)
        /\ Cardinality(Stored) = Len(Edges) => Stored = 1 .. Len(Edges)
    BY <1>3, Constants, Prefix
  <2> QED BY <1>3, <2>1, Constants
<1> QED BY <1>2, <1>4 DEF Whole

\* One more attempt in the report.
LEMMA AttemptReported ==
  ASSUME Shape, Reported, Len(done) < Attempts,
         NEW verdict \in Verdicts, verdict = "complete" => Whole,
         done' = Append(done, Attempt(verdict))
  PROVE  /\ done' \in Seq([size : BatchSizes, verdict : Verdicts, whole : BOOLEAN, rates : BOOLEAN])
         /\ Reported'
<1>1. Len(done) \in Nat /\ Len(done) < Attempts
  BY DEF Shape
<1>2. Len(done) + 1 \in 1 .. Attempts
  <2>1. Attempts \in Nat
    BY CalibrateAssumption, SMT DEF Attempts
  <2> QED BY <1>1, <2>1
<1>3. SizeOf(Len(done) + 1) \in BatchSizes
  BY <1>2, SizeOfTyped
<1>4. Attempt(verdict) \in [size : BatchSizes, verdict : Verdicts, whole : BOOLEAN, rates : BOOLEAN]
  <2>1. Whole \in BOOLEAN /\ (rows.nodes > 0 /\ rows.edges > 0) \in BOOLEAN
    BY DEF Whole
  <2> QED BY <1>3, <2>1 DEF Attempt
<1>5. done \in Seq([size : BatchSizes, verdict : Verdicts, whole : BOOLEAN, rates : BOOLEAN])
  BY DEF Shape
<1>6. Reported'
  <2> SUFFICES ASSUME NEW n \in 1 .. Len(done')
               PROVE  done'[n].size = SizeOf(n) /\ (done'[n].verdict = "complete" => done'[n].whole)
    BY DEF Reported, SizeOf
  <2>1. Len(done') = Len(done) + 1
    BY <1>5
  <2>2. CASE n = Len(done) + 1
    <3>1. done'[n] = Attempt(verdict)
      BY <1>5, <2>2
    <3> QED BY <2>2, <3>1 DEF Attempt
  <2>3. CASE n \in 1 .. Len(done)
    <3>1. done'[n] = done[n]
      BY <1>5, <2>3
    <3> QED BY <2>3, <3>1 DEF Reported
  <2> QED BY <1>1, <2>1, <2>2, <2>3
<1> QED BY <1>4, <1>5, <1>6

\* A load that begins owns nothing of what it finds; one that ends is reported.
LEMMA AttemptKeepsTally ==
  ASSUME IInv, Tally, UnderWay, BeginAttempt \/ AttemptFails \/ AttemptEnds
  PROVE  Tally'
<1>1. /\ nodes' \subseteq nodes /\ edges' \subseteq edges
      /\ IsFiniteSet(nodes')
  <2>1. nodes' \subseteq nodes /\ edges' \subseteq edges
    BY DEF BeginAttempt, AttemptFails, AttemptEnds, Recreated, Emptied, store
  <2> QED BY <2>1, FS_Subset DEF Tally, Shape
<1>2. attempt \in Nat /\ \A n \in nodes : n[2] \in 0 .. attempt
  BY DEF Tally, Shape
<1>3. CASE BeginAttempt
  <2>1. /\ phase' = "wipe" /\ attempt' = attempt + 1 /\ size' = SizeOf(Len(done) + 1)
        /\ rows' = [nodes |-> 0, edges |-> 0] /\ errors'.nodes = 0 /\ errors'.edges = 0
        /\ done' = done /\ Len(done) < Attempts /\ kind' = kind
    BY <1>3 DEF BeginAttempt, Begin, Ready, sweepVars
  <2>2. Len(done) + 1 \in 1 .. Attempts
    <3>1. Attempts \in Nat
      BY CalibrateAssumption, SMT DEF Attempts
    <3>2. Len(done) \in Nat
      BY DEF Tally, Shape
    <3> QED BY <2>1, <3>1, <3>2
  <2>3. size' \in BatchSizes
    BY <2>1, <2>2, SizeOfTyped
  <2>4. \A e \in edges : IsEdge(e)' /\ e.by # attempt'
    <3> SUFFICES ASSUME NEW e \in edges PROVE IsEdge(e)' /\ e.by # attempt'
      OBVIOUS
    <3>1. PICK i \in 1 .. Len(Edges), by \in 0 .. attempt :
            \E u, v \in 0 .. by :
              e = EdgeOf(i, by, u, v) /\ (kind = "arangodb" => u = by /\ v = by)
      BY DEF Tally, Shape, IsEdge
    <3>2. e.by = by
      BY <3>1 DEF EdgeOf
    <3>3. by \in 0 .. attempt' /\ by # attempt'
      BY <1>2, <2>1
    <3>4. IsEdge(e)'
      BY <2>1, <3>1, <3>3 DEF IsEdge
    <3> QED BY <3>2, <3>3, <3>4
  <2>5. \A n \in nodes : n[2] \in 0 .. attempt' /\ n[2] # attempt'
    BY <1>2, <2>1
  <2>6. Shape'
    BY <1>1, <1>2, <2>1, <2>3, <2>4, <2>5 DEF Tally, Shape
  <2>7. NodesDue' = 0 /\ EdgesDue' = 0
    BY <2>1 DEF NodesDue, EdgesDue, Early
  <2>8. Own' = {} /\ Stored' = {}
    BY <1>1, <2>4, <2>5 DEF Own, Stored
  <2>9. NodesCounted' /\ EdgesCounted'
    BY <2>1, <2>7, <2>8, FS_EmptySet DEF NodesCounted, EdgesCounted
  <2> QED BY <2>1, <2>6, <2>9 DEF Tally, Reported
<1>4. ASSUME NEW verdict \in Verdicts, verdict = "complete" => Whole, Len(done) < Attempts,
             done' = Append(done, Attempt(verdict)), phase' = "idle",
             UNCHANGED <<kind, attempt, size, rows>>
      PROVE  Tally'
  <2>1. /\ done' \in Seq([size : BatchSizes, verdict : Verdicts, whole : BOOLEAN, rates : BOOLEAN])
        /\ Reported'
    BY <1>4, AttemptReported DEF Tally
  <2>2. Shape'
    BY <1>1, <1>4, <2>1 DEF Tally, Shape, IsEdge
  <2> QED BY <1>4, <2>1, <2>2 DEF Tally, Going
<1>5. CASE AttemptFails
  BY <1>4, <1>5 DEF AttemptFails, Ready, given, counts, Verdicts
<1>6. CASE AttemptEnds
  <2>1. Verdict \in Verdicts /\ (Verdict = "complete" => phase = "loaded" /\ Complete)
    BY <1>6 DEF AttemptEnds, Verdict, Verdicts
  <2>2. Len(done) < Attempts
    BY <1>6 DEF AttemptEnds, UnderWay
  <2>3. /\ done' = Append(done, Attempt(Verdict)) /\ phase' = "idle"
        /\ UNCHANGED <<kind, attempt, size, rows>>
    BY <1>6 DEF AttemptEnds, given, counts
  <2> QED BY <1>4, <2>1, <2>2, <2>3, CompleteIsWhole
<1> QED BY <1>3, <1>5, <1>6

LEMMA StepKeepsUnderWay == UnderWay /\ [Next]_vars => UnderWay'
<1> SUFFICES ASSUME UnderWay, [Next]_vars PROVE UnderWay'
  OBVIOUS
<1>1. CASE LoadStep
  <2>1. phase # "idle"
    BY <1>1 DEF LoadStep, Step, WipeSome, WipeEnds, WipeFails, Shrink, DropGraph, Truncate,
                DeleteStore, CreateIndex, FormRefused, IndexesEnd, WaitFails, InsertNodes,
                InsertEdges, PhaseEnds
  <2> QED BY <1>1, <2>1 DEF LoadStep, sweepVars, UnderWay
<1>2. CASE BeginAttempt \/ AttemptFails \/ AttemptEnds
  BY <1>2 DEF BeginAttempt, AttemptFails, AttemptEnds, Ready, sweepVars, UnderWay
<1>3. CASE WriteJson \/ WriteMarkdown \/ SweepLost \/ Finished \/ UNCHANGED vars
  BY <1>3 DEF WriteJson, WriteMarkdown, SweepLost, Ready, Finished, vars, loadVars, sweepVars,
              UnderWay
<1> QED BY <1>1, <1>2, <1>3 DEF Next, SweepStep

LEMMA StepKeepsTally == IInv /\ Tally /\ UnderWay /\ [Next]_vars => Tally'
<1> SUFFICES ASSUME IInv, Tally, UnderWay, [Next]_vars PROVE Tally'
  OBVIOUS
<1>1. CASE LoadStep
  BY <1>1, WipeKeepsTally, IndexKeepsTally, InsertNodesKeepsTally, InsertEdgesKeepsTally,
     PhaseEndKeepsTally DEF LoadStep, Step
<1>2. CASE BeginAttempt \/ AttemptFails \/ AttemptEnds
  BY <1>2, AttemptKeepsTally
<1>3. CASE UNCHANGED <<loadVars, done>>
  <2>1. UNCHANGED <<kind, attempt, size, phase, sent, rows, errors, nodes, edges, done>>
    BY <1>3 DEF loadVars, given, store, counts
  <2>2. UNCHANGED <<Shape, Reported, Going, Own, Stored, Anchored, NodesDue, EdgesDue>>
    BY <2>1 DEF Shape, IsEdge, Reported, Going, Own, Stored, Anchored, NodesDue, EdgesDue, Early,
                Ahead
  <2> QED BY <2>1, <2>2 DEF Tally, NodesCounted, EdgesCounted
<1>4. CASE WriteJson \/ WriteMarkdown \/ SweepLost \/ Finished \/ UNCHANGED vars
  BY <1>3, <1>4 DEF WriteJson, WriteMarkdown, SweepLost, Finished, vars, sweepVars
<1> QED BY <1>1, <1>2, <1>4 DEF Next, SweepStep

---------------------------------------------------------------------------
(* The theorems on what is counted                                         *)

\* What a load counted it stored, and what it tried without an error it counted.
THEOREM TallyInvariant == Spec => [](IInv /\ Tally /\ UnderWay)
<1>1. Init => IInv /\ Tally /\ UnderWay
  BY InitIInv, InitTally DEF Init, LoadInit, UnderWay
<1>2. IInv /\ Tally /\ UnderWay /\ [Next]_vars => (IInv /\ Tally /\ UnderWay)'
  BY StepKeepsIInv, StepKeepsTally, StepKeepsUnderWay
<1> QED BY <1>1, <1>2, PTL DEF Spec

\* A load without an error in its node and edge phases (load, insert_node_batch,
\* insert_edge_batch) has stored every row, whatever the indexes did.
THEOREM CleanLoadIsCompleteHolds == Spec => []CleanLoadIsComplete
<1>1. IInv /\ Tally => CleanLoadIsComplete
  <2> SUFFICES ASSUME Tally, phase = "loaded", errors.nodes = 0, errors.edges = 0
               PROVE  Complete /\ Whole
    BY DEF CleanLoadIsComplete
  <2>1. Going /\ NodesDue = NumNodes /\ EdgesDue = Len(Edges)
    BY DEF Going, NodesDue, EdgesDue, Early
  <2>2. Complete
    BY <2>1 DEF Tally, NodesCounted, EdgesCounted, Complete
  <2> QED BY <2>2, CompleteIsWhole
<1> QED BY <1>1, TallyInvariant, PTL

\* The sweep's report: every attempt is there, in order, and the complete ones are whole.
THEOREM SweepReportedHolds == Spec => []SweepReported
<1>1. Tally /\ UnderWay => SweepReported
  BY DEF Tally, Reported, UnderWay, SweepReported
<1> QED BY <1>1, TallyInvariant, PTL

\* The ingest rates are of rows that are in the store (load's LoadPhase.rows), and edges
\* have their endpoints there, but for ArangoDB's.
THEOREM RowsAreStoredHolds == Spec => []RowsAreStored
<1>1. IInv /\ Tally => RowsAreStored
  <2> SUFFICES ASSUME IInv, Tally PROVE RowsAreStored
    OBVIOUS
  <2>1. Inserting => NodesCounted /\ EdgesCounted
    BY DEF Tally, Inserting, Going
  <2>2. Inserting => rows.nodes <= Cardinality(Own)
    BY <2>1 DEF NodesCounted
  <2>3. ASSUME Inserting, errors.nodes = 0 \/ kind = "arangodb"
        PROVE  rows.edges <= Cardinality(Stored)
    <3>1. CASE EdgesDue = 0
      BY <2>1, <2>3, <3>1, NothingYet, FS_EmptySet DEF Tally
    <3>2. CASE EdgesDue # 0
      <4>1. NodesDue = NumNodes
        BY <3>2 DEF EdgesDue, NodesDue, Early
      <4>2. errors.nodes = 0 => Anchored
        BY <2>1, <2>3, <4>1, NodesComplete DEF NodesCounted
      <4> QED BY <2>1, <2>3, <4>2 DEF EdgesCounted, Anchored
    <3> QED BY <3>1, <3>2
  <2>4. kind # "arangodb" => \A e \in edges : {e.from, e.to} \subseteq nodes
    BY DEF IInv, EndpointInv, Attached
  <2> QED BY <2>2, <2>3, <2>4 DEF RowsAreStored
<1> QED BY <1>1, TallyInvariant, PTL

\* The self-check (aggregate_cohorts against the manifest) catches what FalkorDB's wipe
\* swallows: with complete counts, the store is this graph and nothing else.
THEOREM SelfCheckTellsHolds == Spec => []SelfCheckTells
<1>1. IInv /\ Tally => SelfCheckTells
  <2> SUFFICES ASSUME IInv, Tally, phase = "loaded", Complete, AggregateCohorts = NumNodes
               PROVE  /\ nodes = Nodes \X {attempt}
                      /\ edges = {EdgeOf(i, attempt, attempt, attempt) : i \in 1 .. Len(Edges)}
    BY DEF SelfCheckTells, EdgeOf
  <2>1. NodesCounted /\ NodesDue = NumNodes
    BY DEF Tally, Going, NodesDue, Early
  <2>2. Own = Nodes \X {attempt} /\ Cardinality(Own) = Cardinality(nodes)
    BY <2>1, NodesComplete DEF Complete, AggregateCohorts
  <2>3. nodes = Nodes \X {attempt}
    <3>1. IsFiniteSet(nodes) /\ Own \in SUBSET nodes
      BY DEF Tally, Shape, Own
    <3> QED BY <2>2, <3>1, FS_Subset
  <2>4. ASSUME NEW e \in edges
        PROVE  \E i \in 1 .. Len(Edges) : e = EdgeOf(i, attempt, attempt, attempt)
    <3>1. PICK i \in 1 .. Len(Edges), by \in 0 .. attempt : \E u, v \in 0 .. by :
            e = EdgeOf(i, by, u, v) /\ (kind = "arangodb" => u = by /\ v = by)
      BY DEF Tally, Shape, IsEdge
    <3>2. PICK u \in 0 .. by, v \in 0 .. by :
            e = EdgeOf(i, by, u, v) /\ (kind = "arangodb" => u = by /\ v = by)
      BY <3>1
    <3>3. CASE kind = "arangodb"
      <4>1. e.by = attempt
        BY <3>3 DEF IInv, OwnInv, Inserting
      <4> QED BY <3>2, <3>3, <4>1 DEF EdgeOf
    <3>4. CASE kind # "arangodb"
      <4>1. e.from \in nodes /\ e.to \in nodes
        BY <3>4 DEF IInv, EndpointInv, Attached
      <4>2. <<Edges[i][1], u>> \in Nodes \X {attempt} /\ <<Edges[i][2], v>> \in Nodes \X {attempt}
        BY <2>3, <3>2, <4>1 DEF EdgeOf
      <4>3. u = attempt /\ v = attempt /\ attempt \in Nat
        BY <4>2 DEF Tally, Shape
      <4>4. by = attempt
        BY <3>2, <4>3
      <4> QED BY <3>2, <4>3, <4>4
    <3> QED BY <3>3, <3>4
  <2>5. ASSUME NEW i \in 1 .. Len(Edges)
        PROVE  EdgeOf(i, attempt, attempt, attempt) \in edges
    <3>1. Stored = 1 .. Len(Edges)
      BY CompleteIsWhole DEF Whole
    <3>2. PICK e \in edges : e.row = i
      BY <3>1 DEF Stored
    <3>3. PICK j \in 1 .. Len(Edges) : e = EdgeOf(j, attempt, attempt, attempt)
      BY <2>4
    <3> QED BY <3>2, <3>3 DEF EdgeOf
  <2> QED BY <2>3, <2>4, <2>5
<1> QED BY <1>1, TallyInvariant, PTL

---------------------------------------------------------------------------
(* Type correctness                                                        *)

\* An error is one of a batch tried in this load.
ErrorsBounded ==
  /\ errors \in [nodes : 0 .. Batches(NumNodes), indexes : 0 .. 1, edges : 0 .. Batches(Len(Edges))]
  /\ Early => errors.nodes = 0
  /\ phase \in {"wipe", "shrink", "nodes", "indexes"} => errors.edges = 0
  /\ phase = "nodes" => errors.nodes <= sent /\ sent <= Batches(NumNodes)
  /\ phase = "edges" => errors.edges <= sent /\ sent <= Batches(Len(Edges))

Bounded == TypeOK /\ ErrorsBounded

LEMMA BatchesTyped ==
  ASSUME size \in BatchSizes
  PROVE  Batches(NumNodes) \in Nat /\ Batches(Len(Edges)) \in Nat
<1>1. size \in Nat \ {0} /\ NumNodes + size - 1 \in Nat /\ Len(Edges) + size - 1 \in Nat
  BY Constants
<1> QED BY <1>1, SMT DEF Batches

LEMMA FormsTyped == kind \in Kinds => Len(Forms) \in Nat
<1> SUFFICES ASSUME kind \in Kinds PROVE Len(Forms) \in Nat
  OBVIOUS
<1> DEFINE all == CASE kind = "neo4j" -> Neo4jForms [] kind = "memgraph" -> MemgraphForms
               [] kind = "cognodb" -> CognoDBForms [] kind = "falkordb" -> FalkorDBForms
               [] kind = "arangodb" -> ArangoForms [] kind = "kuzu" -> KuzuForms
<1>1. kind \in {"neo4j", "memgraph", "cognodb", "falkordb", "arangodb", "kuzu"} /\ MaxIndexes \in Nat
  BY LoadAssumption DEF Bolt
<1>2. all \in {Neo4jForms, MemgraphForms, CognoDBForms, FalkorDBForms, ArangoForms, KuzuForms}
  BY <1>1
<1>3. \A f \in {Neo4jForms, MemgraphForms, CognoDBForms, FalkorDBForms, ArangoForms, KuzuForms} :
        f \in Seq(Nat) /\ Len(f) \in Nat
  <2>1. Neo4jForms \in Seq(Nat) /\ FalkorDBForms \in Seq(Nat)
    BY DEF Neo4jForms, FalkorDBForms
  <2>2. ArangoForms \in Seq(Nat) /\ KuzuForms \in Seq(Nat)
    BY DEF ArangoForms, KuzuForms
  <2>3. CognoDBForms \in Seq(Nat)
    BY DEF CognoDBForms
  <2>4. MemgraphForms \in Seq(Nat)
    BY DEF MemgraphForms
  <2>5. \A f \in Seq(Nat) : Len(f) \in Nat
    OBVIOUS
  <2> QED BY <2>1, <2>2, <2>3, <2>4, <2>5
<1>4. all \in Seq(Nat) /\ Len(all) \in Nat
  BY <1>2, <1>3
<1>5. Forms = SubSeq(all, 1, Smaller(MaxIndexes, Len(all)))
  BY DEF Forms
<1> HIDE DEF all
<1>6. Smaller(MaxIndexes, Len(all)) \in 0 .. Len(all)
  BY <1>1, <1>4 DEF Smaller
<1> QED BY <1>4, <1>5, <1>6

\* The rows are bounded by what was tried, and by themselves when the load is over.
LEMMA RowsBounded ==
  ASSUME Tally', rows \in [nodes : 0 .. NumNodes, edges : 0 .. Len(Edges)],
         ~ Going' => rows' = rows, sent' \in Nat
  PROVE  rows' \in [nodes : 0 .. NumNodes, edges : 0 .. Len(Edges)]
<1>1. CASE ~ Going'
  BY <1>1
<1>2. CASE Going'
  <2>1. size' \in Nat \ {0} /\ NodesCounted' /\ EdgesCounted' /\ rows' \in [nodes : Nat, edges : Nat]
    BY <1>2, LoadAssumption DEF Tally, Shape
  <2>2. NodesDue' \in 0 .. NumNodes /\ EdgesDue' \in 0 .. Len(Edges)
    <3>1. /\ Smaller(sent' * size', NumNodes) \in 0 .. NumNodes
          /\ Smaller(sent' * size', Len(Edges)) \in 0 .. Len(Edges)
      <4>1. \A m, n \in Nat : m * n \in Nat
        BY SMT
      <4>2. sent' * size' \in Nat
        BY <2>1, <4>1
      <4> QED BY <4>2, Constants DEF Smaller
    <3> QED BY <3>1, Constants DEF NodesDue, EdgesDue, Ahead
  <2>3. Cardinality(Own') <= NodesDue' /\ Cardinality(Own') \in Nat
    <3> DEFINE n == NodesDue'
    <3>1. n \in Nat /\ Own' \subseteq (1 .. n) \X {attempt'}
      BY <2>1, <2>2 DEF NodesCounted
    <3>2. IsFiniteSet(1 .. n) /\ Cardinality(1 .. n) = n
      <4> HIDE DEF n
      <4> QED BY <3>1, Prefix
    <3>3. IsFiniteSet((1 .. n) \X {attempt'}) /\ Cardinality((1 .. n) \X {attempt'}) = n
      <4> HIDE DEF n
      <4> QED BY <3>2, Marked
    <3>4. IsFiniteSet(Own') /\ Cardinality(Own') <= n
      BY <3>1, <3>3, FS_Subset
    <3> QED BY <3>4, FS_CardinalityType
  <2>4. rows'.nodes <= NumNodes /\ rows'.edges <= Len(Edges)
    <3>1. rows'.nodes <= Cardinality(Own') /\ rows'.edges <= EdgesDue'
      BY <2>1 DEF NodesCounted, EdgesCounted
    <3>2. rows'.nodes \in Nat /\ rows'.edges \in Nat
      BY <2>1
    <3> QED BY <2>2, <2>3, <3>1, <3>2, Constants
  <2> QED BY <2>1, <2>4, Constants
<1> QED BY <1>1, <1>2

LEMMA InitBounded == Init => Bounded
<1> SUFFICES ASSUME Init PROVE Bounded
  OBVIOUS
<1>1. Batches(NumNodes) \in Nat /\ Batches(Len(Edges)) \in Nat
  BY BatchesTyped DEF Init, LoadInit
<1> QED BY <1>1, Constants, LoadAssumption DEF Init, LoadInit, Bounded, TypeOK, ErrorsBounded, Early

\* Neither wiping nor indexing touches what was counted of nodes and edges.
LEMMA WipeKeepsBounded ==
  ASSUME IInv, Bounded, Shape,
         WipeSome \/ WipeEnds \/ WipeFails \/ Shrink \/ DropGraph \/ Truncate \/ DeleteStore
  PROVE  Bounded'
<1>1. /\ phase \in {"wipe", "shrink"}
      /\ phase' \in {"wipe", "shrink", "raised", Following("wipe")}
      /\ UNCHANGED <<kind, attempt, size, sent, rows, errors, refused>>
      /\ session' \in {"live", session, After("dropped")} \cup {After(e) : e \in Failures}
      /\ batch' \in {batch, Larger(WipeFloor, batch \div 2)}
      /\ indexes' \in {{}, indexes}
  BY DEF WipeSome, WipeEnds, WipeFails, Shrink, DropGraph, Truncate, DeleteStore, given, counts,
         Keep, store
<1>2. session' \in {"live", "defunct"}
  BY <1>1 DEF After, Bounded, TypeOK
<1>3. batch' \in WipeFloor .. WipeBatch
  <2>1. WipeFloor \in Nat /\ WipeBatch \in Nat /\ batch \in WipeFloor .. WipeBatch /\ WipeFloor <= WipeBatch
    BY LoadAssumption DEF Bounded, TypeOK
  <2>2. batch \div 2 \in Nat /\ batch \div 2 <= batch
    BY <2>1
  <2> QED BY <1>1, <2>1, <2>2 DEF Larger
<1>4. UNCHANGED <<Forms, Batches(NumNodes), Batches(Len(Edges))>>
  BY <1>1 DEF Forms, Batches
<1>5. phase' \in {"wipe", "shrink", "raised", "nodes"} \/ (phase' = "indexes" /\ kind' = "kuzu")
  BY <1>1, FollowingIs
<1>6. ErrorsBounded'
  <2>1. size \in BatchSizes /\ sent = 0 /\ errors.nodes = 0
    BY <1>1 DEF Shape, IInv, IndexInv, Bounded, ErrorsBounded, Early
  <2>2. Batches(NumNodes) \in Nat
    BY <2>1, BatchesTyped
  <2> QED BY <1>1, <1>4, <1>5, <2>1, <2>2 DEF Bounded, ErrorsBounded, Early
<1> QED BY <1>1, <1>2, <1>3, <1>4, <1>5, <1>6 DEF Bounded, TypeOK

LEMMA IndexKeepsBounded ==
  ASSUME IInv, Bounded, Shape, CreateIndex \/ FormRefused \/ IndexesEnd \/ WaitFails
  PROVE  Bounded'
<1>1. /\ phase = "indexes"
      /\ phase' = "indexes" \/ (phase' = Following("indexes") /\ sent' = 0)
      /\ UNCHANGED <<kind, attempt, size, rows, batch>>
      /\ session' \in {session, After("dropped")} \cup {After(e) : e \in Failures}
      /\ \/ errors' = errors
         \/ kind = "neo4j" /\ errors' = [errors EXCEPT !.indexes = 1]
  BY DEF CreateIndex, FormRefused, IndexesEnd, WaitFails, NoMoreForms, given, store, counts
<1>2. session' \in {"live", "defunct"}
  BY <1>1 DEF After, Bounded, TypeOK
<1>3. UNCHANGED <<Forms, Batches(NumNodes), Batches(Len(Edges))>>
  BY <1>1 DEF Forms, Batches
<1>4. refused' \cup indexes' \subseteq 1 .. Len(Forms)
  <2>1. Len(Forms) \in Nat /\ sent \in Nat
    BY FormsTyped DEF Bounded, TypeOK, IInv, Typed
  <2>2. refused \cup indexes \subseteq 1 .. Len(Forms)
    BY DEF Bounded, TypeOK
  <2> HIDE DEF Forms
  <2>3. CASE CreateIndex
    BY <2>1, <2>2, <2>3 DEF CreateIndex, counts
  <2>4. CASE FormRefused
    BY <2>1, <2>2, <2>4 DEF FormRefused, NoMoreForms
  <2>5. CASE IndexesEnd \/ WaitFails
    BY <2>2, <2>5 DEF IndexesEnd, WaitFails, store, counts
  <2> QED BY <2>3, <2>4, <2>5
<1>5. phase' \in {"indexes", "nodes", "edges"} /\ (phase' = "nodes" => kind = "kuzu")
  BY <1>1, FollowingIs
<1>6. ErrorsBounded'
  <2>1. size \in BatchSizes /\ Batches(NumNodes) \in Nat /\ Batches(Len(Edges)) \in Nat
    BY BatchesTyped DEF Shape
  <2>2. /\ errors' \in [nodes : 0 .. Batches(NumNodes), indexes : 0 .. 1,
                        edges : 0 .. Batches(Len(Edges))]
        /\ errors'.nodes = errors.nodes /\ errors'.edges = errors.edges
    BY <1>1 DEF Bounded, ErrorsBounded
  <2>3. errors.edges = 0 /\ (kind = "kuzu" => errors.nodes = 0)
    BY <1>1 DEF Bounded, ErrorsBounded, Early
  <2> QED BY <1>1, <1>3, <1>5, <2>1, <2>2, <2>3 DEF ErrorsBounded, Early
<1> QED BY <1>1, <1>2, <1>3, <1>4, <1>5, <1>6 DEF Bounded, TypeOK, ErrorsBounded

\* A batch more was tried, with an error more at most.
LEMMA InsertKeepsBounded ==
  ASSUME IInv, Bounded, Shape, Tally', InsertNodes \/ InsertEdges
  PROVE  Bounded'
<1>1. /\ UNCHANGED <<phase, kind, attempt, size, batch, indexes, refused>>
      /\ session' \in {session} \cup {After(e) : e \in Failures}
      /\ sent \in Nat /\ sent' = sent + 1
      /\ \/ /\ phase = "nodes" /\ sent < Batches(NumNodes)
            /\ errors' = errors \/ errors' = [errors EXCEPT !.nodes = @ + 1]
         \/ /\ phase = "edges" /\ sent < Batches(Len(Edges))
            /\ errors' = errors \/ errors' = [errors EXCEPT !.edges = @ + 1]
  BY DEF InsertNodes, InsertEdges, Acknowledged, Failed, given, IInv, Typed
<1>2. session' \in {"live", "defunct"}
  BY <1>1 DEF After, Bounded, TypeOK
<1>3. UNCHANGED <<Forms, Batches(NumNodes), Batches(Len(Edges))>>
  BY <1>1 DEF Forms, Batches
<1>4. ErrorsBounded'
  <2>1. Batches(NumNodes) \in Nat /\ Batches(Len(Edges)) \in Nat
    BY BatchesTyped DEF Shape
  <2>2. errors \in [nodes : 0 .. Batches(NumNodes), indexes : 0 .. 1, edges : 0 .. Batches(Len(Edges))]
    BY DEF Bounded, ErrorsBounded
  <2>3. CASE phase = "nodes"
    <3>1. errors.nodes <= sent /\ errors.edges = 0
      BY <2>3 DEF Bounded, ErrorsBounded
    <3> QED BY <1>1, <1>3, <2>1, <2>2, <2>3, <3>1 DEF ErrorsBounded, Early
  <2>4. CASE phase = "edges"
    <3>1. errors.edges <= sent
      BY <2>4 DEF Bounded, ErrorsBounded
    <3> QED BY <1>1, <1>3, <2>1, <2>2, <2>4, <3>1 DEF ErrorsBounded, Early
  <2> QED BY <1>1, <2>3, <2>4
<1>5. rows' \in [nodes : 0 .. NumNodes, edges : 0 .. Len(Edges)]
  <2>1. Going' /\ sent' \in Nat
    BY <1>1 DEF Going
  <2> QED BY <2>1, RowsBounded DEF Bounded, TypeOK
<1> QED BY <1>1, <1>2, <1>3, <1>4, <1>5 DEF Bounded, TypeOK, ErrorsBounded

LEMMA PhaseEndKeepsBounded ==
  ASSUME Bounded, Shape, PhaseEnds
  PROVE  Bounded'
<1>1. /\ phase \in {"nodes", "edges"} /\ phase' = Following(phase) /\ sent' = 0
      /\ UNCHANGED <<kind, size, session, batch, indexes, rows, errors, refused>>
  BY DEF PhaseEnds, given, store, counts
<1>2. /\ phase' \in {"indexes", "edges", "loaded"}
      /\ phase' \in {"indexes", "edges"} => phase = "nodes"
      /\ phase' = "indexes" => kind # "kuzu"
  BY <1>1, FollowingIs
<1>3. UNCHANGED <<Forms, Batches(NumNodes), Batches(Len(Edges))>>
  BY <1>1 DEF Forms, Batches
<1>4. Batches(Len(Edges)) \in Nat
  BY BatchesTyped DEF Shape
<1> QED BY <1>1, <1>2, <1>3, <1>4 DEF Bounded, TypeOK, ErrorsBounded, Early

LEMMA AttemptKeepsBounded ==
  ASSUME Bounded, Tally', BeginAttempt \/ AttemptFails \/ AttemptEnds
  PROVE  Bounded'
<1>1. kind' = kind /\ indexes' \in {{}, indexes} /\ Forms' = Forms
  <2>1. kind' = kind /\ indexes' \in {{}, indexes}
    BY DEF BeginAttempt, AttemptFails, AttemptEnds, Begin, Recreated, given, store
  <2> QED BY <2>1 DEF Forms
<1>2. CASE BeginAttempt
  <2>1. /\ phase' = "wipe" /\ session' = "live" /\ batch' = WipeBatch /\ sent' = 0
        /\ rows' = [nodes |-> 0, edges |-> 0]
        /\ errors' = [nodes |-> 0, indexes |-> 0, edges |-> 0] /\ refused' = {}
    BY <1>2 DEF BeginAttempt, Begin
  <2>2. Batches(NumNodes)' \in Nat /\ Batches(Len(Edges))' \in Nat
    <3>1. size' \in BatchSizes
      BY DEF Tally, Shape
    <3>2. \A m \in BatchSizes : (NumNodes + m - 1) \div m \in Nat /\ (Len(Edges) + m - 1) \div m \in Nat
      <4>1. \A a \in Nat : \A m \in Nat \ {0} : (a + m - 1) \div m \in Nat
        <5> SUFFICES ASSUME NEW a \in Nat, NEW m \in Nat \ {0} PROVE (a + m - 1) \div m \in Nat
          OBVIOUS
        <5>1. a + m - 1 \in Nat
          OBVIOUS
        <5> QED BY <5>1, SMT
      <4> QED BY <4>1, Constants, LoadAssumption
    <3> QED BY <3>1, <3>2 DEF Batches
  <2>3. WipeBatch \in WipeFloor .. WipeBatch
    BY LoadAssumption
  <2> QED BY <1>1, <2>1, <2>2, <2>3, Constants DEF Bounded, TypeOK, ErrorsBounded, Early
<1>3. CASE AttemptFails \/ AttemptEnds
  <2>1. phase' = "idle" /\ UNCHANGED <<size, session, batch, rows, errors, refused>>
    BY <1>3 DEF AttemptFails, AttemptEnds, Ready, given, counts
  <2>2. UNCHANGED <<Batches(NumNodes), Batches(Len(Edges))>>
    BY <2>1 DEF Batches
  <2> QED BY <1>1, <2>1, <2>2 DEF Bounded, TypeOK, ErrorsBounded, Early
<1> QED BY <1>2, <1>3

\* The same with the bounds it needs: what a phase has tried of what it has to try.
THEOREM BoundedInvariant == Spec => []Bounded
<1>1. Init => Bounded
  BY InitBounded
<1>2. IInv /\ Tally /\ UnderWay /\ Bounded /\ [Next]_vars => Bounded'
  <2> SUFFICES ASSUME IInv, Tally, UnderWay, Bounded, [Next]_vars PROVE Bounded'
    OBVIOUS
  <2>1. Shape /\ Tally'
    BY StepKeepsTally DEF Tally
  <2>2. CASE LoadStep
    BY <2>1, <2>2, WipeKeepsBounded, IndexKeepsBounded, InsertKeepsBounded, PhaseEndKeepsBounded
       DEF LoadStep, Step
  <2>3. CASE BeginAttempt \/ AttemptFails \/ AttemptEnds
    BY <2>1, <2>3, AttemptKeepsBounded
  <2>4. CASE UNCHANGED loadVars
    <3>1. UNCHANGED <<kind, size, phase, session, batch, indexes, sent, rows, errors, refused>>
      BY <2>4 DEF loadVars, given, store, counts
    <3>2. UNCHANGED <<Forms, Batches(NumNodes), Batches(Len(Edges)), Early>>
      BY <3>1 DEF Forms, Batches, Early
    <3> QED BY <3>1, <3>2 DEF Bounded, TypeOK, ErrorsBounded
  <2>5. CASE WriteJson \/ WriteMarkdown \/ SweepLost \/ Finished \/ UNCHANGED vars
    BY <2>4, <2>5 DEF WriteJson, WriteMarkdown, SweepLost, Finished, vars
  <2> QED BY <2>2, <2>3, <2>5 DEF Next, SweepStep
<1> QED BY <1>1, <1>2, TallyInvariant, PTL DEF Spec

\* Every variable of a load keeps its type; the wipe batch stays between the floor and
\* where it began, and no phase counts more errors than batches or more rows than there are.
THEOREM LoadTypeCorrect == Spec => []TypeOK
<1>1. Bounded => TypeOK
  BY DEF Bounded
<1> QED BY <1>1, BoundedInvariant, PTL

---------------------------------------------------------------------------
(* Termination                                                             *)

\* How far a load is, from before it to after it, whichever way it ends.
Stage == CASE phase = "idle" -> 0
           [] phase \in {"wipe", "shrink"} -> 1
           [] phase = "nodes" -> IF kind = "kuzu" THEN 3 ELSE 2
           [] phase = "indexes" -> IF kind = "kuzu" THEN 2 ELSE 3
           [] phase = "edges" -> 4
           [] OTHER -> 5

\* Within a phase: the wipe batch gets smaller, or the try with it is over, or there is less
\* to delete; a batch more has been tried; an index more, or a form more of this one.
WipesOn ==
  /\ phase \in {"wipe", "shrink"} /\ phase' \in {"wipe", "shrink"}
  /\ \/ batch' \in WipeFloor .. batch - 1
     \/ batch' = batch /\ phase = "wipe" /\ phase' = "shrink"
     \/ batch' = batch /\ phase' = phase /\ Cardinality(nodes') \in 0 .. Cardinality(nodes) - 1
InsertsOn ==
  /\ phase' = phase /\ sent' = sent + 1
  /\ \/ phase = "nodes" /\ sent' <= Batches(NumNodes)
     \/ phase = "edges" /\ sent' <= Batches(Len(Edges))
IndexesOn ==
  /\ phase = "indexes" /\ phase' = phase
  /\ \/ sent' = sent + 1 /\ sent' <= Len(Forms)
     \/ sent' = sent /\ form' = form + 1 /\ form' < Forms[sent + 1]

\* An attempt more is made; or the load of this one is in a later phase; or further in this
\* one.
OneMoreMade == Len(done') = Len(done) + 1 /\ Len(done') <= Attempts
Closer ==
  \/ OneMoreMade
  \/ done' = done /\ Stage' \in Stage + 1 .. 5
  \/ done' = done /\ Stage' = Stage /\ (WipesOn \/ InsertsOn \/ IndexesOn)

SweepRunsDown ==
  [][\/ sweep = "running" /\ sweep' \in {"json", "lost"}
     \/ sweep = "json" /\ sweep' \in {"written", "lost"}
     \/ sweep = "running" /\ sweep' = sweep /\ Closer]_vars

\* A statement is tried again with a smaller batch only above the floor.
ShrinkInv == phase = "shrink" => batch > WipeFloor

LEMMA ShrinkInvariant == Spec => []ShrinkInv
<1>1. Init => ShrinkInv
  BY DEF Init, LoadInit, ShrinkInv
<1>2. ShrinkInv /\ [Next]_vars => ShrinkInv'
  <2> SUFFICES ASSUME ShrinkInv, [Next]_vars, phase' = "shrink" PROVE batch' > WipeFloor
    BY DEF ShrinkInv
  <2>1. CASE LoadStep /\ WipeFails
    BY <2>1 DEF WipeFails
  <2>2. CASE LoadStep /\ ~ WipeFails
    <3>1. ~ (WipeSome \/ Shrink \/ CreateIndex \/ FormRefused \/ InsertNodes \/ InsertEdges)
      BY DEF WipeSome, Shrink, CreateIndex, FormRefused, InsertNodes, InsertEdges
    <3>2. \A p \in {"wipe", "indexes", "nodes", "edges"} : Following(p) # "shrink"
      BY FollowingIs
    <3> QED BY <2>2, <3>1, <3>2 DEF LoadStep, Step, WipeEnds, DropGraph, Truncate, DeleteStore,
               IndexesEnd, WaitFails, PhaseEnds
  <2>3. CASE BeginAttempt \/ AttemptFails \/ AttemptEnds
    BY <2>3 DEF BeginAttempt, Begin, AttemptFails, AttemptEnds, Ready
  <2>4. CASE UNCHANGED <<phase, batch>>
    BY <2>4 DEF ShrinkInv
  <2>5. CASE WriteJson \/ WriteMarkdown \/ SweepLost \/ Finished \/ UNCHANGED vars
    BY <2>4, <2>5 DEF WriteJson, WriteMarkdown, SweepLost, Finished, vars, loadVars
  <2> QED BY <2>1, <2>2, <2>3, <2>5 DEF Next, SweepStep
<1> QED BY <1>1, <1>2, PTL DEF Spec

\* Every statement of the wipe of a Cypher engine brings it closer to its end.
LEMMA WipeRunsDown ==
  ASSUME Bounded, Shape, ShrinkInv, WipeSome \/ WipeFails \/ Shrink, phase' # "raised"
  PROVE  WipesOn
<1>1. /\ WipeFloor \in Nat \ {0} /\ batch \in WipeFloor .. WipeBatch /\ WipeBatch \in Nat
      /\ IsFiniteSet(nodes)
  BY LoadAssumption DEF Bounded, TypeOK, Shape
<1>2. CASE WipeSome
  <2>1. /\ phase = "wipe" /\ phase' = phase /\ batch' = batch /\ nodes # {}
        /\ nodes' \in Deleted
    BY <1>2 DEF WipeSome, Keep
  <2>2. Cardinality(nodes) \in Nat \ {0}
    BY <1>1, <2>1, FS_CardinalityType, FS_EmptySet
  <2>3. Cardinality(nodes') = Larger(0, Cardinality(nodes) - batch)
    BY <2>1 DEF Deleted
  <2>4. Cardinality(nodes') \in 0 .. Cardinality(nodes) - 1
    BY <1>1, <2>2, <2>3 DEF Larger
  <2> QED BY <2>1, <2>4 DEF WipesOn
<1>3. CASE WipeFails
  BY <1>3 DEF WipeFails, WipesOn
<1>4. CASE Shrink
  <2>1. /\ phase = "shrink" /\ phase' = "wipe" /\ batch > WipeFloor
        /\ batch' = Larger(WipeFloor, batch \div 2)
    BY <1>4 DEF Shrink, ShrinkInv
  <2>2. batch \div 2 \in Nat /\ batch \div 2 < batch
    BY <1>1
  <2>3. batch' \in WipeFloor .. batch - 1
    BY <1>1, <2>1, <2>2 DEF Larger
  <2> QED BY <2>1, <2>3 DEF WipesOn
<1> QED BY <1>2, <1>3, <1>4

\* And so does every other statement: on in its phase, or to the next one.
LEMMA LoadRunsDown ==
  ASSUME IInv, Bounded, Shape, ShrinkInv, Step
  PROVE  Stage' \in Stage + 1 .. 5 \/ (Stage' = Stage /\ (WipesOn \/ InsertsOn \/ IndexesOn))
<1>0. kind' = kind
  BY DEF Step, WipeSome, WipeEnds, WipeFails, Shrink, DropGraph, Truncate, DeleteStore,
         CreateIndex, FormRefused, IndexesEnd, WaitFails, InsertNodes, InsertEdges, PhaseEnds, given
<1>1. CASE WipeSome \/ WipeFails \/ Shrink
  <2>1. phase \in {"wipe", "shrink"} /\ phase' \in {"wipe", "shrink", "raised"}
    BY <1>1 DEF WipeSome, WipeFails, Shrink
  <2>2. Stage = 1 /\ Stage' = IF phase' = "raised" THEN 5 ELSE 1
    BY <2>1 DEF Stage
  <2> QED BY <1>1, <2>1, <2>2, WipeRunsDown
<1>2. CASE WipeEnds \/ DropGraph \/ Truncate \/ DeleteStore
  <2>1. phase = "wipe" /\ phase' \in {Following("wipe"), "raised"}
    BY <1>2 DEF WipeEnds, DropGraph, Truncate, DeleteStore
  <2> QED BY <1>0, <2>1, FollowingIs DEF Stage
<1>3. CASE IndexesEnd \/ WaitFails \/ PhaseEnds
  <2>1. phase \in {"indexes", "nodes", "edges"} /\ phase' = Following(phase)
    BY <1>3 DEF IndexesEnd, WaitFails, PhaseEnds
  <2> QED BY <1>0, <2>1, FollowingIs DEF Stage
<1>4. CASE InsertNodes \/ InsertEdges
  <2>1. /\ phase' = phase /\ sent' = sent + 1 /\ sent \in Nat /\ size' = size
        /\ \/ phase = "nodes" /\ sent < Batches(NumNodes)
           \/ phase = "edges" /\ sent < Batches(Len(Edges))
    BY <1>4 DEF InsertNodes, InsertEdges, Acknowledged, Failed, given, IInv, Typed
  <2>2. Batches(NumNodes) \in Nat /\ Batches(Len(Edges)) \in Nat
    BY BatchesTyped DEF Shape
  <2>3. InsertsOn
    BY <2>1, <2>2 DEF InsertsOn
  <2> QED BY <1>0, <2>1, <2>3 DEF Stage
<1>5. CASE CreateIndex \/ FormRefused
  <2>1. /\ phase = "indexes" /\ phase' = phase /\ sent \in Nat /\ sent < Len(Forms)
        /\ \/ sent' = sent + 1
           \/ sent' = sent /\ form' = form + 1 /\ form' < Forms[sent + 1]
    BY <1>5 DEF CreateIndex, FormRefused, IndexDone, NoMoreForms, IInv, Typed
  <2>2. Len(Forms) \in Nat
    BY FormsTyped DEF IInv, Typed
  <2>3. IndexesOn
    BY <2>1, <2>2 DEF IndexesOn
  <2> QED BY <1>0, <2>1, <2>3 DEF Stage
<1> QED BY <1>1, <1>2, <1>3, <1>4, <1>5 DEF Step

\* The adaptive wipe cannot go on for ever, nor can anything else: whatever fails and
\* however often, every step of the sweep leaves less to do, in whole numbers.  It is what
\* SweepEnds rests on; that a step can be taken is what no deadlock means.
THEOREM SweepRunsDownHolds == Spec => SweepRunsDown
<1>1. IInv /\ Tally /\ UnderWay /\ Bounded /\ ShrinkInv /\ [Next]_vars =>
        [\/ sweep = "running" /\ sweep' \in {"json", "lost"}
         \/ sweep = "json" /\ sweep' \in {"written", "lost"}
         \/ sweep = "running" /\ sweep' = sweep /\ Closer]_vars
  <2> SUFFICES ASSUME IInv, Tally, UnderWay, Bounded, ShrinkInv, Next, ~ Finished
               PROVE  \/ sweep = "running" /\ sweep' \in {"json", "lost"}
                      \/ sweep = "json" /\ sweep' \in {"written", "lost"}
                      \/ sweep = "running" /\ sweep' = sweep /\ Closer
    BY DEF Finished
  <2>1. CASE LoadStep
    BY <2>1, LoadRunsDown DEF LoadStep, sweepVars, Closer, Tally
  <2>2. CASE BeginAttempt
    <3>1. /\ phase = "idle" /\ phase' = "wipe" /\ UNCHANGED <<done, sweep>> /\ sweep = "running"
      BY <2>2 DEF BeginAttempt, Begin, Ready, sweepVars
    <3> QED BY <3>1 DEF Closer, Stage
  <2>3. CASE AttemptFails \/ AttemptEnds
    <3>1. /\ sweep = "running" /\ sweep' = sweep /\ Len(done) < Attempts
          /\ \E a : done' = Append(done, a)
      BY <2>3 DEF AttemptFails, AttemptEnds, Ready, UnderWay
    <3>2. Attempts \in Nat
      <4>1. \A m, n \in Nat : m * n \in Nat
        BY SMT
      <4> QED BY <4>1, CalibrateAssumption DEF Attempts
    <3>3. Len(done) \in Nat /\ Len(done') = Len(done) + 1
      BY <3>1 DEF Tally, Shape
    <3> QED BY <3>1, <3>2, <3>3 DEF Closer, OneMoreMade
  <2>4. CASE WriteJson \/ WriteMarkdown \/ SweepLost
    BY <2>4 DEF WriteJson, WriteMarkdown, SweepLost, Ready
  <2> QED BY <2>1, <2>2, <2>3, <2>4 DEF Next, SweepStep
<1> QED BY <1>1, TallyInvariant, BoundedInvariant, ShrinkInvariant, PTL DEF Spec, SweepRunsDown
=============================================================================
