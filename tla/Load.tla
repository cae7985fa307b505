-------------------------------- MODULE Load --------------------------------
(***************************************************************************)
(* Adapter.load on every engine.  The store of an earlier load is wiped,   *)
(* each engine in its own way: a Cypher engine in batches, halved while it *)
(* runs out of memory; FalkorDB by dropping the graph; ArangoDB by         *)
(* truncating collections; Kuzu by deleting the store file.  Then nodes,   *)
(* indexes and edges are sent, phase by phase (Kuzu, which has a schema,   *)
(* creates it first).  What fails is recorded, and the load goes on.       *)
(***************************************************************************)
EXTENDS Integers, FiniteSets, Sequences

CONSTANTS Kinds,      \* the adapters to load with
          NumNodes,   \* nodes of the prepared graph, in load order
          Edges,      \* its edges, a sequence of pairs of nodes
          BatchSizes, \* the values of workloads.batch_size
          Leftovers,  \* sets of nodes that an earlier run may have left in the store
          WipeBatch,  \* WIPE_BATCH
          WipeFloor,  \* WIPE_BATCH_FLOOR
          MaxIndexes  \* bound: of an adapter's indexes, the first so many

Nodes == 1 .. NumNodes
Bolt == {"neo4j", "memgraph", "cognodb"}

ASSUME LoadAssumption ==
  /\ Kinds \subseteq Bolt \cup {"falkordb", "arangodb", "kuzu"}
  /\ NumNodes \in Nat
  /\ Edges \in Seq(Nodes \X Nodes)
  /\ BatchSizes \subseteq Nat \ {0}
  /\ \A left \in Leftovers : IsFiniteSet(left) /\ left \subseteq Nat
  /\ WipeFloor \in Nat \ {0}
  /\ WipeBatch \in Nat
  /\ WipeBatch >= WipeFloor
  /\ MaxIndexes \in Nat

VARIABLES
  kind,       \* the adapter
  attempt,    \* which load of this store it is: a node is <<id, the load that sent it>>
  size,       \* the batch size of this load
  phase,      \* idle; wipe (or shrink), nodes, indexes, edges; loaded, or raised out of load()
  session,    \* the Bolt session of the thread: live, or defunct since its connection died
  batch,      \* the wipe batch, reported as wipe_batch_used
  nodes,      \* the nodes in the store
  edges,      \* the edges in the store
  indexes,    \* the indexes (for Kuzu, the tables) in the store, by their position in the DDL
  sent,       \* batches of the current phase, or indexes, already tried
  form,       \* forms of the current index that were refused
  rows,       \* LoadPhase.rows of the nodes and edges phases
  errors,     \* per phase, how many errors it recorded
  refused     \* index_failures: the indexes that created_indexes reports as not made

given == <<kind, attempt, size>>
store == <<nodes, edges, indexes>>
counts == <<rows, errors, refused>>
loadVars == <<given, phase, session, batch, store, sent, form, counts>>

\* Definitions whose name begins with Slip are the next definition with a mistake in
\* it, as in ReadWorkload.

\* The exceptions a statement raises, as is_resource_error sorts them: it knows an
\* exhausted heap and a connection dropped on the way out.
Raised == {"query", "memory", "dropped", "unreachable"}
IsResourceError(e) == e \in {"memory", "dropped"}

\* On a Bolt session whose connection died every statement fails, until
\* reset_connection drops the session.
Live == session = "live"
Failures == IF Live THEN Raised ELSE {"dropped"}
After(e) == IF e = "dropped" /\ kind \in Bolt THEN "defunct" ELSE session

\* The rows of the n-th batch out of total; the last batch may be short.
Smaller(a, b) == IF a < b THEN a ELSE b
Larger(a, b) == IF a > b THEN a ELSE b
BatchOf(n, total) == (n - 1) * size + 1 .. Smaller(n * size, total)
Batches(total) == (total + size - 1) \div size

\* wipe -> nodes -> indexes -> edges; Kuzu cannot insert into a table that is not there.
Following(p) ==
  IF kind = "kuzu"
  THEN CASE p = "wipe" -> "indexes" [] p = "indexes" -> "nodes"
         [] p = "nodes" -> "edges" [] p = "edges" -> "loaded"
  ELSE CASE p = "wipe" -> "nodes" [] p = "nodes" -> "indexes"
         [] p = "indexes" -> "edges" [] p = "edges" -> "loaded"

LoadInit ==
  /\ kind \in Kinds
  /\ attempt = 0
  /\ size \in BatchSizes
  /\ phase = "idle"
  /\ session = "live"
  /\ batch = WipeBatch
  /\ \E left \in Leftovers : nodes = left \X {0}
  /\ edges = {} /\ indexes = {}
  /\ sent = 0 /\ form = 0
  /\ rows = [nodes |-> 0, edges |-> 0]
  /\ errors = [nodes |-> 0, indexes |-> 0, edges |-> 0]
  /\ refused = {}

\* A new adapter, connected, and load() entered: a new LoadStats, no earlier failures.
Begin(batchSize) ==
  /\ attempt' = attempt + 1
  /\ size' = batchSize
  /\ phase' = "wipe"
  /\ session' = "live"
  /\ batch' = WipeBatch
  /\ sent' = 0 /\ form' = 0
  /\ rows' = [nodes |-> 0, edges |-> 0]
  /\ errors' = [nodes |-> 0, indexes |-> 0, edges |-> 0]
  /\ refused' = {}
  /\ UNCHANGED kind

---------------------------------------------------------------------------
(* wipe() of a Cypher engine                                               *)

Deleted == {left \in SUBSET nodes :
              Cardinality(left) = Larger(0, Cardinality(nodes) - batch)}

\* DETACH: a deleted node takes its edges with it.
Keep(left) ==
  /\ nodes' = left
  /\ edges' = {e \in edges : {e.from, e.to} \subseteq left}
  /\ UNCHANGED indexes

\* One DETACH DELETE of at most batch nodes; the loop ends when it deletes none.
WipeSome ==
  /\ phase = "wipe" /\ kind \in Bolt /\ Live
  /\ nodes # {}
  /\ \E left \in Deleted : Keep(left)
  /\ UNCHANGED <<given, phase, session, batch, sent, form, counts>>

WipeEnds ==
  /\ phase = "wipe" /\ kind \in Bolt /\ Live
  /\ nodes = {}
  /\ phase' = Following("wipe")
  /\ UNCHANGED <<given, session, batch, store, sent, form, counts>>

SlipWipeFails ==  \* no floor to give up at
  /\ phase = "wipe" /\ kind \in Bolt
  /\ \E e \in Failures :
       /\ phase' = IF IsResourceError(e) THEN "shrink" ELSE "raised"
       /\ session' = After(e)
  /\ \E left \in {nodes} \cup Deleted : Keep(left)
  /\ UNCHANGED <<given, batch, sent, form, counts>>

\* The statement raises, having deleted or not.  An error other than a resource
\* error, or any error at the floor, is raised out of wipe.
WipeFails ==
  /\ phase = "wipe" /\ kind \in Bolt
  /\ \E e \in Failures :
       /\ phase' = IF IsResourceError(e) /\ batch > WipeFloor THEN "shrink" ELSE "raised"
       /\ session' = After(e)
  /\ \E left \in IF Live THEN {nodes} \cup Deleted ELSE {nodes} : Keep(left)
  /\ UNCHANGED <<given, batch, sent, form, counts>>

SlipShrink ==  \* halves without the floor
  /\ phase = "shrink"
  /\ session' = "live"
  /\ batch' = batch \div 2
  /\ phase' = "wipe"
  /\ UNCHANGED <<given, store, sent, form, counts>>

\* reset_connection, and another try with half the batch.
Shrink ==
  /\ phase = "shrink"
  /\ session' = "live"
  /\ batch' = Larger(WipeFloor, batch \div 2)
  /\ phase' = "wipe"
  /\ UNCHANGED <<given, store, sent, form, counts>>

---------------------------------------------------------------------------
(* wipe() of the other engines                                             *)

Emptied == nodes' = {} /\ edges' = {}

\* FalkorDB drops the graph and what indexes it.  Whatever the statement raises is
\* taken for a graph that does not exist yet; selecting it again may still raise.
DropGraph ==
  /\ phase = "wipe" /\ kind = "falkordb"
  /\ (Emptied /\ indexes' = {}) \/ UNCHANGED store
  /\ phase' \in {Following("wipe"), "raised"}
  /\ UNCHANGED <<given, session, batch, sent, form, counts>>

SlipTruncate ==  \* the edge collection is forgotten
  /\ phase = "wipe" /\ kind = "arangodb"
  /\ nodes' = {} /\ UNCHANGED <<edges, indexes>>
  /\ phase' = Following("wipe")
  /\ UNCHANGED <<given, session, batch, sent, form, counts>>

\* ArangoDB truncates its collections one after another, the edges first.
Truncate ==
  /\ phase = "wipe" /\ kind = "arangodb"
  /\ \/ Emptied /\ phase' \in {Following("wipe"), "raised"}
     \/ nodes' = nodes /\ edges' \in {edges, {}} /\ phase' = "raised"
  /\ UNCHANGED <<given, session, batch, indexes, sent, form, counts>>

\* Kuzu closes the store, deletes its files and opens a new one.
DeleteStore ==
  /\ phase = "wipe" /\ kind = "kuzu"
  /\ \/ Emptied /\ indexes' = {} /\ phase' \in {Following("wipe"), "raised"}
     \/ UNCHANGED store /\ phase' = "raised"
  /\ UNCHANGED <<given, session, batch, sent, form, counts>>

---------------------------------------------------------------------------
(* create_indexes                                                          *)

\* Per index, or table, in the order of the DDL: how many forms of it are tried.
Neo4jForms == <<1, 1, 1, 1>>        \* unique key; id; cohort, degree; bench tag
MemgraphForms == <<1, 1, 1, 1, 1>>  \* unique key; key; id; cohort; bench tag
CognoDBForms == <<2, 2, 3, 2>>      \* Neo4j's 5 form and Memgraph's; a simpler index
FalkorDBForms == <<1, 1, 1, 1>>     \* key; id; cohort, degree; bench tag
ArangoForms == <<1, 1, 1, 1>>       \* unique key; cohort, degree; bench tag, and edge tag
KuzuForms == <<1, 1, 1, 1>>         \* node table; relationship table; those of the bench

Forms ==
  LET all == CASE kind = "neo4j" -> Neo4jForms [] kind = "memgraph" -> MemgraphForms
               [] kind = "cognodb" -> CognoDBForms [] kind = "falkordb" -> FalkorDBForms
               [] kind = "arangodb" -> ArangoForms [] kind = "kuzu" -> KuzuForms
  IN  SubSeq(all, 1, Smaller(MaxIndexes, Len(all)))

IndexDone == sent' = sent + 1 /\ form' = 0

\* The form is carried out, or refused because the index is already present.
CreateIndex ==
  /\ phase = "indexes" /\ Live
  /\ sent < Len(Forms)
  /\ indexes' = indexes \cup {sent + 1}
  /\ IndexDone
  /\ UNCHANGED <<given, phase, session, batch, nodes, edges, counts>>

SlipNoMoreForms == IndexDone /\ UNCHANGED refused  \* returns None and records nothing

NoMoreForms == IndexDone /\ refused' = refused \cup {sent + 1}

\* The form raises, carried out or not: the next form is tried, if there is one.
FormRefused ==
  /\ phase = "indexes"
  /\ sent < Len(Forms)
  /\ \E e \in Failures : session' = After(e)
  /\ indexes' \in IF Live THEN {indexes, indexes \cup {sent + 1}} ELSE {indexes}
  /\ IF form + 1 < Forms[sent + 1]
     THEN form' = form + 1 /\ UNCHANGED <<sent, refused>>
     ELSE NoMoreForms
  /\ UNCHANGED <<given, phase, batch, nodes, edges, rows, errors>>

\* Neo4j and CognoDB then wait for the indexes and ask which there are, which may
\* find the connection dead.
IndexesEnd ==
  /\ phase = "indexes" /\ sent = Len(Forms)
  /\ session' \in IF kind \in {"neo4j", "cognodb"} THEN {session, After("dropped")} ELSE {session}
  /\ phase' = Following("indexes") /\ sent' = 0
  /\ kind = "neo4j" => Live
  /\ UNCHANGED <<given, batch, store, form, counts>>

\* Neo4j's wait is not guarded: load() records the error, and created_indexes is [].
WaitFails ==
  /\ phase = "indexes" /\ sent = Len(Forms) /\ kind = "neo4j"
  /\ \E e \in Failures : session' = After(e)
  /\ errors' = [errors EXCEPT !.indexes = 1]
  /\ refused' = {}
  /\ phase' = Following("indexes") /\ sent' = 0
  /\ UNCHANGED <<given, batch, store, form, rows>>

---------------------------------------------------------------------------
(* The node and the edge phase.                                            *)

\* A batch is one statement, carried out entirely or not at all.  An acknowledged
\* batch adds its length to rows; one that raises adds an error, and may have been
\* carried out nevertheless.
Acknowledged(name, n) ==
  /\ sent' = sent + 1
  /\ rows' = [rows EXCEPT ![name] = @ + n]
  /\ UNCHANGED <<session, errors>>

SlipFailed(name) ==  \* caught and forgotten
  /\ sent' = sent + 1
  /\ rows' = [rows EXCEPT ![name] = Smaller(@ + size, NumNodes)]
  /\ UNCHANGED <<session, errors>>

Failed(name) ==
  /\ sent' = sent + 1
  /\ \E e \in Failures : session' = After(e)
  /\ errors' = [errors EXCEPT ![name] = @ + 1]
  /\ UNCHANGED rows

\* Kuzu refuses rows for a table that could not be created.
Accepts(tables) == Live /\ (kind = "kuzu" => tables \subseteq indexes)

InsertNodes ==
  /\ phase = "nodes"
  /\ sent < Batches(NumNodes)
  /\ LET some == BatchOf(sent + 1, NumNodes)
         more == nodes \cup (some \X {attempt})
     IN  \/ Accepts({1}) /\ nodes' = more /\ Acknowledged("nodes", Cardinality(some))
         \/ nodes' \in (IF Accepts({1}) THEN {nodes, more} ELSE {nodes}) /\ Failed("nodes")
  /\ UNCHANGED <<given, phase, batch, edges, indexes, form, refused>>

\* MATCH both endpoints by id, then CREATE: an edge without its endpoints is skipped
\* silently, and counted.  Were a graph of an earlier load still there, every node with
\* the id would match.
SlipMatched(some) ==  \* a dangling edge creates its endpoint (MERGE)
  {[row |-> i, by |-> attempt, from |-> <<Edges[i][1], attempt>>,
    to |-> <<Edges[i][2], attempt>>] : i \in some}

Matched(some) ==
  UNION {{[row |-> i, by |-> attempt, from |-> a, to |-> b] :
            a \in {n \in nodes : n[1] = Edges[i][1]},
            b \in {n \in nodes : n[1] = Edges[i][2]}} : i \in some}

\* ArangoDB makes up the keys of both documents, and looks for neither.
Addressed(some) ==
  {[row |-> i, by |-> attempt, from |-> <<Edges[i][1], attempt>>,
    to |-> <<Edges[i][2], attempt>>] : i \in some}

InsertEdges ==
  /\ phase = "edges"
  /\ sent < Batches(Len(Edges))
  /\ LET some == BatchOf(sent + 1, Len(Edges))
         more == edges \cup IF kind = "arangodb" THEN Addressed(some) ELSE Matched(some)
     IN  \/ Accepts({1, 2}) /\ edges' = more /\ Acknowledged("edges", Cardinality(some))
         \/ edges' \in (IF Accepts({1, 2}) THEN {edges, more} ELSE {edges}) /\ Failed("edges")
  /\ UNCHANGED <<given, phase, batch, nodes, indexes, form, refused>>

\* Once the batches of a phase are exhausted, the next phase begins.
PhaseEnds ==
  /\ \/ phase = "nodes" /\ sent = Batches(NumNodes)
     \/ phase = "edges" /\ sent = Batches(Len(Edges))
  /\ phase' = Following(phase) /\ sent' = 0
  /\ UNCHANGED <<given, session, batch, store, form, counts>>

Step == \/ WipeSome \/ WipeEnds \/ WipeFails \/ Shrink
        \/ DropGraph \/ Truncate \/ DeleteStore
        \/ CreateIndex \/ FormRefused \/ IndexesEnd \/ WaitFails
        \/ InsertNodes \/ InsertEdges \/ PhaseEnds

\* The self-checking aggregation, which sums over the groups of the nodes in the store.
SlipAggregateCohorts == Cardinality({n[1] : n \in nodes})  \* count(DISTINCT a.id)
AggregateCohorts == Cardinality(nodes)

\* What this load has in the store; what it reports, and what it should have stored.
Own == {n \in nodes : n[2] = attempt}
Stored == {e.row : e \in {x \in edges : x.by = attempt}}
Complete == rows.nodes = NumNodes /\ rows.edges = Len(Edges)
Whole == Own = Nodes \X {attempt} /\ Stored = 1 .. Len(Edges)

---------------------------------------------------------------------------
(* Properties.                                                             *)

TypeOK ==
  /\ kind \in Kinds
  /\ phase \in {"idle", "wipe", "shrink", "nodes", "indexes", "edges", "loaded", "raised"}
  /\ session \in {"live", "defunct"}
  /\ batch \in WipeFloor .. WipeBatch
  /\ rows \in [nodes : 0 .. NumNodes, edges : 0 .. Len(Edges)]
  /\ errors \in [nodes : 0 .. Batches(NumNodes), indexes : 0 .. 1,
                 edges : 0 .. Batches(Len(Edges))]
  /\ refused \cup indexes \subseteq 1 .. Len(Forms)

Inserting == phase \in {"nodes", "indexes", "edges", "loaded"}

\* What the benchmark measures is its own graph: from the first insert on, nothing of
\* an earlier load is in the store.  FalkorDB, whose wipe swallows every error, does
\* not promise this (SelfCheckTells says what does).
OnlyThisGraph ==
  Inserting /\ kind # "falkordb" => nodes = Own /\ \A e \in edges : e.by = attempt

\* The ingest rates are computed from rows that are in the store.  For edges this
\* needs the nodes to be complete: an edge that lost an endpoint is counted too.
\* And no edge is ever in the store without its endpoints, except on ArangoDB.
RowsAreStored ==
  /\ Inserting => rows.nodes <= Cardinality(Own)
  /\ Inserting /\ (errors.nodes = 0 \/ kind = "arangodb") => rows.edges <= Cardinality(Stored)
  /\ kind # "arangodb" => \A e \in edges : {e.from, e.to} \subseteq nodes

\* A load without a recorded error is a complete one, every row stored and counted,
\* whatever failed silently along the way.
CleanLoadIsComplete ==
  phase = "loaded" /\ errors.nodes = 0 /\ errors.edges = 0 => Complete /\ Whole

\* Where the rows add up and the group-by returns the node count of the manifest, the
\* store holds this graph, once, and nothing else, edges included: a graph that
\* FalkorDB failed to drop does not get past it, whatever of either graph was lost.
SelfCheckTells ==
  phase = "loaded" /\ Complete /\ AggregateCohorts = NumNodes =>
       /\ nodes = Nodes \X {attempt}
       /\ edges = {[row |-> i, by |-> attempt, from |-> <<Edges[i][1], attempt>>,
                    to |-> <<Edges[i][2], attempt>>] : i \in 1 .. Len(Edges)}

\* "Indexes actually created" hides nothing: an index that is missing when the edges
\* are loaded is one of the failures reported, or the whole phase is reported as one.
IndexesAccounted ==
  phase \in {"edges", "loaded"} =>
    1 .. Len(Forms) \ indexes \subseteq refused \/ errors.indexes = 1
===========================================================================
