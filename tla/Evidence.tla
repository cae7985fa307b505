------------------------------ MODULE Evidence ------------------------------
(***************************************************************************)
(* From the prepared dataset to the published document: graphbench run     *)
(* reads the manifest when it starts and the two CSV files when each       *)
(* platform is loaded, while a dataset command may be rewriting them;      *)
(* verify.compare decides the exit status, and graphbench report makes     *)
(* RESULTS.md and the block in README.md of what the run left.  How one    *)
(* platform is run, and what a kill leaves, is in Runner.                  *)
(***************************************************************************)
EXTENDS Dataset, Verify, FiniteSets

CONSTANTS Platforms,   \* platforms.yaml, in the order they are run
          Required,    \* per platform, the variables it refers to without a default
          Envs,        \* sets of variables that have a value
          CommandLines, \* values of --platforms, as sets of ids
          Hops,        \* workloads.hops
          Dialects,    \* how an engine may answer: per depth, the values from a start
                       \* node (a set, empty if it gave none), and whether it answers
                       \* the group-by and the relationship count
          Order,       \* the nodes that a preparation writes
          Size,        \* and the edges
          Listed       \* the document lists the first so many failures of a kind

ASSUME EvidenceAssumption ==
  /\ Platforms \subseteq Nat
  /\ Hops \subseteq Nat /\ IsFiniteSet(Hops)
  /\ Dialects \subseteq [hops : [Hops -> SUBSET Nat], groupby : BOOLEAN, relcount : BOOLEAN]
  /\ Nothing \notin Nat
  /\ Order \in [Preparations -> Nat] /\ Size \in [Preparations -> Nat]
  /\ Listed \in Nat \ {0}

VARIABLES
  env,       \* the variables that have a value
  at,        \* where the run is: idle, manifest, starts, platform, nodes, edges, reads; done
  asked,     \* the ids asked for
  todo,      \* the usable platforms that have yet to finish
  graph,     \* the preparation that the manifest it has read is of
  held,      \* the current platform's store: its nodes, of which preparation, and its
             \* edges; and whether an error was recorded
  records,   \* the records written
  summary,   \* run.json
  exit,      \* the exit status, Nothing before the run ends
  document   \* RESULTS.md and the block in README.md

runVars == <<env, at, asked, todo, graph, held, records, summary, exit, document>>
vars == <<datasetVars, runVars>>

Empty == [of |-> Nothing, nodes |-> 0, edges |-> 0, errors |-> FALSE]

Init ==
  /\ DatasetInit
  /\ env \in Envs
  /\ at = "idle"
  /\ asked = {} /\ todo = {}
  /\ graph = Nothing
  /\ held = Empty
  /\ records = {}
  /\ summary = Nothing /\ exit = Nothing /\ document = Nothing

---------------------------------------------------------------------------
(* cmd_run                                                                 *)

\* A variable that is set to nothing is missing like one that is not set.
Missing(p) == {v \in Required[p] : v \notin env}
Usable(ids) == {p \in ids \cap Platforms : Missing(p) = {}}

\* The process is gone, and its variables with it.
Ends(status) == at' = "done" /\ exit' = status /\ todo' = {} /\ graph' = Nothing

\* Unknown ids, or nothing usable: the run ends before it has written anything.
StartRun ==
  /\ at = "idle"
  /\ \E ids \in CommandLines :
       /\ asked' = ids
       /\ IF ~(ids \subseteq Platforms) THEN Ends(2)
          ELSE IF Usable(ids) = {} THEN Ends(1)
          ELSE at' = "manifest" /\ todo' = Usable(ids) /\ UNCHANGED <<graph, exit>>
  /\ UNCHANGED <<env, held, records, summary, document, datasetVars>>

\* datasets.load reads two documents; one that is not there, or torn, raises.
ReadManifest ==
  /\ at = "manifest"
  /\ IF Readable("manifest")
     THEN /\ graph' = files["manifest"].of
          /\ at' = "starts" /\ UNCHANGED <<todo, exit>>
     ELSE Ends(1)
  /\ UNCHANGED <<env, asked, held, records, summary, document, datasetVars>>

ReadStarts ==
  /\ at = "starts"
  /\ IF Readable("starts")
     THEN at' = "platform" /\ UNCHANGED <<todo, graph, exit>>
     ELSE Ends(1)
  /\ UNCHANGED <<env, asked, held, records, summary, document, datasetVars>>

---------------------------------------------------------------------------
(* run_all and run_platform                                                *)

Current == CHOOSE p \in todo : \A q \in todo : p <= q

\* The record is written as soon as the platform is done.  store is not in it: it is
\* what the platform held when it was asked (nothing, if it was not).
Finish(reads, store) ==
  /\ records' = records \cup {[platform |-> Current, reads |-> reads,
                               errors |-> store.errors,
                               store |-> <<store.nodes, store.edges>>]}
  /\ todo' = todo \ {Current}
  /\ held' = Empty
  /\ at' = "platform"

NoReads == [w \in {} |-> Nothing]

BeginPlatform ==
  /\ at = "platform" /\ todo # {}
  /\ at' = "nodes"
  /\ UNCHANGED <<env, asked, todo, graph, held, records, summary, exit, document, datasetVars>>

\* Whatever raises: connect, load, a workload, or a CSV file that is not there or has
\* an incomplete last line.  The record has the error, and no reads.
PlatformFails ==
  /\ at \in {"nodes", "edges", "reads"}
  /\ Finish(NoReads, [Empty EXCEPT !.errors = TRUE])
  /\ UNCHANGED <<env, asked, graph, summary, exit, document, datasetVars>>

\* A file is streamed.  Batches may be lost, with an error; and a file that is torn, or
\* is written meanwhile, may end early without one.
Streamed(f, count) ==
  {s \in [rows : 0 .. count[files[f].of], error : BOOLEAN] :
     \/ s.rows = count[files[f].of] \/ s.error
     \/ ~Readable(f) \/ Writing}

LoadNodes ==
  /\ at = "nodes"
  /\ files["nodes"] # Nothing
  /\ \E s \in Streamed("nodes", Order) :
       held' = [held EXCEPT !.of = files["nodes"].of, !.nodes = s.rows, !.errors = s.error]
  /\ at' = "edges"
  /\ UNCHANGED <<env, asked, todo, graph, records, summary, exit, document, datasetVars>>

\* Edges without their endpoints are skipped, whichever file lacks them.
LoadEdges ==
  /\ at = "edges"
  /\ files["edges"] # Nothing
  /\ \E s \in Streamed("edges", Size) :
       \E stored \in 0 .. s.rows :
         /\ held.of = files["edges"].of /\ held.nodes = Order[held.of] => stored = s.rows
         /\ held' = [held EXCEPT !.edges = stored, !.errors = @ \/ s.error]
  /\ at' = "reads"
  /\ UNCHANGED <<env, asked, todo, graph, records, summary, exit, document, datasetVars>>

\* The traversals ask every platform for the same start nodes, of which one stands for
\* all; so do the other workloads without an expected value, for which the traversals
\* stand.  A workload that was abandoned may have no answer.
Workloads == ({"traversal"} \X Hops) \cup {<<"groupby", 0>>, <<"relcount", 0>>}

Expected(w) == CASE w[1] = "groupby" -> {Order[graph]}
                 [] w[1] = "relcount" -> {Size[graph]}
                 [] OTHER -> {}

Checks(answer) == [k \in {"value" : v \in answer} |-> CHOOSE v \in answer : TRUE]

Answer(d, w) == CASE w[1] = "groupby" -> {held.nodes : x \in {TRUE} \cap {d.groupby}}
                  [] w[1] = "relcount" -> {held.edges : x \in {TRUE} \cap {d.relcount}}
                  [] OTHER -> d.hops[w[2]]

Reads ==
  /\ at = "reads"
  /\ \E d \in Dialects :
       Finish([w \in Workloads |-> [expected |-> Expected(w), checks |-> Checks(Answer(d, w))]],
              held)
  /\ UNCHANGED <<env, asked, graph, summary, exit, document, datasetVars>>

\* The dataset in it is the manifest the run has read.
WriteSummary ==
  /\ at = "platform" /\ todo = {}
  /\ summary' = [dataset |-> graph, skipped |-> asked \ Usable(asked),
                 verification |-> Compare(records)]
  /\ Ends(IF Clean(Compare(records)) THEN 0 ELSE 3)
  /\ UNCHANGED <<env, asked, held, records, document, datasetVars>>

\* The records it wrote stay, but without run.json nothing is made of them.
KillRun ==
  /\ at \notin {"idle", "done"}
  /\ Ends(Nothing)
  /\ held' = Empty /\ records' = {}
  /\ UNCHANGED <<env, asked, summary, document, datasetVars>>

---------------------------------------------------------------------------
(* cmd_report                                                              *)

\* What the verification is summed up as.
Verdict(v) ==
  IF v.compared = {} THEN "nothing to cross-check"
  ELSE IF Agree(v) THEN "identical values" ELSE "disagreements"

SlipFailuresShown(v) ==  \* as part of the list of disagreements
  IF Agree(v) THEN [expectation |-> {}, monotonic |-> {}]
  ELSE [expectation |-> v.expectation, monotonic |-> v.monotonic]

FailuresShown(v) == [expectation |-> v.expectation, monotonic |-> v.monotonic]

\* The first so many, in the order of the records.
Cut(failures) ==
  IF Cardinality(failures) <= Listed THEN {failures}
  ELSE {some \in SUBSET failures : Cardinality(some) = Listed}

\* Every record has its rows in the tables of its track, and its errors verbatim.
Tables == {r.platform : r \in records}
ErrorsShown == {r.platform : r \in {s \in records : s.errors}}

\* Without run.json there is no run to report.
Completed == summary # Nothing

\* RESULTS.md; the block in README.md has no list of failures and no errors.
Report ==
  /\ Completed /\ document = Nothing
  /\ LET all == FailuresShown(summary.verification)
     IN  \E expectation \in Cut(all.expectation), monotonic \in Cut(all.monotonic) :
           document' = [dataset |-> summary.dataset,
                        verdict |-> Verdict(summary.verification),
                        failures |-> [expectation |-> expectation, monotonic |-> monotonic],
                        tables |-> Tables,
                        notRun |-> summary.skipped,
                        errors |-> ErrorsShown]
  /\ UNCHANGED <<env, at, asked, todo, graph, held, records, summary, exit, datasetVars>>

RunStep == \/ StartRun \/ ReadManifest \/ ReadStarts
           \/ BeginPlatform \/ PlatformFails \/ LoadNodes \/ LoadEdges \/ Reads
           \/ WriteSummary \/ KillRun \/ Report

\* Once the run is over, what becomes of the dataset does not concern it.
DatasetStep == at # "done" /\ DatasetNext /\ UNCHANGED runVars

Finished == at = "done" /\ UNCHANGED vars

Next == RunStep \/ DatasetStep \/ Finished

Spec == Init /\ [][Next]_vars

---------------------------------------------------------------------------
(* Properties.                                                             *)

\* A run that exits with 0 compared like with like.  The store of every platform that
\* answered held as many nodes and edges as the manifest in run.json says, whatever
\* was written to the CSV files since the manifest was read, and no two platforms
\* differ on an answer; nor does one have a smaller neighbourhood at a greater depth,
\* if it answered at all the depths between.
CleanIsComparable ==
  exit = 0 =>
    /\ \A r \in records : DOMAIN r.reads # {} =>
         r.store = <<Order[summary.dataset], Size[summary.dataset]>>
    /\ \A r, s \in records : \A w \in DOMAIN r.reads \cap DOMAIN s.reads :
         \A k \in DOMAIN r.reads[w].checks \cap DOMAIN s.reads[w].checks :
           r.reads[w].checks[k] = s.reads[w].checks[k]
    /\ \A r \in records, low, up \in Hops :
         LET Of(d) == r.reads[<<"traversal", d>>].checks
         IN  /\ DOMAIN r.reads # {}
             /\ low < up
             /\ \A d \in Hops \cap (low .. up) : "value" \in DOMAIN Of(d)
             => Of(low)["value"] <= Of(up)["value"]

\* The document hides nothing of the run: every platform asked for has its row or the
\* reason why it was not run, it says that something is wrong exactly if the run did
\* so with its exit status, and a platform whose store was not what the manifest says
\* is named among the errors or in the failures, as far as the list of them goes.
DocumentTells ==
  document # Nothing =>
    /\ document.tables \cup document.notRun = asked
    /\ exit = 0 <=> /\ document.verdict # "disagreements"
                    /\ document.failures = [expectation |-> {}, monotonic |-> {}]
    /\ \A r \in records :
         \/ r.store = <<Order[document.dataset], Size[document.dataset]>>
         \/ r.platform \in document.errors
         \/ \E w \in Workloads : <<r.platform, w>> \in document.failures.expectation
         \/ Cardinality(document.failures.expectation) = Listed
==============================================================================
