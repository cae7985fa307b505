# A verification model of graphbench

graphbench loads one graph into several graph databases, local containers and free
cloud tiers, runs the same read and mixed workloads against each, and publishes the
timings. What it must get right is bookkeeping under failure: engines run out of memory,
drop connections, hang, answer late; the numbers published must still be those of the
calls they claim to be about. These modules model that bookkeeping. Paths below are
relative to `src/src/graphbench` unless they begin with `src/`.

## 1. The system

| component | state | operations | talks to |
|---|---|---|---|
| read workloads (`workloads/reads.py`, `deadline.py`) | one `ReadResult` per workload (samples, errors, timeouts, reconnects, abandoned, checks); one `Deadline` per workload with a worker thread and a poisoned flag | warm-up loop, measured loop, `should_retry`, `Deadline.run` | adapter calls on the worker thread, `reset_connection` on the main thread |
| error classification (`errors.py`) | none | `is_connection_error`, `is_resource_error` on the words of an exception | read workloads, mixed workload, wipe |
| mixed workload (`workloads/mixed.py`) | per level: barrier, deadline event, shared latencies and counters, merge lock; per client: local lists | `run_mixed`, `_run_level`, `worker` | adapter from many threads; cleanup by tag |
| adapters (`adapters/*.py`), six of them | thread-local sessions (Bolt), wipe batch, index failures, the store of the engine | `connect`, `load` (wipe, nodes, indexes, edges), reads, `insert_write`, `cleanup_writes`, `close` | the engine |
| container reset (`dockerctl.py`) | the containers and volumes of the daemon | `recreate` = list volumes, rm, volume rm for each, up, wait | docker, by subprocess with timeouts |
| runner (`runner.py`, `cli.py`) | the record of a platform, `results/<id>/*.json`, `run.json` | `run_platform`, `run_all` | everything above |
| verification (`verify.py`) | none | `compare`, monotonic check, exit status | records |
| calibration (`calibrate.py`) | attempts | reset, load, close per batch size; the report | dockerctl, adapters |
| datasets (`datasets/*.py`) | raw file, four prepared files | `fetch`, `prepare`, `snowball`, `load` | disk, network |
| report (`report/*.py`) | `RESULTS.md`, the block in `README.md` | `load_run`, tables, variance, charts | results |
| config, environment, doctor, paths | none | parsing, probing | |

What makes each of them correct, and where it is hard:

* **Read workloads.** Every call counted once; a timing is of the query and of nothing
  queued before it; a late answer never taken for another's; a query abandoned but still
  running is owned up to; the retry limits are respected; the sweep ends. Two threads, a
  timeout that races an answer, retries, four places that record an outcome.
* **Mixed workload.** Clients start together; merging loses nothing; a client that is not
  joined in time is still accounted for; the graph is restored. Interleavings of clients
  of two levels, and a cleanup that counts and then deletes.
* **Load.** Nothing of an earlier run survives the wipe; a load without errors is
  complete; what FalkorDB's wipe swallows is noticed later; an index that was not made is
  reported. A batch may fail and have been carried out, a session may have died two
  phases ago, and each engine wipes and indexes in a way of its own.
* **Calibration.** Every attempt is of the size it is reported under, "complete" is
  earned whatever the attempt before left in the store, the sweep ends.
* **Datasets.** What the loader accepts is one preparation; a pinned checksum is never
  got round. A command can die between two of its files, a download can end short and be
  cached, the dataset can be published again.
* **Evidence**: dataset, run, verification and report together. The manifest is read
  once and the CSV files once per platform, while a dataset command may rewrite them.
  Exit status 0 must mean that the platforms answered about the same graph, and the
  document must say what the run knows.
* **Reset and runner.** What the record says of the reset and of the status is earned; a
  run that is reported is whole; one platform's failure does not cost the others. Every
  docker command can fail or hang, a container has several volumes and any can be kept,
  the process can be killed anywhere, a run can be repeated over what the last one left.
* **Sampler.** The running edge count equals the subgraph's; the sample is big enough
  and no bigger than needed; the loop ends on disconnected graphs.

`PROJECT.json` lists the hazards one by one with their lines and properties.

## 2. The modules

| module | models | composed with |
|---|---|---|
| `ReadContract` | what a sequence of read workloads promises (abstract) | refined by `ReadWorkload` |
| `ReadWorkload` | `run_read_workload`, `all_read_workloads`, `Deadline`, Bolt's thread-local sessions | `MCReadWorkload` |
| `ReadWorkloadProofs` | its theorems | |
| `NumberFacts` | nothing: facts about natural numbers, finite sets and sums | extended by `LoadProofs`, `RunnerProofs`, `EvidenceProofs`, `MixedWorkloadProofs` |
| `MixedWorkload` | `run_mixed`, `_run_level`, `worker`, `insert_write`, `cleanup_writes` | `MCMixedWorkload` |
| `MixedWorkloadProofs` | its theorems | |
| `Load` | `Adapter.load`, `_timed_phase`; `wipe`, `create_indexes` and the inserts of all six adapters | extended by `Calibrate` |
| `Calibrate` | `calibrate.sweep`, `_attempt`, `render` | `MCLoad` |
| `LoadProofs` | the theorems of `Load` and `Calibrate` | |
| `Dataset` | `fetch`, `prepare`, what `loader.load` accepts | extended by `Evidence` |
| `DatasetProofs` | its theorems | |
| `Verify` | `verify.compare` as operators on records | extended by `Evidence` |
| `Evidence` | `cmd_run`, `run_all`, `verification`, `cmd_report` over a dataset that may change | `MCEvidence` |
| `EvidenceProofs` | its theorems, on top of those of `DatasetProofs` | |
| `Dockerctl` | `recreate` over containers and volumes | extended by `Runner` |
| `Runner` | `run_all`, `run_platform`, record files, kill and rerun | `MCRunner` |
| `RunnerProofs` | its theorems | |
| `Snowball` | `build_adjacency`, `snowball`, `induced_edges` | `MCSnowball` |
| `SnowballProofs` | its theorems | |

Definitions whose name begins with `Slip` are the definition below them with a plausible
mistake. No specification uses them; `PROJECT.json` pairs each property with one, and
substituting it makes TLC find the property violated.

### ReadWorkload

`main` is where the main thread is: about to call `Deadline.run`, in `future.result`, or
done. `wl`, `index` and `attempt` are the loop variables of `all_read_workloads` and
`run_read_workload` (the warm-up and the measured loop are one range of `index`, split at
`Warmup`, as in the code, where the measured calls get index `warmup + i`). `future` is
the future being waited for, `thread[w]` the worker of workload `w`'s Deadline, which may
stay busy after its workload has ended. `session[t]` is the thread-local session of thread
`t`; 0 is the main thread. The actions are `Submit`, then one of `Succeed`, `Retry`,
`Count`, `Abandon`, `Expire` for each way `deadline.run` can come back, each doing what
its `except` branch and the loop do, and `AnswerCall`/`FailCall` for a worker, enabled
as long as its query runs, current or abandoned.

`Expire` is enabled in two cases: when the timer runs out on a running future, and when
the future holds a builtin `TimeoutError`, because since Python 3.11 that is the class
`except FutureTimeout` catches. Exceptions are the five classes that the phrases of
`errors.py` tell apart. Latencies are counted and not measured.

`ReadContract` knows only how many verdicts of each kind a workload has and whether it is
open, complete or abandoned. The refinement mapping is `Book`.

### MixedWorkload

One `pc` per client thread and one `main`. `Spawn` may fail part of the way; `Open` is the
barrier; `Collect` is the end of the bounded joins and builds the result without the lock,
whether or not clients are still at work; the merge is two steps (`Extend`, `Add`) so that
the lock matters. A write is sent, committed (`Commit`) and answered (`Answer`) in
separate steps, so it can be committed and its answer lost, and a straggler can commit
between count and delete or after them. `Miss` is the write whose start node a partial
load has lost: it creates nothing and is counted all the same. `behind`, `unacked` and
`missed` are history variables, used by properties only. The choice between read and
write, seeded in the code, is left open.

### Load

One step per statement: a wipe batch, a node batch, a form of an index, an edge batch.
`kind` is the adapter. A node in the store is `<<id, the load that sent it>>`, an edge has
its row, its load and its endpoints, so that a graph loaded on top of another can be told
from one loaded into an empty store. A statement that raises may have been carried out,
and on a Bolt engine it may leave the session `defunct`: then everything fails until
`reset_connection`, which only the wipe calls. The wipes are `WipeSome`, `WipeFails`,
`Shrink` and `WipeEnds` for the Cypher engines, `DropGraph` (which swallows what the
engine raises), `Truncate` and `DeleteStore` for FalkorDB, ArangoDB and Kuzu. `Forms` lists
for each adapter how many forms of each index its `create_indexes` tries. `Matched` is the
`MATCH ... CREATE` that skips edges without endpoints, and would match twice were there
two nodes of one id; `Addressed` is ArangoDB, which computes the documents' keys.
`Following` is the order of the phases: Kuzu creates its tables before it inserts.
`indexes` and `refused` are positions in the DDL.

### Calibrate

`LoadStep` is a step of `Load`; around it `BeginAttempt` resets and begins a load,
`AttemptFails` is a reset or a `connect` that fails, `AttemptEnds` appends the attempt.
A reset gives a virgin store or the old one, which is what `Runner` shows of `recreate`.
`whole` in an attempt is history, for the property. The attempts are in memory until
`WriteJson`; `SweepLost` is what ends the process before it. `WriteMarkdown` raises when an
attempt that is not an error has a phase without a row, because its rate is `None` and is
formatted as a number; the JSON file is there by then.

### Dataset

`raw` is the cached file, `files` the four prepared ones; each is known by the version it
was made from, the seed, and whether it is whole. `command` is the `dataset fetch` or
`dataset prepare` in progress: `UseCached` or `Download`, `Digest`, `Parse`, then
`OpenFile` and `CloseFile` for each file, in the order `prepare` writes them. A download
that ends before its first byte leaves an empty file. Where no checksum is pinned that is
parsed as a graph without edges (`Blank`), and `Summarise` raises when the manifest is
due, over three files already written: `min()` has no degree to take. `Killed` may come
anywhere, `Republish` too. `complete` and `cut` are history. One command at a time is a
bound of the model; two at once would write the same files.

### Verify and Evidence

`Verify` has no state: its operators take the set of records and return what `compare`
returns, with the mismatches, the failed expectations and the failed monotonic checks as
sets. `Evidence` drives it: `StartRun` sorts the platforms asked for into unknown, skipped
and usable, `ReadManifest` and `ReadStarts` are `datasets.load`, then each platform goes
through `LoadNodes`, `LoadEdges` and `Reads`, or `PlatformFails` at any of them;
`WriteSummary` compares and sets the exit status, `Report` makes the document. `Dataset`'s
steps interleave with all of this. A platform takes a CSV file in one step and the
`Streamed` operator says what may come of it: a file that is torn, or being rewritten, may
end early without an error. A record carries `store`, which the code's record has not: what
the platform held when it was asked. How a platform answers is a member of `Dialects`; the
group-by and the relationship count are answered from the store. One start node stands for
the start nodes, and the traversals for the workloads without an expected value. The loads
inside and the kill of a run are coarser here than in `Load` and `Runner`, which have them
in detail. `Listed` is the 15 after which the document cuts a list.

### Dockerctl and Runner

`engine` and `disk` are what the daemon holds per local platform: a container that is
absent, fresh or used, and a named volume that does not exist, is clean, or has data.
`Mounts` are the volumes of a container, of which `Data` has the store; the others are
anonymous ones of the image (the committed records list one to three per container). After
`compose rm` a new container gets new anonymous volumes, so only what becomes of `Data`
matters to the store, but all of them are listed, tried and reported. `recreate` is the
call in progress, with the volumes it has yet to try (`left`) and `volumes_removed`
(`removed`). `RemoveVolume` is one turn of its loop: it fails for each volume by itself,
and the call goes on. A command that times out may have been carried out (`Expire`), and a
`compose up` that fails may have started the container. `Runner` drives it from
`run_platform`: `step` walks through reset, build, connect, load, reads, mixed, footprint,
close, write. `Raises` is the `except` branch, `Abort` what is not caught: docker's
`TimeoutExpired`, and anything `adapters.build` raises. `rec` is the record; `errors`
stands for `record["errors"]`, `callErrors` for the errors that stay inside the workloads'
results, `removed` is `volumes_removed`, `began` remembers what store the load met, `done`
counts the phases that returned. `Crash` is the kill, which may tear the file being
written. The workloads appear here only by their outcome; their inside is in
`ReadWorkload`, `MixedWorkload` and `Load`.

### Snowball

One step per turn of the loop; `Hop` is the choice of a new component (the code does it in
the same turn as the visit that follows; nothing comes between). The seeded choice is any
choice, so what is checked holds for every seed. `Waiting`, `Frontier`, `Tight`, `Over` and
`IInv` model nothing: they are what makes the properties inductive.

## 3. Runs

| run | bounds | distinct states | shows |
|---|---|---|---|
| `read_workloads` | 2 workloads, 1 warm-up + 2 calls, 3 attempts, 3 reconnects, 1 key, 2 answers | 202,939 | bookkeeping, retries, end of the sweep, refinement of `ReadContract` |
| `mixed_workload` | levels of 1 and 2 clients, 2 and 1 operations each, gives up after 2 errors | 1,628,274 | start, merge, stragglers, cleanup |
| `load` | 6 adapters, 3 nodes, 2 edges, batches of 2, 2 attempts, up to 8 nodes left over, wipe batch 7 with floor 2, 2 indexes | 628,779 | wipe, partial loads, indexes, calibration |
| `runner` | 1 local platform with 3 volumes and 1 remote, 2 runs under one id, 2 and 3 command lines | 895,652 | reset, status, records, end of a run |
| `snowball` | all graphs on up to 5 nodes, 6 targets | 159,124 | sampler |
| `evidence` | 2 platforms, 3 sets of variables, 2 versions (pinned or not), 2 dataset commands, 3 depths, 4 ways to answer, lists cut at 2 | 1,396,531 | from the dataset to the exit status and the document |

Why these are enough: an abandoned query can only disturb the workloads after it, and a
workload has no memory of more than one earlier call, so two workloads of three calls have
a first, a middle and a last call and something to be late for. Three reconnects where the
code has 25 let either limit be the one reached. Two clients in one level can merge at
once, and one in an earlier level can be a straggler of it. A wipe batch of 7 is halved to
3 and then held at the floor. Two attempts let a load meet whatever the load before left,
complete or partial, under the same ids. Two edges share a node, so either node batch can
cost either edge its endpoint; two indexes are two tables for Kuzu, and for CognoDB two
indexes with two forms. Two runs let the second meet everything the first can leave: the
first resets the local platform or loads it as it is, and the second has either before it,
with another platform to come. Three volumes are the one with the store and two without,
of which any can be removed alone. Two dataset commands are a preparation and one that
overwrites it, before or during the run; two versions are one node apart, which is what an
expected value must catch, and a download of nothing has no node at all. Two platforms can
differ; three depths can miss the one in the middle, and with two platforms there can be
four failed expectations, of which the list keeps two. Five nodes allow a triangle beside
an edge.

Bounds the code does not have are constants of the modules, named there as bounds:
`MaxOps` (operations of a client), `MaxRuns`, `MaxCommands` (dataset commands) and
`MaxIndexes` (the first so many indexes of an adapter). `MaxErrors` is the code's 50.

Six more runs each check one statement of a comment or a test that the code does not
keep; TLC finds the counterexample. They are the findings of `PROJECT.json`:

* `retry_on_fresh_session`: the retry goes through the session that broke, since the reset
  is done on the wrong thread.
* `timeout_means_ceiling`: a `TimeoutError` of the call itself counts as the ceiling and
  ends the workload.
* `loss_is_not_shrugged_off`: `ServiceUnavailable` matches no phrase. The committed run
  `src/results/20260825T064625Z` has a workload with 73 of them that was not abandoned.
* `same_writes_everywhere`: bench keys repeat from level to level; engines with unique
  keys refuse writes that the others carry out. Visible in the committed results too.
* `ok_means_nothing_errored`: status `ok` for a platform whose single calls failed.
* `reset_means_virgin`: `reset: True` and a load on the old volume, which was not listed or
  could not be removed. The other volumes may be in `volumes_removed` all the same: what a
  record promises is what `ResetHonest` says, a virgin store if the volume with the store is
  in that list, and no more.

What the names of some properties might promise and do not say:

* `SelfCheckTells` notices leftovers under the label of the dataset just loaded, by the
  group-by. FalkorDB's wipe swallowing an error over a graph of another label goes unnoticed
  by it.
* `CleanIsComparable` compares what the code compares: numbers of nodes and of edges, not the
  identity of the graphs.
* `GrowsAlongEdges` says where a node may be admitted, not in which order: taking the queue
  from its other end would keep it, and the other properties of the sampler too.
* `Restored` allows what a straggler wrote during the cleanup or later to stay in the graph,
  and nothing else; the mixed `SweepEnds` says that the main thread goes on, not that the
  clients at the barrier of a level that raised do. They wait for ever, and `StartTogether`
  says that no later level lets them go.

## 4. Fairness

* `ReadWorkload`: weak fairness of the main thread, which includes the timer of
  `future.result`. None of the workers: an engine owes no answer, and `AllReturn` must not
  need one.
* `MixedWorkload`: weak fairness of the main thread's sweep (`sleep` and every `join` are
  bounded) and of a started thread reaching the barrier. None of the clients' calls. The
  cleanup statements have no ceiling in the code, hence none here: `SweepEnds` claims only
  that cleanup is reached.
* `Calibrate`, and `Load` in it: every statement is answered or raises. The code has no
  ceiling there and relies on the driver; with an engine that hangs for ever, load does
  not end. `SweepLost` is not fair: nobody has to press Ctrl-C.
* `Runner`: every phase returns or raises. For the reads that is `AllReturn`, for docker
  the subprocess timeouts, for the load `Calibrate`'s `SweepEnds`; for the rest it is trusted.
* `Snowball`: a plain loop in one thread.
* `Dataset` and `Evidence`: none. A user need not issue a command, and no property says
  that one ends.

Deadlock is checked in every run; a finished system stutters by an explicit action.

## 5. Proofs

`ReadWorkloadProofs` proves, for every number of workloads, warm-ups, iterations,
attempts, reconnects and start keys and every set of answers, from `ReadAssumption` alone
(all counts natural, the first four of them positive where the code divides or loops by
them, and the sentinel not an answer):

* `Invariant`: `Spec => []IInv`, and from it `TypeCorrect`, `DeadlineAlwaysFree`,
  `AnswersAreOwn`, `CountersAlwaysBalance`, `OrphansAlwaysDisclosed`;
* `FirstAnswersStay` and `RetriesFollowPolicy`, action properties, from the invariant;
* `MainOnlyForward`: every step of the main thread is further on in workloads, calls and
  attempts, and no worker moves it;
* `ImplementsContract`: `Spec => RefinesContract`, every step being a verdict of the
  contract or invisible to it.

None of the four state invariants is inductive alone. `DeadlineFree` needs to know that
the worker of the next workload has never been used, hence `Untouched` for every later
workload; `OrphansDisclosed` and `CountersBalance` need that the current workload is not
abandoned and that the loop leaves it only with its last call or abandoned; the bound on
samples needs that samples come after the warm-up; `OwnAnswer` is about `future` and the
current worker, which holds because each workload has a Deadline of its own. `Bookkeeping`
collects these facts and `IInv` is the conjunction. The argument: every step that settles
a call changes the current workload's record only, counts one call more, and then advances
or ends the workload (`VerdictSteps`, stated as `OthersKept`, `OneMoreCounted` and
`GoesOnOrEnds`); any step of that shape keeps `IInv` (`Settled`); the other steps are
submission, retry and the workers' (`InvStep`). For the refinement, `MyTurn` shows that
before each verdict the contract allows one, and `EntryAfter` that the entry afterwards is
the contract's.

`SnowballProofs` proves, for every finite set of node ids, every graph over them, every
target and every random choice, from `SnowballAssumption` alone (ids and targets are
natural numbers, the ids finitely many):

* `SpecIInv`: `Spec => []IInv`, and from it `SpecTypeOK`, `SpecEdgesCounted`,
  `SpecSampleIsTight`, `SpecWholeComponents` and the action property `SpecGrowsAlongEdges`;
* `SpecLoopRunsDown`: every turn of the loop makes a measure smaller: the nodes not yet
  admitted; with as many, whether the queue has none of them (it has one as soon as a new
  component is begun); with the same again, the positions of the queue still to be read.

The count needs a fact about graphs, `InducedGrows`: the edges that admitting a node adds
are in bijection with its neighbours in the sample. `TypeOK` carries what it needs, that
the graph is undirected and without loops, which `InitIInv` proves of `build_adjacency`.
`WholeComponents` is not inductive: while the queue is not empty it says nothing.
`Frontier` says it of every state: a neighbour of the sample is in it or waits in the
queue, and what waits is in the sample, next to it, or the one node of a new component.
`AscendingLists` (sorting a finite set lists its members and no others) is what makes
`sorted` harmless to it. `Tight` holds at the step that reaches the target, with the node
just admitted as the last.

`DatasetProofs` proves, for every set of versions, pins and seeds and any number of
commands, from `DatasetAssumption` alone (the pins are versions or none, an empty download is
neither, and the sentinel `Nothing` is no file, preparation or manifest):

* `DatasetInvariant`: `DatasetSpec => []IInv`, and from it `PreparedIsOneGraphHolds` and
  `PinnedIsLoudHolds`.

Neither is inductive. A preparation overwrites the files in an order, so `WritingInv` says
what the files before, at and after the one being written are; `CompleteInv` says that
unless one is being written or has died, the files are all of `complete` or the manifest is
not there, which is why the loader can go by the manifest; `PinnedInv` carries the pin from
the digest to the preparation it allows (`CommandInv` ties the place of the command to what
it holds). `WrittenOnce` is the fact about the order of the files.

`EvidenceProofs` composes it with the run, for every finite set of depths and any
platforms, dialects and graphs, from `EvidenceAssumption` and `DatasetAssumption`:

* `RunLeavesDataset`: `Spec => DatasetSpec`, no step of the run or the report touching the
  dataset, so `RunFindsOneGraph` and `RunUsesPinned` hold of the composition;
* `CleanIsComparableHolds`: `Spec => []CleanIsComparable`;
* `DocumentTellsHolds`: `Spec => []DocumentTells`.

The second has two halves. What a clean comparison means is a fact about `Verify` alone:
`CleanStore` (every self-check was answered, and as expected), `CleanAnswers` (two
platforms agree where both answered) and `CleanDepths`. `compare` looks at neighbouring
depths only, so `CleanDepths` goes from a depth down to the one before it
(`GreatestDepth`) and, for a contradiction, takes a least depth whose neighbourhood is
smaller (`Least` in `NumberFacts`, which takes least elements from finite sets, as the library's
induction theorems cannot be used here).
`RunInv` is the other half: the records are those of platforms that are done, each for
itself measured against the manifest the run holds, and the exit status is that of the
comparison of just these records.

The third needs to know which platforms have a record. `DocInv`: of the platforms asked for
the usable ones have a record or are yet to be run; a record without reads has an error; what
is reported is what was compared and made the exit status. That the document shows a
failure whenever the exit status does is `VerdictTells` (nothing compared is no
disagreement) and `CutTells` (cutting a list never empties it). That a platform which held
another graph is named, or the list of failures full, is `RightStore` and `WrongIsListed`: a
store that is not the prepared graph fails one of the two workloads with an expected value.

`LoadProofs` proves, for every graph, batch size, leftover, wipe batch and floor, any of the
six adapters and any sequence of attempts, from `LoadAssumption` and `CalibrateAssumption`:

* `LoadInvariant`: `Spec => []IInv`, and from it `OnlyThisGraphHolds` and
  `IndexesAccountedHolds`;
* `TallyInvariant`: `Spec => [](IInv /\ Tally /\ UnderWay)`, and from it
  `CleanLoadIsCompleteHolds`, `RowsAreStoredHolds`, `SelfCheckTellsHolds` and
  `SweepReportedHolds`;
* `BoundedInvariant`, and from it `LoadTypeCorrect`;
* `SweepRunsDownHolds`: every step of the sweep leaves less to do.

`OnlyThisGraph` says nothing during the wipe; `OwnInv` takes over where the wipe ends, and
needs `EndpointInv`, as the Cypher wipe looks at nodes only: it leaves no edge because no
edge is without its nodes. `IndexInv` follows the position in the DDL. `Tally` is about
numbers: how many rows this load has tried (`NodesDue`, `EdgesDue`: whole batches, by the
arithmetic of `BatchFacts`), that what is stored is among them, that what was counted is
stored, and that what was tried without an error was counted. So where the count is the
total, the stored set is the whole one, because a subset of the same size is the set itself.
`Shape` says where an edge can come from (`IsEdge`: of this graph or an earlier load's, no
older than its nodes), `Anchored` when it cannot miss its ends.

`SweepRunsDown` is that the adaptive wipe cannot go on for ever. `Closer` is the order: the
attempts still to be made, then the phases of this one (`Stage`, which knows that Kuzu has
another order), then what is left in the phase. In the wipe that is the batch, which a retry
makes smaller because it is made only above the floor (`ShrinkInv`), and with one batch the
nodes, of which every statement that succeeds deletes some; elsewhere the batches, or the
indexes and their forms. An error never gives a phase more to do.

`RunnerProofs` proves, for every finite set of platforms and of volumes, any mounts, every set
of command lines and any number of runs, kills included, from `RunnerAssumption` and
`DockerAssumption`:

* `RunnerInvariant`: `Spec => []IInv`, and from it `TypeCorrect`, `ResetHonestHolds`,
  `StatusIsEarnedHolds`, `ReportedRunIsWholeHolds` and `OneAdapterOpenHolds`;
* `RunGoesOnHolds`: every step of a run finishes a platform, or is further on in
  `run_platform`, or in `recreate`, where each turn of the loop leaves a volume less to try;
* `OthersKeptHolds`: nothing that is done for a platform touches another's container, volume
  or record.

`PhaseInv`: a record claims nothing before the phases it speaks of have returned. `OpenInv`:
the adapter that is open is the current platform's. `ResetInv`: what each step of `recreate`
has achieved, and that it is still so when the load begins: from the turn of the loop that
lists `Data` as removed until `up`, there is no named volume. `RecordInv`: every record, in
memory or in a file, says what it has earned. `WrittenInv` ties the files and `run.json` to
the numbers of the runs; without it nothing says that the records a summary finds are its own
run's. `ReportedRunIsWhole` is then kept by every file that is written
(`NewFileKeepsWhole`), and by every way a run ends (`ExitKeepsIInv`).

`MixedWorkloadProofs` proves, for every list of levels and every bound, from
`MixedAssumption`:

* `MixedInvariant`: `Spec => []IInv`, and from it `StartTogetherHolds`;
* `BoundedInvariant`, and from it `MixedTypeCorrect`;
* `BooksInvariant`: `Spec => []Books`, and from it `MergesAddUpHolds`, `ResultsBackedHolds`,
  `WritesAccountedHolds` and `RestoredHolds`;
* `KeysMeetAcrossLevels`, `OneLevelSameWrites`;
* `BarrierFillsHolds`, `SweepGoesOnHolds`.

`StartTogether` is about one level, and a straggler's level is not the present one. So `IInv`
says where the clients are at the levels to come (`ComingInv`: nowhere), at this one
(`PresentInv`: nobody is past the barrier or everybody) and at those that are over
(`PastInv`: the same, by whether the level could be started).

The other four properties are sums over clients, and about different moments of a write:
sent, committed, answered, merged, counted in a result, cleaned. `Books` has a part for each
account, and each part is kept with the help of those before it:

* `MergeInv`: the counters are the sum over those who have merged; the latencies are that, and
  ahead by the tally of the one who holds the lock, who still sees the counters as they are;
* `ResultInv`: a result that is built was copied from the counters, which only grow
  afterwards; so its latencies are there, and it is exact if nobody of its level was behind;
* `NodesInv`: a node has the number of an operation its client has begun (`Numbered`), and, as
  long as nothing was deleted, the writes that were answered, those whose answer was lost and
  those not yet answered are the nodes in the store and the writes that matched nothing
  (`Balance`);
* `CountedInv`: what the results count is no more than what the clients of the levels that are
  over did, and all of it when no client was left behind;
* `CleanInv`: what `cleanup_writes` counted covers that, before the delete and after it; what
  is in the graph afterwards is of clients that were left behind, the others being done or
  still at the barrier of a level that raised.

The sum of the model is a fold, which is a function defined by what it is on smaller sets. That
there is one such function and only one is proved in `NumberFacts` without induction: the size
of a set of pairs (`Pile`) is one (`PileAddsUp`), and two would differ on a set of least size
(`AddsUpOnce`). From there a sum is the size of a finite set, and `SumChange`, `SumJoin`,
`SumLeq` and the others are facts about such sets. `MixedAssumption` says that the sentinel
`Free` is no client, which is what makes a lock free or held.

`SameWritesEverywhere` is refuted by a run with two levels. What holds instead is
`KeysMeetAcrossLevels`: the sequence number of a write is new for its client, so only a client
of another level can have taken the key; hence `OneLevelSameWrites`.

`BarrierFills` is about the one place of the sweep that waits without a time limit: every
party the barrier counts is a thread that was started and is there or on its way.

**What is only model-checked:** liveness, that is `AllReturn`, `SweepEnds` (of `MixedWorkload`
and of `Calibrate`), `RunEnds` and `SamplerReturns`. The provers have no rules for fairness and
`ENABLED`. What these five rest on is proved for each: that no step leads back and that there
are finitely many to take (`MainOnlyForward`, `BarrierFillsHolds` with `SweepGoesOnHolds`,
`SweepRunsDownHolds`, `RunGoesOnHolds`, `SpecLoopRunsDown`). What TLC adds on its instances is
that a fair step can be taken as long as the end has not come.

## 6. Not modelled, and why

* Texts of queries, formatting, the layout of tables, charts: data or wording, no state.
* `report/variance.py`: arithmetic on times. It takes whatever runs it is given for the
  same configuration, and calls the spread 0 where the lowest value is 0.
* `environment`, `doctor`, `paths`, and of `config` everything but which variables a
  platform needs and which platforms are usable: parsing and probing.
* The size of the Bolt pool and `close` of sessions: when the pool is exhausted depends on
  the driver's queueing, which is not in the repository.
* ArangoDB's fallback write (`adapters/arango.py:224`), `footprint`, `server_version`, the
  reconnect counter of the mixed workload: no property here speaks of them.
* Percentiles and throughput: nearest rank on sorted times.
* Time itself. A timeout can happen at any moment; a latency has no value.
* Of a run: `--track`, and the start keys that may be of another preparation than the
  manifest (`datasets/loader.py:82` does not compare them; keys that do not exist answer 0 on
  every platform alike; without any key the traversals have no answer).

What a reader of the published files should know, and the model makes visible:

* the block in `README.md` says that every platform was cross-checked when those that
  answered agree (`report/render.py:117`), also when a self-check failed or a platform
  answered nothing; `DocumentTells` therefore speaks of the verdict and the lists together;
* lists in `RESULTS.md` end after fifteen entries, so a platform may be named in none;
* "1-hop <= 2-hop <= 3-hop" (`verify.py:69`) is checked between neighbouring depths that
  both answered: a depth without an answer in between hides a shrinking neighbourhood.

## 7. Plan

What is left, in order of importance:

1. ArangoDB's two-statement write and the cleanup after it.
2. The Bolt pool, with the stragglers that hold its connections.
3. A contract of `run_all` in the manner of `ReadContract`: per run, which platforms have a
   verdict; refined by `Runner`.
