--------------------------- MODULE MixedWorkload ---------------------------
(***************************************************************************)
(* The mixed workload of one platform: run_mixed sweeps the concurrency    *)
(* levels; at each, _run_level starts that many client threads, lets them  *)
(* go together through a barrier, sets the deadline event when the time is *)
(* up, joins each thread for a bounded time, and builds the level's result *)
(* from what the threads have merged so far.  Threads it stopped waiting   *)
(* for live on.  In the end the writes are counted and deleted by tag.     *)
(***************************************************************************)
EXTENDS Naturals, FiniteSets, FiniteSetsExt, Sequences

CONSTANTS Clients,     \* workloads.concurrency: the number of clients of each level
          MaxErrors,   \* 50: a client gives up after more errors than this
          MaxOps,      \* bound: operations a client begins, by level
          UniqueKeys,  \* the engine refuses a second bench node with the same key
          Partial,     \* the load has lost start nodes
          Cleanup,     \* workloads.cleanup_writes
          Free         \* nobody holds the merge lock

\* Sizing the Bolt pool takes the largest level: there is at least one.
ASSUME MixedAssumption ==
  /\ Clients \in Seq(Nat \ {0}) \ {<<>>}
  /\ MaxErrors \in Nat
  /\ MaxOps \in [1 .. Len(Clients) -> Nat]
  /\ UniqueKeys \in BOOLEAN
  /\ Partial \in BOOLEAN
  /\ Cleanup \in BOOLEAN
  /\ Free \notin Nat \X Nat

VARIABLES
  main,      \* where the main thread is
  level,     \* the level it is at
  pc,        \* where each client thread is
  expired,   \* the levels whose deadline event is set
  tally,     \* per client: local reads, writes and errors
  latency,   \* per level: the samples in read_latency and write_latency
  counters,  \* per level: the counters dictionary
  seen,      \* per client: the counters as read while merging
  lock,      \* per level: the holder of merge_lock
  results,   \* per level: the ThroughputResult, once built
  store,     \* the bench nodes in the database
  found,     \* what cleanup_writes counted
  cleaned,   \* MixedOutcome.writes_cleaned
  failed,    \* the levels that raised, and 0 if cleanup_writes did
  behind,    \* history: the clients not finished when their result was built
  unacked,   \* history: the writes that were committed and reported an error
  missed     \* history: how many writes found no node to attach to

mainVars == <<main, level, expired, results, found, cleaned, failed, behind>>
clientVars == <<pc, tally, latency, counters, seen, lock, unacked, missed>>
vars == <<mainVars, clientVars, store>>

\* Definitions whose name begins with Slip are the next definition (or the one after)
\* with a mistake in it, as in ReadWorkload.

Levels == 1 .. Len(Clients)
ClientsOf(l) == {l} \X (0 .. Clients[l] - 1)
AllClients == UNION {ClientsOf(l) : l \in Levels}
LevelOf(c) == c[1]
WorkerId(c) == c[2]

NoOps == [reads |-> 0, writes |-> 0]
NoResult == [reads |-> 0, writes |-> 0, built |-> FALSE]
Plus(a, b) == [reads |-> a.reads + b.reads, writes |-> a.writes + b.writes]

\* Operations begun by c, and the bench node its current one would write.  The key
\* of the node, tag-(worker_id * 1000000 + seq), does not mention the level.
Begun(c) == tally[c].reads + tally[c].writes + tally[c].errors
SlipNode(c) == [client |-> c, seq |-> Begun(c)]  \* seq += 1 after the write
Node(c) == [client |-> c, seq |-> Begun(c) + 1]
BenchKey(node) == <<WorkerId(node.client), node.seq>>
KeyTaken(c) == \E node \in store : BenchKey(node) = BenchKey(Node(c))

Init ==
  /\ main = "spawn"
  /\ level = 1
  /\ pc = [c \in AllClients |-> "none"]
  /\ expired = {}
  /\ tally = [c \in AllClients |-> [reads |-> 0, writes |-> 0, errors |-> 0]]
  /\ latency = [l \in Levels |-> NoOps]
  /\ counters = [l \in Levels |-> NoOps]
  /\ seen = [c \in AllClients |-> NoOps]
  /\ lock = [l \in Levels |-> Free]
  /\ results = [l \in Levels |-> NoResult]
  /\ store = {}
  /\ found = 0
  /\ cleaned = 0
  /\ failed = {}
  /\ behind = {}
  /\ unacked = {}
  /\ missed = 0

---------------------------------------------------------------------------
(* The main thread.                                                        *)

\* The next level, or cleanup_writes, or the end.
NextLevel ==
  /\ level' = level + 1
  /\ main' = IF level < Len(Clients) THEN "spawn" ELSE IF Cleanup THEN "count" ELSE "done"

\* Threads are started one by one; if one cannot be, the level raises and the
\* threads already started are left at the barrier.
Spawn ==
  /\ main = "spawn"
  /\ \E n \in 0 .. Clients[level] :
       /\ pc' = [c \in AllClients |->
                   IF LevelOf(c) = level /\ WorkerId(c) < n THEN "starting" ELSE pc[c]]
       /\ IF n = Clients[level]
          THEN main' = "gate" /\ UNCHANGED <<level, failed>>
          ELSE failed' = failed \cup {level} /\ NextLevel
  /\ UNCHANGED <<expired, results, found, cleaned, behind, store,
                 tally, latency, counters, seen, lock, unacked, missed>>

SlipOpen ==  \* Barrier(clients): one party too few
  /\ main = "gate"
  /\ Cardinality({c \in ClientsOf(level) : pc[c] = "gate"}) >= Clients[level] - 1
  /\ main' = "load"
  /\ pc' = [c \in AllClients |-> IF c \in ClientsOf(level) /\ pc[c] = "gate"
                                 THEN "loop" ELSE pc[c]]
  /\ UNCHANGED <<level, expired, results, found, cleaned, failed, behind, store,
                 tally, latency, counters, seen, lock, unacked, missed>>

\* The barrier opens when the main thread and all clients of the level are there.
Open ==
  /\ main = "gate"
  /\ \A c \in ClientsOf(level) : pc[c] = "gate"
  /\ main' = "load"
  /\ pc' = [c \in AllClients |-> IF c \in ClientsOf(level) THEN "loop" ELSE pc[c]]
  /\ UNCHANGED <<level, expired, results, found, cleaned, failed, behind, store,
                 tally, latency, counters, seen, lock, unacked, missed>>

\* The sleep is over.
SetDeadline ==
  /\ main = "load"
  /\ expired' = expired \cup {level}
  /\ main' = "join"
  /\ UNCHANGED <<level, results, found, cleaned, failed, behind, clientVars, store>>

SlipCollect ==  \* t.join() without a timeout
  /\ main = "join"
  /\ \A c \in ClientsOf(level) : pc[c] = "done"
  /\ results' = [results EXCEPT ![level] = [reads  |-> counters[level].reads, writes |-> counters[level].writes, built |-> TRUE]]
  /\ NextLevel
  /\ UNCHANGED <<expired, found, cleaned, failed, behind, clientVars, store>>

\* Every thread has been joined or given timeout_s + 30 seconds to end.  The
\* counters are copied into the result without taking merge_lock; the latencies
\* stay shared with threads that have not merged yet.
Collect ==
  /\ main = "join"
  /\ results' = [results EXCEPT ![level] = [reads  |-> counters[level].reads,
                                           writes |-> counters[level].writes,
                                           built  |-> TRUE]]
  /\ behind' = behind \cup {c \in ClientsOf(level) : pc[c] # "done"}
  /\ NextLevel
  /\ UNCHANGED <<expired, found, cleaned, failed, clientVars, store>>

\* cleanup_writes counts the nodes of the tag, and deletes them if there are any.
CountWrites ==
  /\ main = "count"
  /\ found' = Cardinality(store)
  /\ main' = IF store = {} THEN "done" ELSE "delete"
  /\ UNCHANGED <<level, expired, results, cleaned, failed, behind, clientVars, store>>

SlipDeleteWrites ==  \* the delete is not consumed, so never committed
  /\ main = "delete"
  /\ cleaned' = found
  /\ main' = "done"
  /\ UNCHANGED <<level, expired, results, found, failed, behind, clientVars, store>>

DeleteWrites ==
  /\ main = "delete"
  /\ store' = {}
  /\ cleaned' = found
  /\ main' = "done"
  /\ UNCHANGED <<level, expired, results, found, failed, behind, clientVars>>

\* Either statement may fail, the delete with or without having been carried out.
CleanupFails ==
  /\ main \in {"count", "delete"}
  /\ failed' = failed \cup {0}
  /\ main' = "done"
  /\ store' \in {store} \cup (IF main = "delete" THEN {{}} ELSE {})
  /\ UNCHANGED <<level, expired, results, found, cleaned, behind, clientVars>>

---------------------------------------------------------------------------
(* The client threads.                                                     *)

\* The thread runs and reaches the barrier.
Arrive(c) ==
  /\ pc[c] = "starting"
  /\ pc' = [pc EXCEPT ![c] = "gate"]
  /\ UNCHANGED <<mainVars, tally, latency, counters, seen, lock, unacked, missed, store>>

\* One turn of the loop: a read or a write is sent.
Begin(c) ==
  /\ pc[c] = "loop"
  /\ LevelOf(c) \notin expired
  /\ Begun(c) < MaxOps[LevelOf(c)]
  /\ \E op \in {"reading", "writing"} : pc' = [pc EXCEPT ![c] = op]
  /\ UNCHANGED <<mainVars, tally, latency, counters, seen, lock, unacked, missed, store>>

\* The engine carries out the write.
Commit(c) ==
  /\ pc[c] = "writing"
  /\ ~ (UniqueKeys /\ KeyTaken(c))
  /\ store' = store \cup {Node(c)}
  /\ pc' = [pc EXCEPT ![c] = "written"]
  /\ UNCHANGED <<mainVars, tally, latency, counters, seen, lock, unacked, missed>>

SlipAnswer(c) ==  \* run() returns the result without consuming it
  /\ pc[c] \in {"reading", "writing", "written"}
  /\ tally' = IF pc[c] = "reading" THEN [tally EXCEPT ![c].reads = @ + 1]
                                   ELSE [tally EXCEPT ![c].writes = @ + 1]
  /\ pc' = [pc EXCEPT ![c] = "loop"]
  /\ UNCHANGED <<mainVars, latency, counters, seen, lock, unacked, missed, store>>

\* A call returns only when the statement has been carried out and its result
\* consumed.
Answer(c) ==
  /\ pc[c] \in {"reading", "written"}
  /\ tally' = IF pc[c] = "reading" THEN [tally EXCEPT ![c].reads = @ + 1]
                                   ELSE [tally EXCEPT ![c].writes = @ + 1]
  /\ pc' = [pc EXCEPT ![c] = "loop"]
  /\ UNCHANGED <<mainVars, latency, counters, seen, lock, unacked, missed, store>>

\* A write whose start node is missing matches nothing and creates nothing.  It
\* returns 0 instead of 1, which the client does not look at.
Miss(c) ==
  /\ Partial
  /\ pc[c] = "writing"
  /\ tally' = [tally EXCEPT ![c].writes = @ + 1]
  /\ missed' = missed + 1
  /\ pc' = [pc EXCEPT ![c] = "loop"]
  /\ UNCHANGED <<mainVars, latency, counters, seen, lock, unacked, store>>

\* Or it raises: a read or a write that was not carried out (refused, say, for its
\* key), or a write whose answer got lost.  Too many errors end the loop.
Raise(c) ==
  /\ pc[c] \in {"reading", "writing", "written"}
  /\ tally' = [tally EXCEPT ![c].errors = @ + 1]
  /\ pc' = [pc EXCEPT ![c] = IF tally[c].errors + 1 > MaxErrors THEN "merge" ELSE "loop"]
  /\ unacked' = IF pc[c] = "written" THEN unacked \cup {Node(c)} ELSE unacked
  /\ UNCHANGED <<mainVars, latency, counters, seen, lock, missed, store>>

\* The deadline event is set: the loop is over.
Stop(c) ==
  /\ pc[c] = "loop"
  /\ LevelOf(c) \in expired
  /\ pc' = [pc EXCEPT ![c] = "merge"]
  /\ UNCHANGED <<mainVars, tally, latency, counters, seen, lock, unacked, missed, store>>

SlipExtend(c) ==  \* no merge_lock
  /\ pc[c] = "merge"
  /\ latency' = [latency EXCEPT ![LevelOf(c)] = Plus(@, tally[c])]
  /\ seen' = [seen EXCEPT ![c] = counters[LevelOf(c)]]
  /\ pc' = [pc EXCEPT ![c] = "adding"]
  /\ UNCHANGED <<mainVars, tally, counters, lock, unacked, missed, store>>

SlipOverwrite(c) ==  \* samples = local_reads, not samples.extend(local_reads)
  /\ pc[c] = "merge"
  /\ lock[LevelOf(c)] = Free
  /\ lock' = [lock EXCEPT ![LevelOf(c)] = c]
  /\ latency' = [latency EXCEPT ![LevelOf(c)] = Plus(NoOps, tally[c])]
  /\ seen' = [seen EXCEPT ![c] = counters[LevelOf(c)]]
  /\ pc' = [pc EXCEPT ![c] = "adding"]
  /\ UNCHANGED <<mainVars, tally, counters, unacked, missed, store>>

\* Under merge_lock: the samples are appended, then the counters are added to.
Extend(c) ==
  /\ pc[c] = "merge"
  /\ lock[LevelOf(c)] = Free
  /\ lock' = [lock EXCEPT ![LevelOf(c)] = c]
  /\ latency' = [latency EXCEPT ![LevelOf(c)] = Plus(@, tally[c])]
  /\ seen' = [seen EXCEPT ![c] = counters[LevelOf(c)]]
  /\ pc' = [pc EXCEPT ![c] = "adding"]
  /\ UNCHANGED <<mainVars, tally, counters, unacked, missed, store>>

Add(c) ==
  /\ pc[c] = "adding"
  /\ counters' = [counters EXCEPT ![LevelOf(c)] = Plus(seen[c], tally[c])]
  /\ seen' = [seen EXCEPT ![c] = NoOps]
  /\ lock' = [lock EXCEPT ![LevelOf(c)] = Free]
  /\ pc' = [pc EXCEPT ![c] = "done"]
  /\ UNCHANGED <<mainVars, tally, latency, unacked, missed, store>>

---------------------------------------------------------------------------
Sweep == Spawn \/ Open \/ SetDeadline \/ Collect

Client(c) == \/ Arrive(c) \/ Begin(c) \/ Commit(c) \/ Answer(c) \/ Miss(c)
             \/ Raise(c) \/ Stop(c) \/ Extend(c) \/ Add(c)

Finished == main = "done" /\ UNCHANGED vars

Next ==
  \/ Sweep
  \/ CountWrites \/ DeleteWrites \/ CleanupFails
  \/ \E c \in AllClients : Client(c)
  \/ Finished

\* The main thread and the start of a thread are scheduled; sleep and join end.
\* The engine owes no answer, so nothing else is assumed of the clients.
Spec == /\ Init /\ [][Next]_vars
        /\ WF_vars(Sweep)
        /\ \A c \in AllClients : WF_vars(Arrive(c))

---------------------------------------------------------------------------
(* Properties.                                                             *)

Ops == [reads : Nat, writes : Nat]

TypeOK ==
  /\ main \in {"spawn", "gate", "load", "join", "count", "delete", "done"}
  /\ level \in 1 .. Len(Clients) + 1
  /\ pc \in [AllClients -> {"none", "starting", "gate", "loop", "reading", "writing",
                            "written", "merge", "adding", "done"}]
  /\ expired \subseteq Levels
  /\ tally \in [AllClients -> [reads : Nat, writes : Nat, errors : 0 .. MaxErrors + 1]]
  /\ latency \in [Levels -> Ops]
  /\ counters \in [Levels -> Ops]
  /\ seen \in [AllClients -> Ops]
  /\ lock \in [Levels -> AllClients \cup {Free}]
  /\ results \in [Levels -> [reads : Nat, writes : Nat, built : BOOLEAN]]
  /\ \A node \in store \cup unacked :
       node.client \in AllClients /\ node.seq \in 1 .. MaxOps[LevelOf(node.client)]
  /\ missed \in Nat
  /\ found \in Nat
  /\ cleaned \in Nat
  /\ failed \subseteq Levels \cup {0}
  /\ behind \subseteq AllClients

Loading(c) == pc[c] \notin {"none", "starting", "gate"}

\* A client applies load only once every client of its level is past the barrier
\* and the main thread's clock is running: nobody is measured against an idle engine.
\* A level whose threads could not all be started never touches the engine.
StartTogether ==
  \A c \in AllClients : Loading(c) =>
    /\ \A d \in ClientsOf(LevelOf(c)) : Loading(d)
    /\ LevelOf(c) = level => main \in {"load", "join"}
    /\ LevelOf(c) \notin failed

\* What the clients that have merged did: nothing is lost or counted twice however
\* merges interleave, also those of a level's stragglers with a later level.
MergedBy(l) == {c \in ClientsOf(l) : pc[c] = "done"}
TotalOf(field, S) == MapThenSumSet(LAMBDA c : tally[c][field], S)

MergesAddUp ==
  \A l \in Levels : lock[l] = Free =>
    \A field \in {"reads", "writes"} :
      /\ latency[l][field] = TotalOf(field, MergedBy(l))
      /\ counters[l][field] = TotalOf(field, MergedBy(l))

\* Every operation a result counts has its latency among the samples, even if a
\* straggler is merging while the result is built; and when no client was left
\* behind the result counts exactly what its clients did.
ResultsBacked ==
  \A l \in Levels : results[l].built =>
    \A field \in {"reads", "writes"} :
      /\ results[l][field] <= latency[l][field]
      /\ ClientsOf(l) \cap behind = {} => results[l][field] = TotalOf(field, ClientsOf(l))

CountedWrites == MapThenSumSet(LAMBDA l : results[l].writes, Levels)

\* Every write the results count was committed, or had no node to attach to: once the
\* sweep is over, and as long as cleanup_writes did not fail, the committed ones are
\* among those cleaned or still there.
WritesAccounted ==
  main = "done" /\ 0 \notin failed => CountedWrites <= cleaned + Cardinality(store) + missed

\* If cleanup did not fail, the graph is as it was, but for what clients that were not
\* joined in time wrote during the cleanup or after it.  If all were joined in time, the
\* number cleaned is the number counted, less the writes that matched nothing, plus the
\* writes whose answer was lost.
Restored ==
  main = "done" /\ Cleanup /\ 0 \notin failed =>
    /\ \A node \in store : node.client \in behind
    /\ behind = {} => cleaned + missed = CountedWrites + Cardinality(unacked)

\* The sweep gets to its end whatever the engine does: nothing waits for a client
\* without a time limit.
SweepEnds == <>(main \in {"count", "delete", "done"})

---------------------------------------------------------------------------
(* What a document says, and the code does not do.                         *)

\* "The read/write interleaving is identical across platforms and reruns": an
\* engine that enforces unique keys carries out the writes the others carry out.
SameWritesEverywhere ==
  \A c \in AllClients : pc[c] = "writing" => ~ (UniqueKeys /\ KeyTaken(c))
===========================================================================
