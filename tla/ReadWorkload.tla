--------------------------- MODULE ReadWorkload ---------------------------
(***************************************************************************)
(* The read workloads of one platform: all_read_workloads runs them one    *)
(* after another on the main thread; each one makes its calls through a    *)
(* Deadline, whose single worker thread runs the query while the main      *)
(* thread waits at most timeout_s for the future; a connection error is    *)
(* retried after adapter.reset_connection().  The transport is the Bolt    *)
(* one, whose sessions are thread-local.                                   *)
(***************************************************************************)
EXTENDS Naturals

CONSTANTS NumWorkloads,   \* read workloads, run in a fixed order
          Warmup,         \* workloads.warmup
          Iterations,     \* workloads.iterations
          Attempts,       \* len(RETRY_BACKOFF_S)
          MaxReconnects,  \* MAX_RECONNECTS
          NumKeys,        \* start keys, taken in rotation
          Answers,        \* what a query may return
          NoAnswer        \* a start key for which no answer is recorded

ASSUME ReadAssumption ==
  /\ NumWorkloads \in Nat \ {0}
  /\ Warmup \in Nat
  /\ Iterations \in Nat \ {0}
  /\ Attempts \in Nat \ {0}
  /\ MaxReconnects \in Nat
  /\ NumKeys \in Nat \ {0}
  /\ NoAnswer \notin Answers

\* Definitions whose name begins with Slip are the next definition with a mistake
\* in it.  Nothing uses them: each is there to be substituted for that definition,
\* to see that a property notices.

VARIABLES
  main,      \* the main thread: about to call Deadline.run, in future.result, done
  wl,        \* the workload it is running
  index,     \* the call of that workload: 0 .. Warmup + Iterations - 1
  attempt,   \* the attempt at that call
  future,    \* the future of the current Deadline.run
  poisoned,  \* the workloads whose Deadline is poisoned
  thread,    \* per workload, the worker thread of its Deadline
  session,   \* the thread-local session of the main thread and of each worker
  result,    \* the ReadResult of each workload
  checks,    \* ReadResult.checks
  warmed     \* history: the warm-up calls of each workload that succeeded

vars == <<main, wl, index, attempt, future, poisoned, thread, session, result,
          checks, warmed>>

Workloads == 1 .. NumWorkloads
Calls == Warmup + Iterations
Keys == 0 .. NumKeys - 1
KeyOf(i) == i % NumKeys

---------------------------------------------------------------------------
\* The exceptions a call can raise, by what they say:
\*   "query"        the statement is refused (syntax, constraint, missing key)
\*   "memory"       the engine is out of memory and the connection survives
\*   "dropped"      a connection lost during the call (defunct, reset, refused)
\*   "unreachable"  the driver's ServiceUnavailable: Couldn't connect to ...
\*   "timed_out"    a builtin TimeoutError raised below the driver (ETIMEDOUT)
Raised == {"query", "memory", "dropped", "unreachable", "timed_out"}

\* The phrases are matched against the lower-case "<type> <text>".  "service
\* unavailable", with its space, is in neither the type name ServiceUnavailable
\* nor the text of that error.
IsConnectionError(e) == e = "dropped"
IsResourceError(e) == e \in {"memory", "dropped"}
IsMemoryError(e) == IsResourceError(e) /\ ~ IsConnectionError(e)
IsFatal(e) == IsResourceError(e)

\* A future is unused, running, or resolved by a value or an exception.
Unused  == [state |-> "unused"]
Running == [state |-> "running"]
Value(v) == [state |-> "value", value |-> v]
Error(e) == [state |-> "error", error |-> e]
Futures == {Unused, Running} \cup {Value(v) : v \in Answers} \cup {Error(e) : e \in Raised}

ReadResults == [samples : Nat, errors : Nat, timeouts : Nat,
                reconnects : 0 .. MaxReconnects,
                abandoned : BOOLEAN, first_call : BOOLEAN]

NewResult == [samples |-> 0, errors |-> 0, timeouts |-> 0, reconnects |-> 0,
              abandoned |-> FALSE, first_call |-> FALSE]

\* What is recorded of a call: a warm-up (keeping the first call's time), a sample,
\* an error, a reconnect, an error that abandons the workload, a timeout.
Warm(r, isFirst) == [r EXCEPT !.first_call = @ \/ isFirst]
Sample(r) == [r EXCEPT !.samples = @ + 1]
Fail(r) == [r EXCEPT !.errors = @ + 1]
Reconnect(r) == [r EXCEPT !.reconnects = @ + 1]
GiveUp(r) == [r EXCEPT !.errors = @ + 1, !.abandoned = TRUE]
TimedOut(r) == [r EXCEPT !.errors = @ + 1, !.timeouts = @ + 1, !.abandoned = TRUE]

\* The main thread (0) has used the adapter to load the graph, so it has a
\* session; a Deadline's worker gets one with its first call.
MainThread == 0

Init ==
  /\ main = "ready"
  /\ wl = 1
  /\ index = 0
  /\ attempt = 1
  /\ future = Unused
  /\ poisoned = {}
  /\ thread = [w \in Workloads |-> "idle"]
  /\ session = [t \in {MainThread} \cup Workloads |-> IF t = MainThread THEN "live" ELSE "none"]
  /\ result = [w \in Workloads |-> NewResult]
  /\ checks = [w \in Workloads |-> [k \in Keys |-> NoAnswer]]
  /\ warmed = [w \in Workloads |-> 0]

---------------------------------------------------------------------------
(* The main thread.                                                        *)

\* Deadline.run hands the call to the worker.  A poisoned Deadline would raise
\* at once; DeadlineFree says that never happens.  The worker's _session()
\* creates the session if the worker has none.
Submit ==
  /\ main = "ready"
  /\ wl \notin poisoned
  /\ main' = "waiting"
  /\ future' = Running
  /\ thread' = [thread EXCEPT ![wl] = "busy"]
  /\ session' = [session EXCEPT ![wl] = IF @ = "none" THEN "live" ELSE @]
  /\ UNCHANGED <<wl, index, attempt, poisoned, result, checks, warmed>>

\* run_read_workload returns, and the next one starts with a new Deadline.
Return ==
  /\ wl' = wl + 1
  /\ index' = 0
  /\ main' = IF wl < NumWorkloads THEN "ready" ELSE "done"

SlipAdvance ==  \* one call too many
  /\ attempt' = 1
  /\ future' = Unused
  /\ IF index + 1 <= Calls
     THEN index' = index + 1 /\ main' = "ready" /\ UNCHANGED wl
     ELSE Return

\* The loop goes on with the next call, or is over.
Advance ==
  /\ attempt' = 1
  /\ future' = Unused
  /\ IF index + 1 < Calls
     THEN index' = index + 1 /\ main' = "ready" /\ UNCHANGED wl
     ELSE Return

SlipSetDefault(recorded, value) == value  \* checks[key] = value

\* checks.setdefault(key, value)
SetDefault(recorded, value) == IF recorded = NoAnswer THEN value ELSE recorded

Succeed ==
  /\ main = "waiting"
  /\ future.state = "value"
  /\ IF index < Warmup
     THEN /\ result' = [result EXCEPT ![wl] = Warm(@, index = 0)]
          /\ warmed' = [warmed EXCEPT ![wl] = @ + 1]
          /\ UNCHANGED checks
     ELSE /\ result' = [result EXCEPT ![wl] = Sample(@)]
          /\ checks' = [checks EXCEPT ![wl][KeyOf(index)] =
                                     SetDefault(@, future.value)]
          /\ UNCHANGED warmed
  /\ Advance
  /\ UNCHANGED <<poisoned, thread, session>>

SlipShouldRetry(e) ==  \* gives up one attempt early
  /\ attempt + 1 < Attempts
  /\ IsConnectionError(e)
  /\ result[wl].reconnects < MaxReconnects

\* should_retry: a connection error, attempts left, reconnects left.
ShouldRetry(e) ==
  /\ attempt < Attempts
  /\ IsConnectionError(e)
  /\ ~ IsMemoryError(e)
  /\ result[wl].reconnects < MaxReconnects

\* A TimeoutError is an instance of concurrent.futures.TimeoutError, and takes
\* the ceiling's branch instead of this one.
Caught == main = "waiting" /\ future.state = "error" /\ future.error # "timed_out"

SlipRetry ==  \* the failed attempt is counted as an error as well
  /\ Caught
  /\ ShouldRetry(future.error)
  /\ result' = [result EXCEPT ![wl] = Fail(Reconnect(@))]
  /\ session' = [session EXCEPT ![MainThread] = "none"]
  /\ attempt' = attempt + 1
  /\ future' = Unused
  /\ main' = "ready"
  /\ UNCHANGED <<wl, index, poisoned, thread, checks, warmed>>

\* reset_connection runs here, on the main thread: the session it closes and
\* forgets is the main thread's own.
Retry ==
  /\ Caught
  /\ ShouldRetry(future.error)
  /\ result' = [result EXCEPT ![wl] = Reconnect(@)]
  /\ session' = [session EXCEPT ![MainThread] = "none"]
  /\ attempt' = attempt + 1
  /\ future' = Unused
  /\ main' = "ready"
  /\ UNCHANGED <<wl, index, poisoned, thread, checks, warmed>>

SlipCount ==  \* the error is dropped
  /\ Caught
  /\ ~ ShouldRetry(future.error)
  /\ ~ IsFatal(future.error)
  /\ Advance
  /\ UNCHANGED <<poisoned, thread, session, result, checks, warmed>>

\* An ordinary error costs one iteration.
Count ==
  /\ Caught
  /\ ~ ShouldRetry(future.error)
  /\ ~ IsFatal(future.error)
  /\ result' = [result EXCEPT ![wl] = Fail(@)]
  /\ Advance
  /\ UNCHANGED <<poisoned, thread, session, checks, warmed>>

\* A fatal one ends the workload.
Abandon ==
  /\ Caught
  /\ ~ ShouldRetry(future.error)
  /\ IsFatal(future.error)
  /\ result' = [result EXCEPT ![wl] = GiveUp(@)]
  /\ attempt' = 1
  /\ future' = Unused
  /\ Return
  /\ UNCHANGED <<poisoned, thread, session, checks, warmed>>

SlipExpireAndGoOn ==  \* the timeout costs one iteration, like an ordinary error
  /\ main = "waiting"
  /\ future \in {Running, Error("timed_out")}
  /\ result' = [result EXCEPT ![wl] = [TimedOut(@) EXCEPT !.abandoned = FALSE]]
  /\ Advance
  /\ UNCHANGED <<poisoned, thread, session, checks, warmed>>

SlipExpireUncounted ==  \* fail(exc) without timed_out=True
  /\ main = "waiting"
  /\ future \in {Running, Error("timed_out")}
  /\ poisoned' = poisoned \cup {wl}
  /\ result' = [result EXCEPT ![wl] = [TimedOut(@) EXCEPT !.timeouts = 0]]
  /\ attempt' = 1
  /\ future' = Unused
  /\ Return
  /\ UNCHANGED <<thread, session, checks, warmed>>

SlipExpireOnAnswer ==  \* elapsed is compared with the ceiling once the call returns
  /\ main = "waiting"
  /\ future = Error("timed_out")
  /\ poisoned' = poisoned \cup {wl}
  /\ result' = [result EXCEPT ![wl] = TimedOut(@)]
  /\ attempt' = 1
  /\ future' = Unused
  /\ Return
  /\ UNCHANGED <<thread, session, checks, warmed>>

\* future.result raises TimeoutError: because timeout_s has passed, or because
\* that is what the call itself raised.  The Deadline is poisoned, its worker is
\* left to finish alone, and the workload ends.
Expire ==
  /\ main = "waiting"
  /\ future \in {Running, Error("timed_out")}
  /\ poisoned' = poisoned \cup {wl}
  /\ result' = [result EXCEPT ![wl] = TimedOut(@)]
  /\ attempt' = 1
  /\ future' = Unused
  /\ Return
  /\ UNCHANGED <<thread, session, checks, warmed>>

---------------------------------------------------------------------------
(* A worker thread, the driver and the engine.  A worker whose future has  *)
(* been abandoned still ends one day, or never.                            *)

SlipResolve(w, outcome) ==  \* one Deadline for all workloads: a late answer is taken
  /\ thread[w] = "busy"
  /\ thread' = [thread EXCEPT ![w] = "idle"]
  /\ future' = IF main = "waiting" THEN outcome ELSE future
  /\ UNCHANGED <<main, wl, index, attempt, poisoned, result, checks, warmed>>

Resolve(w, outcome) ==
  /\ thread[w] = "busy"
  /\ thread' = [thread EXCEPT ![w] = "idle"]
  /\ future' = IF w = wl THEN outcome ELSE future
  /\ UNCHANGED <<main, wl, index, attempt, poisoned, result, checks, warmed>>

\* A session that lost its connection may find another one by itself.
AnswerCall(w) ==
  \E v \in Answers :
    /\ Resolve(w, Value(v))
    /\ session' = [session EXCEPT ![w] = "live"]

FailCall(w) ==
  \E e \in Raised :
    /\ Resolve(w, Error(e))
    /\ session' = [session EXCEPT ![w] = IF e = "dropped" THEN "defunct" ELSE @]

Finished == main = "done" /\ UNCHANGED vars

MainStep == Submit \/ Succeed \/ Retry \/ Count \/ Abandon \/ Expire

Next ==
  \/ MainStep
  \/ \E w \in Workloads : AnswerCall(w) \/ FailCall(w)
  \/ Finished

\* The main thread is never descheduled for good and its timer expires; an
\* engine owes nobody an answer.
Spec == Init /\ [][Next]_vars /\ WF_vars(MainStep)
---------------------------------------------------------------------------
(* Properties.                                                             *)

TypeOK ==
  /\ main \in {"ready", "waiting", "done"}
  /\ wl \in 1 .. NumWorkloads + 1
  /\ index \in 0 .. Calls - 1
  /\ attempt \in 1 .. Attempts
  /\ future \in Futures
  /\ poisoned \subseteq Workloads
  /\ thread \in [Workloads -> {"idle", "busy"}]
  /\ session \in [{MainThread} \cup Workloads -> {"none", "live", "defunct"}]
  /\ result \in [Workloads -> ReadResults]
  /\ checks \in [Workloads -> [Keys -> Answers \cup {NoAnswer}]]
  /\ warmed \in [Workloads -> Nat]

\* A call is never queued behind an earlier one: whenever the main thread calls
\* Deadline.run the worker is free and the Deadline unpoisoned, so what the timer
\* measures is the query and the "worker still blocked" branch is never taken.
DeadlineFree ==
  main = "ready" => thread[wl] = "idle" /\ wl \notin poisoned

\* The value or exception that future.result hands to the main thread is that of
\* the call it is waiting for, never the late one of a call given up before.
OwnAnswer ==
  /\ future.state \in {"value", "error"} => main = "waiting" /\ thread[wl] = "idle"
  /\ future = Running => main = "waiting" /\ thread[wl] = "busy"

\* Every call of a workload is counted exactly once, whatever the retries: as a
\* successful warm-up, a sample or an error.  A workload that returned without
\* being abandoned has counted them all, and never has more samples than
\* measured iterations.
CountersBalance ==
  \A w \in Workloads :
    LET counted == warmed[w] + result[w].samples + result[w].errors
    IN  /\ w = wl => counted = index
        /\ w > wl => counted = 0
        /\ w < wl => IF result[w].abandoned THEN counted \in 1 .. Calls ELSE counted = Calls
        /\ result[w].samples <= Iterations

\* A query still running on the server when a later workload is being measured is
\* one of a workload whose result says so: abandoned, with exactly one timeout.
OrphansDisclosed ==
  \A w \in Workloads :
    /\ w < wl /\ thread[w] = "busy" => result[w].abandoned /\ result[w].timeouts = 1
    /\ result[w].timeouts = IF w \in poisoned THEN 1 ELSE 0

\* What makes the four invariants above inductive: the current workload is not yet
\* abandoned and the later ones are untouched; the main thread waits exactly when
\* there is a future; samples come after the warm-up.
Untouched(w) ==
  /\ thread[w] = "idle"
  /\ w \notin poisoned
  /\ result[w] = NewResult
  /\ warmed[w] = 0

Bookkeeping ==
  /\ main = "done" <=> wl = NumWorkloads + 1
  /\ main = "waiting" <=> future # Unused
  /\ wl \notin poisoned
  /\ main = "done" => index = 0
  /\ \A w \in Workloads :
       /\ w > wl => Untouched(w)
       /\ w = wl => /\ ~ result[w].abandoned
                    /\ result[w].samples <= IF index > Warmup THEN index - Warmup ELSE 0
       /\ (\E k \in Keys : checks[w][k] # NoAnswer) <=> result[w].samples > 0

IInv == /\ TypeOK
        /\ DeadlineFree
        /\ OwnAnswer
        /\ CountersBalance
        /\ OrphansDisclosed
        /\ Bookkeeping

\* The answer compared across platforms is the first measured one for its start
\* key: a later, different answer does not replace it, and a workload has answers
\* exactly when it has samples.
FirstAnswerStays ==
  [][\A w \in Workloads :
       /\ \A k \in Keys : checks[w][k] # NoAnswer => checks'[w][k] = checks[w][k]
       /\ (\E k \in Keys : checks'[w][k] # NoAnswer) <=> result'[w].samples > 0]_vars

\* A lost connection ends a workload only when the attempts at that call or the
\* reconnects of that workload are used up; an exhausted heap is never retried.
RetryPolicy ==
  [][/\ future = Error("dropped") /\ poisoned' = poisoned =>
          \A w \in Workloads : ~ result[w].abandoned /\ result'[w].abandoned =>
            attempt = Attempts \/ result[w].reconnects = MaxReconnects
     /\ future = Error("memory") =>
          \A w \in Workloads : result'[w].reconnects = result[w].reconnects]_vars

\* The sequence of read workloads comes to its end even if the engine never
\* answers anything: the ceiling is enforced on the client side.
AllReturn == <>(main = "done")

\* What the results say, forgetting threads, attempts and sessions.
Book == [w \in Workloads |->
           [warmed  |-> warmed[w],
            samples |-> result[w].samples,
            errors  |-> result[w].errors,
            status  |-> IF result[w].abandoned THEN "abandoned"
                        ELSE IF w < wl THEN "complete" ELSE "open"]]

Contract == INSTANCE ReadContract WITH book <- Book

\* The read workloads keep the contract their results are read by: one verdict
\* per call, in order, whatever is retried, timed out or late.
RefinesContract == Contract!Spec

---------------------------------------------------------------------------
(* What comments and tests of the code say, and the code does not do.      *)

\* "Worth another go through a fresh connection" (should_retry): a retried call
\* does not run on the session that has just lost its connection.
RetryOnFreshSession ==
  [][main = "ready" /\ main' = "waiting" /\ attempt > 1 => session[wl] # "defunct"]_vars

\* "A call exceeded the per-query ceiling" (QueryTimeout): a timeout is counted
\* only for a call that has not answered yet.
TimeoutMeansCeiling ==
  [][\A w \in Workloads :
       result'[w].timeouts > result[w].timeouts => future = Running]_vars

\* "Connection loss is treated as a resource problem" (errors.py): an iteration
\* lost to the connection is never counted as an ordinary error.
LossIsNotShruggedOff ==
  [][\A w \in Workloads :
       /\ future \in {Error("dropped"), Error("unreachable")}
       /\ result'[w].errors > result[w].errors
       => result'[w].abandoned]_vars
===========================================================================
