------------------------ MODULE ReadWorkloadProofs ------------------------
(***************************************************************************)
(* ReadWorkload for every number of workloads, calls, attempts and start   *)
(* keys: its invariants, from the inductive IInv, and that it implements   *)
(* ReadContract.                                                           *)
(***************************************************************************)
EXTENDS ReadWorkload, TLAPS

\* Rotating through the start keys always lands on one of them (keys[i % len(keys)]).
LEMMA KeyOfType == ASSUME NEW i \in Nat PROVE KeyOf(i) \in Keys
  BY ReadAssumption DEF KeyOf, Keys

\* The initial state satisfies every part of the invariant.
LEMMA InitIInv == Init => IInv
<1> USE ReadAssumption
<1> SUFFICES ASSUME Init PROVE IInv
  OBVIOUS
<1>1. TypeOK
  BY DEF Init, TypeOK, Workloads, Keys, Calls, Futures, Unused, NewResult, ReadResults, MainThread
<1>2. DeadlineFree /\ OwnAnswer /\ CountersBalance /\ OrphansDisclosed
  BY DEF Init, DeadlineFree, OwnAnswer, CountersBalance, OrphansDisclosed,
         Workloads, Calls, Unused, Running, NewResult
<1>3. Bookkeeping
  BY DEF Init, Bookkeeping, Untouched, Workloads, Calls, Unused, NewResult, Keys
<1> QED
  BY <1>1, <1>2, <1>3 DEF IInv

\* The updates a step makes to one ReadResult keep it one.
LEMMA ResultUpdates ==
  ASSUME NEW r \in ReadResults
  PROVE  /\ \A b \in BOOLEAN : Warm(r, b) \in ReadResults
         /\ Sample(r) \in ReadResults
         /\ Fail(r) \in ReadResults
         /\ GiveUp(r) \in ReadResults
         /\ TimedOut(r) \in ReadResults
         /\ r.reconnects < MaxReconnects => Reconnect(r) \in ReadResults
<1> USE ReadAssumption DEF ReadResults
<1>1. \A b \in BOOLEAN : Warm(r, b) \in ReadResults
  BY DEF Warm
<1>2. Sample(r) \in ReadResults
  BY DEF Sample
<1>3. Fail(r) \in ReadResults
  BY DEF Fail
<1>a. ASSUME NEW q \in ReadResults
      PROVE  /\ [q EXCEPT !.abandoned = TRUE] \in ReadResults
             /\ [q EXCEPT !.timeouts = @ + 1] \in ReadResults
  <2>1. [q EXCEPT !.abandoned = TRUE] \in ReadResults
    OBVIOUS
  <2>2. [q EXCEPT !.timeouts = @ + 1] \in ReadResults
    OBVIOUS
  <2> QED
    BY <2>1, <2>2
<1>4. GiveUp(r) \in ReadResults
  <2> HIDE DEF ReadResults
  <2> QED
    BY <1>3, <1>a DEF Fail, GiveUp
<1>5. TimedOut(r) \in ReadResults
  <2> HIDE DEF ReadResults
  <2> QED
    BY <1>3, <1>a DEF Fail, TimedOut
<1>6. ASSUME r.reconnects < MaxReconnects PROVE Reconnect(r) \in ReadResults
  <2>1. r.reconnects + 1 \in 0 .. MaxReconnects
    BY <1>6
  <2> QED
    BY <2>1 DEF Reconnect
<1> QED
  BY <1>1, <1>2, <1>3, <1>4, <1>5, <1>6

\* A step of the main thread is a step of one of the workloads.
LEMMA MainInRange ==
  TypeOK /\ Bookkeeping /\ main # "done" => wl \in Workloads /\ wl # NumWorkloads + 1
  BY ReadAssumption DEF TypeOK, Bookkeeping, Workloads

\* The constructors of futures build futures.
LEMMA FutureTypes ==
  /\ Unused \in Futures /\ Running \in Futures
  /\ \A v \in Answers : Value(v) \in Futures
  /\ \A e \in Raised : Error(e) \in Futures
  /\ \A f \in Futures : f.state = "value" => f.value \in Answers
  /\ \A f \in Futures : f.state = "error" => f.error \in Raised
<1> USE DEF Futures, Unused, Running, Value, Error
<1>1. /\ Unused \in Futures /\ Running \in Futures
      /\ \A v \in Answers : Value(v) \in Futures
      /\ \A e \in Raised : Error(e) \in Futures
  OBVIOUS
<1>2. ASSUME NEW f \in Futures, f.state = "value" PROVE f.value \in Answers
  BY <1>2
<1>3. ASSUME NEW f \in Futures, f.state = "error" PROVE f.error \in Raised
  BY <1>3
<1> QED
  BY <1>1, <1>2, <1>3

\* Leaving a workload keeps main, wl and index in range.
LEMMA ReturnType ==
  ASSUME TypeOK, wl \in Workloads, Return
  PROVE  /\ wl' \in 1 .. NumWorkloads + 1
         /\ index' \in 0 .. Calls - 1
         /\ main' \in {"ready", "waiting", "done"}
  BY ReadAssumption DEF TypeOK, Return, Workloads, Calls

\* Going on to the next call, or leaving after the last one, keeps them in range too.
LEMMA AdvanceType ==
  ASSUME TypeOK, wl \in Workloads, Advance
  PROVE  /\ attempt' \in 1 .. Attempts
         /\ future' \in Futures
         /\ wl' \in 1 .. NumWorkloads + 1
         /\ index' \in 0 .. Calls - 1
         /\ main' \in {"ready", "waiting", "done"}
<1> USE ReadAssumption
<1>1. attempt' \in 1 .. Attempts /\ future' \in Futures
  BY FutureTypes DEF Advance
<1>2. CASE index + 1 < Calls
  BY <1>1, <1>2 DEF TypeOK, Advance, Calls, Workloads
<1>3. CASE ~ (index + 1 < Calls)
  BY <1>1, <1>3, ReturnType DEF Advance
<1> QED
  BY <1>2, <1>3

\* Every step keeps the types; Bookkeeping says the main thread only steps while there
\* is a workload left.
LEMMA TypeStep == TypeOK /\ Bookkeeping /\ [Next]_vars => TypeOK'
<1> USE ReadAssumption DEF TypeOK
<1> SUFFICES ASSUME TypeOK, Bookkeeping, [Next]_vars PROVE TypeOK'
  OBVIOUS
<1>1. CASE Submit
  <2>1. wl \in Workloads
    BY <1>1, MainInRange DEF Submit
  <2> QED
    BY <1>1, <2>1, FutureTypes DEF Submit
<1>2. CASE Succeed
  <2>1. wl \in Workloads
    BY <1>2, MainInRange DEF Succeed
  <2>2. result[wl] \in ReadResults /\ future.value \in Answers /\ Advance
    BY <1>2, <2>1, FutureTypes DEF Succeed
  <2>3. result' \in [Workloads -> ReadResults] /\ warmed' \in [Workloads -> Nat]
    <3>1. CASE index < Warmup
      <4>1. (index = 0) \in BOOLEAN
        OBVIOUS
      <4>2. Warm(result[wl], index = 0) \in ReadResults
        BY <4>1, <2>2, ResultUpdates
      <4> QED
        BY <1>2, <2>1, <3>1, <4>2 DEF Succeed
    <3>2. CASE ~ (index < Warmup)
      BY <1>2, <2>1, <2>2, <3>2, ResultUpdates DEF Succeed
    <3> QED
      BY <3>1, <3>2
  <2>4. checks' \in [Workloads -> [Keys -> Answers \cup {NoAnswer}]]
    <3>1. index \in Nat
      BY DEF Calls
    <3>2. KeyOf(index) \in Keys
      BY <3>1, KeyOfType
    <3> QED
      <4> DEFINE v == SetDefault(checks[wl][KeyOf(index)], future.value)
                 c == [checks[wl] EXCEPT ![KeyOf(index)] = v]
      <4>1. v \in Answers \cup {NoAnswer}
        BY <2>1, <2>2, <3>2 DEF SetDefault
      <4>2. c \in [Keys -> Answers \cup {NoAnswer}]
        BY <2>1, <4>1
      <4>3. checks' \in {checks, [checks EXCEPT ![wl] = c]}
        BY <1>2 DEF Succeed
      <4> HIDE DEF c
      <4> QED
        BY <2>1, <4>2, <4>3
  <2> QED
    BY <1>2, <2>1, <2>2, <2>3, <2>4, AdvanceType DEF Succeed
<1>3. CASE Retry
  <2>1. wl \in Workloads
    BY <1>3, MainInRange DEF Retry, Caught
  <2>2. result' \in [Workloads -> ReadResults]
    BY <1>3, <2>1, ResultUpdates DEF Retry, ShouldRetry
  <2> QED
    BY <1>3, <2>1, <2>2, FutureTypes DEF Retry, ShouldRetry, MainThread
<1>4. CASE Count
  <2>1. wl \in Workloads
    BY <1>4, MainInRange DEF Count, Caught
  <2>2. result' \in [Workloads -> ReadResults]
    BY <1>4, <2>1, ResultUpdates DEF Count
  <2> QED
    BY <1>4, <2>1, <2>2, AdvanceType DEF Count
<1>5. CASE Abandon
  <2>1. wl \in Workloads
    BY <1>5, MainInRange DEF Abandon, Caught
  <2>2. result' \in [Workloads -> ReadResults]
    BY <1>5, <2>1, ResultUpdates DEF Abandon
  <2> QED
    BY <1>5, <2>1, <2>2, ReturnType, FutureTypes DEF Abandon
<1>6. CASE Expire
  <2>1. wl \in Workloads
    BY <1>6, MainInRange DEF Expire
  <2>2. result' \in [Workloads -> ReadResults]
    BY <1>6, <2>1, ResultUpdates DEF Expire
  <2> QED
    BY <1>6, <2>1, <2>2, ReturnType, FutureTypes DEF Expire
<1>7. ASSUME NEW w \in Workloads, AnswerCall(w) PROVE TypeOK'
  BY <1>7, FutureTypes DEF AnswerCall, Resolve
<1>8. ASSUME NEW w \in Workloads, FailCall(w) PROVE TypeOK'
  BY <1>8, FutureTypes DEF FailCall, Resolve
<1>9. CASE UNCHANGED vars
  BY <1>9 DEF vars
<1> QED
  BY <1>1, <1>2, <1>3, <1>4, <1>5, <1>6, <1>7, <1>8, <1>9
     DEF Next, MainStep, Finished

\* What the updates do to the fields the invariant speaks of.
SameCounts(q, r) == /\ q.samples = r.samples
                    /\ q.errors = r.errors
                    /\ q.timeouts = r.timeouts
                    /\ q.abandoned = r.abandoned

\* What each update of a ReadResult does to its counts and its abandoned flag.
LEMMA UpdatedFields ==
  ASSUME NEW r \in ReadResults
  PROVE  /\ \A b \in BOOLEAN : SameCounts(Warm(r, b), r)
         /\ SameCounts(Reconnect(r), r)
         /\ /\ Sample(r).samples = r.samples + 1 /\ Sample(r).errors = r.errors
            /\ Sample(r).timeouts = r.timeouts /\ Sample(r).abandoned = r.abandoned
         /\ /\ Fail(r).samples = r.samples /\ Fail(r).errors = r.errors + 1
            /\ Fail(r).timeouts = r.timeouts /\ Fail(r).abandoned = r.abandoned
         /\ /\ GiveUp(r).samples = r.samples /\ GiveUp(r).errors = r.errors + 1
            /\ GiveUp(r).timeouts = r.timeouts /\ GiveUp(r).abandoned
         /\ /\ TimedOut(r).samples = r.samples /\ TimedOut(r).errors = r.errors + 1
            /\ TimedOut(r).timeouts = r.timeouts + 1 /\ TimedOut(r).abandoned
  BY DEF ReadResults, SameCounts, Warm, Reconnect, Sample, Fail, GiveUp, TimedOut

\* The steps that settle the current call: only the current workload's record
\* changes, it counts one call more, and either the loop advances or the
\* workload is abandoned.
OthersKept ==
  /\ thread' = thread
  /\ \A w \in Workloads \ {wl} :
       result'[w] = result[w] /\ warmed'[w] = warmed[w] /\ checks'[w] = checks[w]

OneMoreCounted ==
  /\ warmed'[wl] + result'[wl].samples + result'[wl].errors = index + 1
  /\ result'[wl].samples <= IF index + 1 > Warmup THEN index + 1 - Warmup ELSE 0
  /\ (\E k \in Keys : checks'[wl][k] # NoAnswer) <=> result'[wl].samples > 0

GoesOnOrEnds ==
  \/ /\ Advance
     /\ ~ result'[wl].abandoned
     /\ poisoned' = poisoned
     /\ result'[wl].timeouts = result[wl].timeouts
     /\ thread[wl] = "idle"
  \/ /\ Return
     /\ future' = Unused
     /\ result'[wl].abandoned
     /\ poisoned' = poisoned
     /\ result'[wl].timeouts = result[wl].timeouts
     /\ thread[wl] = "idle"
  \/ /\ Return
     /\ future' = Unused
     /\ result'[wl].abandoned
     /\ poisoned' = poisoned \cup {wl}
     /\ result'[wl].timeouts = result[wl].timeouts + 1

\* A step that settles the current call keeps the invariant, whether the loop goes on
\* or the workload ends.
LEMMA Settled ==
  ASSUME IInv, TypeOK', wl \in Workloads, OthersKept, OneMoreCounted, GoesOnOrEnds
  PROVE  IInv'
<1> USE ReadAssumption DEF Workloads
<1>1. /\ wl \in 1 .. NumWorkloads /\ index \in 0 .. Calls - 1
      /\ Calls = Warmup + Iterations /\ Calls \in Nat \ {0}
  BY DEF IInv, TypeOK, Calls
<1>2. \/ wl' = wl /\ index' = index + 1 /\ index + 1 < Calls /\ main' = "ready"
         /\ ~ result'[wl].abandoned
      \/ wl' = wl + 1 /\ index' = 0 /\ main' = (IF wl < NumWorkloads THEN "ready" ELSE "done")
         /\ (result'[wl].abandoned \/ index + 1 = Calls)
  BY <1>1 DEF GoesOnOrEnds, Advance, Return
<1>3. future' = Unused
  BY DEF GoesOnOrEnds, Advance
<1>4. DeadlineFree' /\ OwnAnswer'
  <2>1. wl \notin poisoned /\ \A w \in Workloads : w > wl => Untouched(w)
    BY DEF IInv, Bookkeeping
  <2>2. OwnAnswer'
    BY <1>3 DEF OwnAnswer, Unused, Running
  <2>3. DeadlineFree'
    BY <1>1, <1>2, <2>1 DEF GoesOnOrEnds, OthersKept, DeadlineFree, Untouched, Advance
  <2> QED
    BY <2>2, <2>3
<1>5. CountersBalance'
  <2> SUFFICES ASSUME NEW w \in Workloads
               PROVE  LET counted == warmed'[w] + result'[w].samples + result'[w].errors
                      IN  /\ w = wl' => counted = index'
                          /\ w > wl' => counted = 0
                          /\ w < wl' => IF result'[w].abandoned THEN counted \in 1 .. Calls
                                        ELSE counted = Calls
                          /\ result'[w].samples <= Iterations
    BY DEF CountersBalance
  <2>1. CASE w = wl
    <3>1. result'[w].samples \in Nat
      BY DEF TypeOK, ReadResults
    <3> QED
      BY <1>1, <1>2, <2>1, <3>1 DEF OneMoreCounted
  <2>2. CASE w # wl
    <3>1. result'[w] = result[w] /\ warmed'[w] = warmed[w]
      BY <2>2 DEF OthersKept
    <3> QED
      BY <1>1, <1>2, <2>2, <3>1 DEF IInv, CountersBalance
  <2> QED
    BY <2>1, <2>2
<1>6. OrphansDisclosed'
  <2> SUFFICES ASSUME NEW w \in Workloads
               PROVE  /\ w < wl' /\ thread[w] = "busy" =>
                           result'[w].abandoned /\ result'[w].timeouts = 1
                      /\ result'[w].timeouts = IF w \in poisoned' THEN 1 ELSE 0
    BY DEF OrphansDisclosed, OthersKept
  <2>1. CASE w = wl
    <3>1. wl \notin poisoned /\ result[wl].timeouts = 0
      BY DEF IInv, Bookkeeping, OrphansDisclosed
    <3> QED
      BY <1>1, <1>2, <2>1, <3>1 DEF GoesOnOrEnds
  <2>2. CASE w # wl
    <3>1. result'[w] = result[w] /\ (w \in poisoned' <=> w \in poisoned)
      BY <2>2 DEF OthersKept, GoesOnOrEnds
    <3> QED
      BY <1>1, <1>2, <2>2, <3>1 DEF IInv, OrphansDisclosed
  <2> QED
    BY <2>1, <2>2
<1>7. Bookkeeping'
  <2>1. /\ (main = "done" <=> wl = NumWorkloads + 1)'
        /\ (main = "waiting" <=> future # Unused)'
        /\ (main = "done" => index = 0)'
    BY <1>1, <1>2, <1>3
  <2>2. (wl \notin poisoned)'
    BY <1>1, <1>2 DEF GoesOnOrEnds, Advance, IInv, TypeOK, Bookkeeping, Untouched
  <2>3. ASSUME NEW w \in Workloads, w > wl' PROVE Untouched(w)'
    <3>1. w > wl /\ w # wl
      BY <1>1, <1>2, <2>3
    <3>2. Untouched(w)
      BY <3>1 DEF IInv, Bookkeeping
    <3>3. w \notin poisoned'
      BY <3>1, <3>2 DEF GoesOnOrEnds, Untouched
    <3> QED
      BY <3>1, <3>2, <3>3 DEF Untouched, OthersKept
  <2>4. ASSUME NEW w \in Workloads, w = wl'
        PROVE  /\ ~ result'[w].abandoned
               /\ result'[w].samples <= IF index' > Warmup THEN index' - Warmup ELSE 0
    <3>1. CASE w = wl
      BY <1>1, <1>2, <2>4, <3>1 DEF OneMoreCounted
    <3>2. CASE w # wl
      <4>1. w > wl /\ Untouched(w) /\ result'[w] = result[w] /\ index' = 0
        BY <1>1, <1>2, <2>4, <3>2 DEF IInv, Bookkeeping, OthersKept
      <4> QED
        BY <4>1 DEF Untouched, NewResult
    <3> QED
      BY <3>1, <3>2
  <2>5. ASSUME NEW w \in Workloads
        PROVE  (\E k \in Keys : checks'[w][k] # NoAnswer) <=> result'[w].samples > 0
    <3>1. CASE w = wl
      BY <3>1 DEF OneMoreCounted
    <3>2. CASE w # wl
      BY <3>2 DEF OthersKept, IInv, Bookkeeping
    <3> QED
      BY <3>1, <3>2
  <2> QED
    BY <2>1, <2>2, <2>3, <2>4, <2>5 DEF Bookkeeping
<1> QED
  BY <1>4, <1>5, <1>6, <1>7 DEF IInv

\* What the invariant says of the workload being measured.
LEMMA Current ==
  ASSUME IInv, wl \in Workloads
  PROVE  /\ result[wl] \in ReadResults
         /\ warmed[wl] + result[wl].samples + result[wl].errors = index
         /\ warmed[wl] \in Nat /\ index \in Nat
         /\ result[wl].samples \in Nat /\ result[wl].errors \in Nat
         /\ ~ result[wl].abandoned
         /\ result[wl].samples <= IF index > Warmup THEN index - Warmup ELSE 0
         /\ (\E k \in Keys : checks[wl][k] # NoAnswer) <=> result[wl].samples > 0
<1> USE ReadAssumption
<1>1. result[wl] \in ReadResults /\ warmed[wl] \in Nat /\ index \in Nat
  BY DEF IInv, TypeOK, Calls
<1>2. result[wl].samples \in Nat /\ result[wl].errors \in Nat
  BY <1>1 DEF ReadResults
<1>3. warmed[wl] + result[wl].samples + result[wl].errors = index
  BY DEF IInv, CountersBalance
<1>4. /\ ~ result[wl].abandoned
      /\ result[wl].samples <= IF index > Warmup THEN index - Warmup ELSE 0
      /\ (\E k \in Keys : checks[wl][k] # NoAnswer) <=> result[wl].samples > 0
  BY DEF IInv, Bookkeeping
<1> QED
  BY <1>1, <1>2, <1>3, <1>4

\* Which verdict the current call gets.
OneVerdict ==
  \/ /\ index < Warmup
     /\ warmed'[wl] = warmed[wl] + 1
     /\ result'[wl].samples = result[wl].samples
     /\ result'[wl].errors = result[wl].errors
     /\ ~ result'[wl].abandoned
  \/ /\ ~ (index < Warmup)
     /\ warmed'[wl] = warmed[wl]
     /\ result'[wl].samples = result[wl].samples + 1
     /\ result'[wl].errors = result[wl].errors
     /\ ~ result'[wl].abandoned
  \/ /\ warmed'[wl] = warmed[wl]
     /\ result'[wl].samples = result[wl].samples
     /\ result'[wl].errors = result[wl].errors + 1

\* The steps that give a call its verdict.
LEMMA VerdictSteps ==
  ASSUME IInv, TypeOK', Succeed \/ Count \/ Abandon \/ Expire
  PROVE  wl \in Workloads /\ OthersKept /\ OneMoreCounted /\ GoesOnOrEnds /\ OneVerdict
<1> USE ReadAssumption DEF Workloads
<1>t. TypeOK
  BY DEF IInv
<1>c. wl \in Workloads => /\ result[wl] \in ReadResults
                          /\ warmed[wl] + result[wl].samples + result[wl].errors = index
                          /\ warmed[wl] \in Nat /\ index \in Nat
                          /\ result[wl].samples \in Nat /\ result[wl].errors \in Nat
                          /\ ~ result[wl].abandoned
                          /\ result[wl].samples <= IF index > Warmup THEN index - Warmup ELSE 0
                          /\ (\E k \in Keys : checks[wl][k] # NoAnswer) <=> result[wl].samples > 0
  BY Current
<1> USE DEF Unused, Running, Value, Error
<1>1. CASE Succeed
  <2>1. wl \in Workloads
    BY <1>1, MainInRange DEF Succeed, IInv
  <2>2. thread[wl] = "idle" /\ Advance
    BY <1>1 DEF Succeed, IInv, OwnAnswer
  <2>3. CASE index < Warmup
    <3>1. /\ result' = [result EXCEPT ![wl] = Warm(@, index = 0)]
          /\ warmed' = [warmed EXCEPT ![wl] = @ + 1] /\ checks' = checks
          /\ poisoned' = poisoned /\ thread' = thread
      BY <1>1, <2>3 DEF Succeed
    <3>2. (index = 0) \in BOOLEAN
      OBVIOUS
    <3>3. /\ result'[wl].samples = result[wl].samples /\ result'[wl].errors = result[wl].errors
          /\ result'[wl].timeouts = result[wl].timeouts
          /\ result'[wl].abandoned = result[wl].abandoned
      <4>1. result'[wl] = Warm(result[wl], index = 0)
        BY <1>t, <2>1, <3>1 DEF TypeOK
      <4>2. SameCounts(Warm(result[wl], index = 0), result[wl])
        BY <1>c, <2>1, <3>2, UpdatedFields
      <4> QED
        BY <4>1, <4>2 DEF SameCounts
    <3>4. OthersKept
      BY <1>t, <2>1, <3>1 DEF OthersKept, TypeOK
    <3>5. OneMoreCounted
      <4>1. warmed'[wl] = warmed[wl] + 1
        BY <1>t, <2>1, <3>1 DEF TypeOK
      <4>2. warmed'[wl] + result'[wl].samples + result'[wl].errors = index + 1
        BY <1>c, <2>1, <3>3, <4>1
      <4>3. result'[wl].samples <= IF index + 1 > Warmup THEN index + 1 - Warmup ELSE 0
        BY <1>c, <2>1, <2>3, <3>3
      <4> QED
        BY <1>c, <2>1, <3>1, <3>3, <4>2, <4>3 DEF OneMoreCounted
    <3>6. GoesOnOrEnds
      BY <1>c, <2>1, <2>2, <3>1, <3>3 DEF GoesOnOrEnds
    <3> QED
      BY <2>1, <2>3, <1>c, <1>t, <3>1, <3>3, <3>4, <3>5, <3>6 DEF OneVerdict, TypeOK
  <2>4. CASE ~ (index < Warmup)
    <3>1. /\ result' = [result EXCEPT ![wl] = Sample(@)]
          /\ checks' = [checks EXCEPT ![wl][KeyOf(index)] = SetDefault(@, future.value)]
          /\ poisoned' = poisoned /\ thread' = thread /\ warmed' = warmed
      BY <1>1, <2>4 DEF Succeed
    <3>2. /\ result'[wl].samples = result[wl].samples + 1
          /\ result'[wl].errors = result[wl].errors
          /\ result'[wl].timeouts = result[wl].timeouts
          /\ result'[wl].abandoned = result[wl].abandoned
      BY <1>t, <1>c, <2>1, <3>1, UpdatedFields DEF TypeOK
    <3>3. checks'[wl][KeyOf(index)] # NoAnswer /\ KeyOf(index) \in Keys
      <4>1. KeyOf(index) \in Keys
        BY <1>c, <2>1, KeyOfType
      <4>2. future.value \in Answers
        BY <1>1, <1>t, FutureTypes DEF Succeed, TypeOK
      <4>3. checks'[wl][KeyOf(index)] = SetDefault(checks[wl][KeyOf(index)], future.value)
        BY <1>t, <2>1, <3>1, <4>1 DEF TypeOK
      <4> QED
        BY <4>1, <4>2, <4>3 DEF SetDefault
    <3>4. OthersKept
      BY <1>t, <2>1, <3>1 DEF OthersKept, TypeOK
    <3>5. OneMoreCounted
      BY <1>t, <1>c, <2>1, <2>4, <3>1, <3>2, <3>3 DEF OneMoreCounted
    <3>6. GoesOnOrEnds
      BY <1>c, <2>1, <2>2, <3>1, <3>2 DEF GoesOnOrEnds
    <3> QED
      BY <1>c, <2>1, <2>4, <3>1, <3>2, <3>4, <3>5, <3>6 DEF OneVerdict
  <2> QED
    BY <2>3, <2>4
<1>2. CASE Count
  <2>1. wl \in Workloads
    BY <1>2, MainInRange DEF Count, Caught, IInv
  <2>2. /\ result' = [result EXCEPT ![wl] = Fail(@)]
        /\ thread' = thread /\ checks' = checks /\ warmed' = warmed
    BY <1>2 DEF Count
  <2>3. /\ result'[wl].samples = result[wl].samples
        /\ result'[wl].errors = result[wl].errors + 1
        /\ result'[wl].timeouts = result[wl].timeouts /\ ~ result'[wl].abandoned
    BY <1>t, <1>c, <2>1, <2>2, UpdatedFields DEF TypeOK
  <2>4. OthersKept
    BY <1>t, <2>1, <2>2 DEF OthersKept, TypeOK
  <2>5. OneMoreCounted
    BY <1>c, <2>1, <2>2, <2>3 DEF OneMoreCounted
  <2>6. GoesOnOrEnds
    BY <1>2, <1>c, <2>1, <2>3 DEF GoesOnOrEnds, Count, Caught, IInv, OwnAnswer
  <2> QED
    BY <2>1, <2>2, <2>3, <2>4, <2>5, <2>6 DEF OneVerdict
<1>3. CASE Abandon
  <2>1. wl \in Workloads
    BY <1>3, MainInRange DEF Abandon, Caught, IInv
  <2>2. /\ result' = [result EXCEPT ![wl] = GiveUp(@)]
        /\ thread' = thread /\ checks' = checks /\ warmed' = warmed
    BY <1>3 DEF Abandon
  <2>3. /\ result'[wl].samples = result[wl].samples
        /\ result'[wl].errors = result[wl].errors + 1
        /\ result'[wl].timeouts = result[wl].timeouts /\ result'[wl].abandoned
    BY <1>t, <1>c, <2>1, <2>2, UpdatedFields DEF TypeOK
  <2>4. OthersKept
    BY <1>t, <2>1, <2>2 DEF OthersKept, TypeOK
  <2>5. OneMoreCounted
    BY <1>c, <2>1, <2>2, <2>3 DEF OneMoreCounted
  <2>6. GoesOnOrEnds
    BY <1>3, <1>c, <2>1, <2>3 DEF GoesOnOrEnds, Abandon, Caught, IInv, OwnAnswer
  <2> QED
    BY <2>1, <2>2, <2>3, <2>4, <2>5, <2>6 DEF OneVerdict
<1>4. CASE Expire
  <2>1. wl \in Workloads
    BY <1>4, MainInRange DEF Expire, IInv
  <2>2. /\ result' = [result EXCEPT ![wl] = TimedOut(@)]
        /\ thread' = thread /\ checks' = checks /\ warmed' = warmed
    BY <1>4 DEF Expire
  <2>3. /\ result'[wl].samples = result[wl].samples
        /\ result'[wl].errors = result[wl].errors + 1
        /\ result'[wl].timeouts = result[wl].timeouts + 1 /\ result'[wl].abandoned
    BY <1>t, <1>c, <2>1, <2>2, UpdatedFields DEF TypeOK
  <2>4. OthersKept
    BY <1>t, <2>1, <2>2 DEF OthersKept, TypeOK
  <2>5. OneMoreCounted
    BY <1>c, <2>1, <2>2, <2>3 DEF OneMoreCounted
  <2>6. GoesOnOrEnds
    BY <1>4, <1>c, <2>1, <2>3 DEF GoesOnOrEnds, Expire, IInv, OwnAnswer
  <2> QED
    BY <2>1, <2>2, <2>3, <2>4, <2>5, <2>6 DEF OneVerdict
<1> QED
  BY <1>1, <1>2, <1>3, <1>4

\* Every step preserves the invariant.
LEMMA InvStep == IInv /\ [Next]_vars => IInv'
<1> USE ReadAssumption DEF Workloads
<1> SUFFICES ASSUME IInv, [Next]_vars PROVE IInv'
  OBVIOUS
<1>t. TypeOK /\ TypeOK'
  BY TypeStep DEF IInv
<1> USE DEF Unused, Running, Value, Error
<1>1. CASE Submit
  <2>1. wl \in Workloads
    BY <1>1, MainInRange DEF Submit, IInv
  <2>2. thread' = [thread EXCEPT ![wl] = "busy"] /\ thread \in [Workloads -> {"idle", "busy"}]
    BY <1>1, <1>t DEF Submit, TypeOK
  <2>3. DeadlineFree' /\ OwnAnswer'
    BY <1>1, <2>1, <2>2 DEF Submit, IInv, DeadlineFree, OwnAnswer
  <2>4. CountersBalance'
    BY <1>1 DEF Submit, IInv, CountersBalance
  <2>5. OrphansDisclosed'
    BY <1>1, <2>1, <2>2 DEF Submit, IInv, OrphansDisclosed
  <2>6. Bookkeeping'
    BY <1>1, <2>1, <2>2 DEF Submit, IInv, Bookkeeping, Untouched
  <2> QED
    BY <1>t, <2>3, <2>4, <2>5, <2>6 DEF IInv
<1>2. CASE Succeed \/ Count \/ Abandon \/ Expire
  BY <1>2, <1>t, VerdictSteps, Settled
<1>3. CASE Retry
  <2>1. wl \in Workloads
    BY <1>3, MainInRange DEF Retry, Caught, IInv
  <2>2. ASSUME NEW w \in Workloads
        PROVE  /\ result'[w].samples = result[w].samples /\ result'[w].errors = result[w].errors
               /\ result'[w].timeouts = result[w].timeouts
               /\ result'[w].abandoned = result[w].abandoned
               /\ w # wl => result'[w] = result[w]
    <3>1. result' = [result EXCEPT ![wl] = Reconnect(@)]
      BY <1>3 DEF Retry
    <3>2. SameCounts(result'[wl], result[wl])
      <4>1. result'[wl] = Reconnect(result[wl])
        BY <1>t, <2>1, <3>1 DEF TypeOK
      <4> QED
        BY <2>1, <4>1, Current, UpdatedFields
    <3>3. w # wl => result'[w] = result[w]
      BY <1>t, <2>1, <3>1 DEF TypeOK
    <3> QED
      BY <3>2, <3>3 DEF SameCounts
  <2>3. /\ thread' = thread /\ poisoned' = poisoned /\ checks' = checks /\ warmed' = warmed
        /\ wl' = wl /\ index' = index /\ future' = Unused /\ main' = "ready"
        /\ thread[wl] = "idle"
    BY <1>3 DEF Retry, Caught, IInv, OwnAnswer
  <2>4. DeadlineFree' /\ OwnAnswer'
    BY <2>3 DEF IInv, DeadlineFree, OwnAnswer, Bookkeeping
  <2>5. CountersBalance'
    BY <2>2, <2>3 DEF IInv, CountersBalance
  <2>6. OrphansDisclosed'
    BY <2>2, <2>3 DEF IInv, OrphansDisclosed
  <2>7. Bookkeeping'
    <3>1. /\ (main = "done" <=> wl = NumWorkloads + 1)'
          /\ (main = "waiting" <=> future # Unused)'
          /\ (wl \notin poisoned)' /\ (main = "done" => index = 0)'
      BY <2>1, <2>3 DEF IInv, Bookkeeping
    <3>2. ASSUME NEW w \in Workloads, w > wl PROVE Untouched(w)'
      BY <1>t, <2>1, <2>2, <2>3, <3>2 DEF IInv, Bookkeeping, Untouched, TypeOK
    <3>3. ASSUME NEW w \in Workloads, w = wl
          PROVE  /\ ~ result'[w].abandoned
                 /\ result'[w].samples <= IF index > Warmup THEN index - Warmup ELSE 0
      BY <2>2, <3>3 DEF IInv, Bookkeeping
    <3>4. ASSUME NEW w \in Workloads
          PROVE  (\E k \in Keys : checks'[w][k] # NoAnswer) <=> result'[w].samples > 0
      BY <2>2, <2>3 DEF IInv, Bookkeeping
    <3> QED
      BY <2>3, <3>1, <3>2, <3>3, <3>4 DEF Bookkeeping
  <2> QED
    BY <1>t, <2>4, <2>5, <2>6, <2>7 DEF IInv
<1>4. ASSUME NEW w \in Workloads, NEW o, Resolve(w, o), o.state \in {"value", "error"}
      PROVE  IInv'
  <2>1. thread' = [thread EXCEPT ![w] = "idle"] /\ thread \in [Workloads -> {"idle", "busy"}]
    BY <1>4, <1>t DEF Resolve, TypeOK
  <2>2. w = wl => main = "waiting"
    <3>1. wl \in Workloads => main # "done"
      BY <1>t DEF IInv, Bookkeeping, TypeOK
    <3> QED
      BY <1>4, <1>t, <3>1 DEF Resolve, IInv, DeadlineFree, TypeOK
  <2>3. DeadlineFree' /\ OwnAnswer'
    BY <1>4, <2>1, <2>2 DEF Resolve, IInv, DeadlineFree, OwnAnswer
  <2>4. CountersBalance'
    BY <1>4 DEF Resolve, IInv, CountersBalance
  <2>5. OrphansDisclosed'
    BY <1>4, <2>1 DEF Resolve, IInv, OrphansDisclosed
  <2>6. Bookkeeping'
    BY <1>4, <2>1, <2>2 DEF Resolve, IInv, Bookkeeping, Untouched
  <2> QED
    BY <1>t, <2>3, <2>4, <2>5, <2>6 DEF IInv
<1>5. ASSUME NEW w \in Workloads, AnswerCall(w) PROVE IInv'
  BY <1>5, <1>4 DEF AnswerCall
<1>6. ASSUME NEW w \in Workloads, FailCall(w) PROVE IInv'
  BY <1>6, <1>4 DEF FailCall
<1>7. CASE UNCHANGED vars
  BY <1>7, <1>t DEF vars, IInv, DeadlineFree, OwnAnswer, CountersBalance, OrphansDisclosed,
               Bookkeeping, Untouched
<1> QED
  BY <1>1, <1>2, <1>3, <1>5, <1>6, <1>7 DEF Next, MainStep, Finished

\* The inductive invariant holds in every state of every behaviour.
THEOREM Invariant == Spec => []IInv
  BY InitIInv, InvStep, PTL DEF Spec

\* The state of the read workloads keeps its type (reads.py, deadline.py).
THEOREM TypeCorrect == Spec => []TypeOK
<1>1. IInv => TypeOK
  BY DEF IInv
<1> QED
  BY <1>1, Invariant, PTL

\* Deadline.run is only ever called with its worker free and unpoisoned, so the
\* ceiling times the query and nothing else (deadline.py).
THEOREM DeadlineAlwaysFree == Spec => []DeadlineFree
<1>1. IInv => DeadlineFree
  BY DEF IInv
<1> QED
  BY <1>1, Invariant, PTL

\* The main thread never takes the late answer of a call it gave up for the answer
\* of the call it waits for (deadline.py: one Deadline per workload).
THEOREM AnswersAreOwn == Spec => []OwnAnswer
<1>1. IInv => OwnAnswer
  BY DEF IInv
<1> QED
  BY <1>1, Invariant, PTL

\* Every call of every workload is counted once (reads.py, both loops).
THEOREM CountersAlwaysBalance == Spec => []CountersBalance
<1>1. IInv => CountersBalance
  BY DEF IInv
<1> QED
  BY <1>1, Invariant, PTL

\* A query left running behind a later workload is owned up to in the results.
THEOREM OrphansAlwaysDisclosed == Spec => []OrphansDisclosed
<1>1. IInv => OrphansDisclosed
  BY DEF IInv
<1> QED
  BY <1>1, Invariant, PTL

\* The recorded answers of a workload are written once per start key, and exist
\* exactly when it has samples (checks.setdefault).
THEOREM FirstAnswersStay == Spec => FirstAnswerStays
<1>1. ASSUME IInv, IInv', [Next]_vars
      PROVE  \A w \in Workloads :
               /\ \A k \in Keys : checks[w][k] # NoAnswer => checks'[w][k] = checks[w][k]
               /\ (\E k \in Keys : checks'[w][k] # NoAnswer) <=> result'[w].samples > 0
  <2> SUFFICES ASSUME NEW w \in Workloads
               PROVE  /\ \A k \in Keys : checks[w][k] # NoAnswer => checks'[w][k] = checks[w][k]
                      /\ (\E k \in Keys : checks'[w][k] # NoAnswer) <=> result'[w].samples > 0
    OBVIOUS
  <2>1. (\E k \in Keys : checks'[w][k] # NoAnswer) <=> result'[w].samples > 0
    BY <1>1 DEF IInv, Bookkeeping
  <2>2. ASSUME NEW k \in Keys, checks[w][k] # NoAnswer PROVE checks'[w][k] = checks[w][k]
    <3>1. CASE Succeed /\ ~ (index < Warmup)
      <4>1. checks' = [checks EXCEPT ![wl][KeyOf(index)] = SetDefault(@, future.value)]
        BY <3>1 DEF Succeed
      <4>2. checks \in [Workloads -> [Keys -> Answers \cup {NoAnswer}]]
        BY <1>1 DEF IInv, TypeOK
      <4> QED
        BY <2>2, <4>1, <4>2 DEF SetDefault
    <3>2. CASE ~ (Succeed /\ ~ (index < Warmup))
      <4>1. checks' = checks
        BY <1>1, <3>2 DEF Next, MainStep, Submit, Succeed, Retry, Count, Abandon, Expire,
                          AnswerCall, FailCall, Resolve, Finished, vars
      <4> QED
        BY <4>1
    <3> QED
      BY <3>1, <3>2
  <2> QED
    BY <2>1, <2>2
<1> QED
  BY <1>1, Invariant, PTL DEF Spec, FirstAnswerStays

\* A dropped connection ends a workload only when attempts or reconnects are used
\* up, and memory exhaustion costs no reconnect (should_retry).
THEOREM RetriesFollowPolicy == Spec => RetryPolicy
<1>1. ASSUME IInv, [Next]_vars
      PROVE  /\ future = Error("dropped") /\ poisoned' = poisoned =>
                  \A w \in Workloads : ~ result[w].abandoned /\ result'[w].abandoned =>
                    attempt = Attempts \/ result[w].reconnects = MaxReconnects
             /\ future = Error("memory") =>
                  \A w \in Workloads : result'[w].reconnects = result[w].reconnects
  <2> USE ReadAssumption
  <2>t. TypeOK /\ wl \notin poisoned
    BY <1>1 DEF IInv, Bookkeeping
  <2>1. ASSUME future = Error("dropped"), poisoned' = poisoned, NEW w \in Workloads,
               ~ result[w].abandoned, result'[w].abandoned
        PROVE  attempt = Attempts \/ result[w].reconnects = MaxReconnects
    <3>1. Abandon /\ w = wl
      <4>1. /\ future.state = "error" /\ future.error = "dropped"
        BY <2>1 DEF Error
      <4>2. ~ Succeed /\ ~ Count /\ ~ Expire
        BY <2>t, <2>1, <4>1 DEF Succeed, Count, Expire, IsFatal, IsResourceError, Running, Error
      <4>3. wl \in Workloads \/ ~ (Retry \/ Abandon)
        BY <1>1, MainInRange DEF IInv, Retry, Abandon, Caught
      <4>4. ~ Retry
        <5> SUFFICES ASSUME Retry PROVE FALSE
          OBVIOUS
        <5>1. result' = [result EXCEPT ![wl] = Reconnect(@)] /\ wl \in Workloads
          BY <4>3 DEF Retry
        <5>2. result[w] \in ReadResults /\ result'[w] \in {result[w], Reconnect(result[w])}
          BY <2>t, <5>1 DEF TypeOK
        <5>3. SameCounts(Reconnect(result[w]), result[w])
          BY <5>2, UpdatedFields
        <5> QED
          BY <2>1, <5>2, <5>3 DEF SameCounts
      <4>5. Abandon \/ result' = result
        BY <1>1, <4>2, <4>4 DEF Next, MainStep, Submit, AnswerCall, FailCall, Resolve,
                                Finished, vars
      <4>6. Abandon
        BY <2>1, <4>5
      <4>7. w = wl
        BY <2>t, <2>1, <4>6 DEF Abandon, TypeOK
      <4> QED
        BY <4>6, <4>7
    <3>2. ~ ShouldRetry(future.error) /\ future.error = "dropped"
      BY <2>1, <3>1 DEF Abandon, Error
    <3>3. attempt \in 1 .. Attempts /\ result[wl].reconnects \in 0 .. MaxReconnects
      BY <2>t, <2>1, <3>1 DEF TypeOK, ReadResults
    <3> QED
      BY <3>1, <3>2, <3>3 DEF ShouldRetry, IsConnectionError, IsMemoryError, IsResourceError
  <2>2. ASSUME future = Error("memory"), NEW w \in Workloads
        PROVE  result'[w].reconnects = result[w].reconnects
    <3>1. future.state = "error" /\ future.error = "memory"
      BY <2>2 DEF Error
    <3>2. ~ Succeed /\ ~ Count /\ ~ Expire /\ ~ Retry
      BY <3>1 DEF Succeed, Count, Expire, Retry, ShouldRetry, IsFatal, IsResourceError,
                  IsConnectionError, Running, Error
    <3>3. Abandon \/ result' = result
      BY <1>1, <3>2 DEF Next, MainStep, Submit, AnswerCall, FailCall, Resolve, Finished, vars
    <3>4. CASE Abandon
      <4>1. wl \in Workloads /\ result' = [result EXCEPT ![wl] = GiveUp(@)]
        BY <1>1, <3>4, MainInRange DEF IInv, Abandon, Caught
      <4>2. result[w] \in ReadResults /\ result'[w] \in {result[w], GiveUp(result[w])}
        BY <2>t, <4>1 DEF TypeOK
      <4> QED
        BY <4>2 DEF GiveUp, ReadResults
    <3> QED
      BY <3>3, <3>4
  <2> QED
    BY <2>1, <2>2
<1> QED
  BY <1>1, Invariant, PTL DEF Spec, RetryPolicy

---------------------------------------------------------------------------
(* Termination                                                             *)

\* Where the main thread is in the loops of all_read_workloads and run_read_workload; and
\* that it has got further, within their bounds: in a later workload, or at a later call of
\* this one, or at a later attempt at that call, or waiting for the attempt it was about to
\* make.
Place == <<wl, index, attempt, main>>
Further ==
  \/ wl' = wl + 1 /\ wl <= NumWorkloads
  \/ wl' = wl /\ index' = index + 1 /\ index' < Calls
  \/ UNCHANGED <<wl, index>> /\ attempt' = attempt + 1 /\ attempt' <= Attempts
  \/ UNCHANGED <<wl, index, attempt>> /\ main = "ready" /\ main' = "waiting"

OnlyForward ==
  [][/\ MainStep => Further
     /\ ~ MainStep => UNCHANGED <<Place, poisoned, result, checks, warmed>>]_vars

\* No step of the main thread leads back, and no step of a worker, current or given up,
\* moves it or records anything.  So it makes at most two steps for each attempt at each
\* call of each workload, whatever the engine does.  It is what AllReturn rests on
\* (reads.py, both loops; deadline.py).
THEOREM MainOnlyForward == Spec => OnlyForward
<1>1. ASSUME IInv, IInv', [Next]_vars
      PROVE  /\ MainStep => Further
             /\ ~ MainStep => UNCHANGED <<Place, poisoned, result, checks, warmed>>
  <2>r. /\ wl' \in 1 .. NumWorkloads + 1 /\ index' \in 0 .. Calls - 1
        /\ attempt' \in 1 .. Attempts /\ Calls \in Nat
    BY <1>1, ReadAssumption DEF IInv, TypeOK, Calls
  <2>1. ASSUME MainStep PROVE Further
    <3>0. wl \in Workloads
      BY <1>1, <2>1, MainInRange DEF IInv, MainStep, Submit, Succeed, Retry, Count, Abandon,
                                    Expire, Caught
    <3>1. CASE Submit
      BY <3>1 DEF Submit, Further
    <3>2. CASE Retry
      BY <2>r, <3>2 DEF Retry, Further
    <3>3. CASE Succeed \/ Count
      <4>1. Advance
        BY <3>3 DEF Succeed, Count
      <4> QED
        BY <2>r, <3>0, <4>1 DEF Advance, Return, Further, Workloads
    <3>4. CASE Abandon \/ Expire
      <4>1. wl' = wl + 1
        BY <3>4 DEF Abandon, Expire, Return
      <4> QED
        BY <3>0, <4>1, ReadAssumption DEF Further, Workloads
    <3> QED
      BY <2>1, <3>1, <3>2, <3>3, <3>4 DEF MainStep
  <2>2. ASSUME ~ MainStep PROVE UNCHANGED <<Place, poisoned, result, checks, warmed>>
    BY <1>1, <2>2 DEF Next, AnswerCall, FailCall, Resolve, Finished, vars, Place
  <2> QED
    BY <2>1, <2>2
<1> QED
  BY <1>1, Invariant, PTL DEF Spec, OnlyForward

---------------------------------------------------------------------------
(* The refinement of ReadContract                                          *)

\* The verdicts of the current workload, as ReadContract sees them: it is its turn,
\* and its entry records one verdict per call made so far.
LEMMA MyTurn ==
  ASSUME IInv, wl \in Workloads
  PROVE  /\ Contract!Turn(wl)
         /\ Contract!Verdicts(Book[wl]) = index
         /\ Book[wl].warmed = warmed[wl]
         /\ Book[wl].samples = result[wl].samples
         /\ Book[wl].errors = result[wl].errors
         /\ index \in 0 .. Calls - 1
<1>1. Book[wl].status = "open"
  BY Current DEF Book, Workloads
<1>2. ASSUME NEW v \in Workloads, v < wl PROVE Book[v].status # "open"
  BY <1>2 DEF Book
<1>3. /\ Book[wl].warmed = warmed[wl] /\ Book[wl].samples = result[wl].samples
      /\ Book[wl].errors = result[wl].errors
  BY DEF Book
<1>4. index \in 0 .. Calls - 1
  BY DEF IInv, TypeOK
<1> QED
  BY <1>1, <1>2, <1>3, <1>4, Current DEF Contract!Turn, Contract!Workloads, Contract!Verdicts,
     Workloads

\* The entry a verdict leaves behind.
LEMMA EntryAfter ==
  ASSUME IInv, IInv', Succeed \/ Count \/ Abandon \/ Expire
  PROVE  Book' = [Book EXCEPT ![wl] =
                    [warmed  |-> warmed'[wl],
                     samples |-> result'[wl].samples,
                     errors  |-> result'[wl].errors,
                     status  |-> IF result'[wl].abandoned THEN "abandoned"
                                 ELSE Contract!StatusAfter(index + 1)]]
<1> USE ReadAssumption
<1>1. wl \in Workloads /\ OthersKept /\ GoesOnOrEnds
  BY VerdictSteps DEF IInv
<1>2. wl \in 1 .. NumWorkloads /\ index \in 0 .. Calls - 1 /\ Calls \in Nat
  BY <1>1 DEF IInv, TypeOK, Workloads, Calls
<1>3. \/ wl' = wl /\ index + 1 < Calls /\ ~ result'[wl].abandoned
      \/ wl' = wl + 1 /\ (result'[wl].abandoned \/ index + 1 = Calls)
  BY <1>1, <1>2 DEF GoesOnOrEnds, Advance, Return
<1>4. ASSUME NEW w \in Workloads, w # wl PROVE Book'[w] = Book[w]
  <2>1. result'[w] = result[w] /\ warmed'[w] = warmed[w]
    BY <1>1, <1>4 DEF OthersKept
  <2>2. w < wl' <=> w < wl
    BY <1>2, <1>3, <1>4 DEF Workloads
  <2> QED
    BY <2>1, <2>2 DEF Book
<1>5. Book'[wl] = [warmed  |-> warmed'[wl],
                   samples |-> result'[wl].samples,
                   errors  |-> result'[wl].errors,
                   status  |-> IF result'[wl].abandoned THEN "abandoned"
                               ELSE Contract!StatusAfter(index + 1)]
  <2>1. Book'[wl] = [warmed  |-> warmed'[wl],
                     samples |-> result'[wl].samples,
                     errors  |-> result'[wl].errors,
                     status  |-> IF result'[wl].abandoned THEN "abandoned"
                                 ELSE IF wl < wl' THEN "complete" ELSE "open"]
    BY <1>1 DEF Book
  <2>2. ~ result'[wl].abandoned =>
          (IF wl < wl' THEN "complete" ELSE "open") = Contract!StatusAfter(index + 1)
    BY <1>2, <1>3 DEF Contract!StatusAfter, Contract!Calls, Calls
  <2> QED
    BY <2>1, <2>2
<1> QED
  BY <1>1, <1>4, <1>5 DEF Book

\* A step of the program gives one verdict of the contract, or is invisible to it.
LEMMA ContractStep == IInv /\ IInv' /\ [Next]_vars => [Contract!Next]_Book
<1> USE ReadAssumption
<1> SUFFICES ASSUME IInv, IInv', [Next]_vars PROVE [Contract!Next]_Book
  OBVIOUS
<1>1. CASE Succeed \/ Count \/ Abandon \/ Expire
  <2>1. wl \in Workloads /\ OneVerdict /\ OneMoreCounted
    BY <1>1, VerdictSteps DEF IInv
  <2>2. /\ Contract!Turn(wl) /\ Contract!Verdicts(Book[wl]) = index
        /\ Book[wl].warmed = warmed[wl] /\ Book[wl].samples = result[wl].samples
        /\ Book[wl].errors = result[wl].errors /\ index \in 0 .. Calls - 1
    BY <2>1, MyTurn
  <2> DEFINE status == IF result'[wl].abandoned THEN "abandoned"
                       ELSE Contract!StatusAfter(index + 1)
             entry == [warmed |-> warmed'[wl], samples |-> result'[wl].samples,
                       errors |-> result'[wl].errors, status |-> status]
  <2>3. Book' = [Book EXCEPT ![wl] = entry]
    BY <1>1, EntryAfter
  <2> HIDE DEF entry
  <2>4. CASE /\ index < Warmup /\ warmed'[wl] = warmed[wl] + 1
             /\ result'[wl].samples = result[wl].samples
             /\ result'[wl].errors = result[wl].errors /\ ~ result'[wl].abandoned
    <3>0. status = Contract!StatusAfter(index + 1)
      BY <2>4
    <3> HIDE DEF status
    <3>1. entry = Contract!WithWarmed(Book[wl])
      BY <2>2, <2>4, <3>0 DEF entry, Contract!WithWarmed
    <3>2. Contract!Warmed(wl)
      BY <2>2, <2>3, <2>4, <3>1 DEF Contract!Warmed
    <3> QED
      BY <2>1, <3>2 DEF Contract!Next, Contract!Workloads, Workloads
  <2>5. CASE /\ ~ (index < Warmup) /\ warmed'[wl] = warmed[wl]
             /\ result'[wl].samples = result[wl].samples + 1
             /\ result'[wl].errors = result[wl].errors /\ ~ result'[wl].abandoned
    <3>0. status = Contract!StatusAfter(index + 1)
      BY <2>5
    <3> HIDE DEF status
    <3>1. entry = Contract!WithSample(Book[wl])
      BY <2>2, <2>5, <3>0 DEF entry, Contract!WithSample
    <3>2. index \in Warmup .. Contract!Calls - 1
      BY <2>2, <2>5 DEF Contract!Calls, Calls
    <3>3. Contract!Measured(wl)
      BY <2>2, <2>3, <3>1, <3>2 DEF Contract!Measured
    <3> QED
      BY <2>1, <3>3 DEF Contract!Next, Contract!Workloads, Workloads
  <2>6. CASE /\ warmed'[wl] = warmed[wl] /\ result'[wl].samples = result[wl].samples
             /\ result'[wl].errors = result[wl].errors + 1
    <3>2. status \in {"abandoned", Contract!StatusAfter(index + 1)}
      OBVIOUS
    <3> HIDE DEF status
    <3>1. entry = Contract!WithError(Book[wl], status)
      BY <2>2, <2>6 DEF entry, Contract!WithError
    <3>3. index < Contract!Calls
      BY <2>2 DEF Contract!Calls, Calls
    <3>4. Contract!Failed(wl)
      BY <2>2, <2>3, <3>1, <3>2, <3>3 DEF Contract!Failed
    <3> QED
      BY <2>1, <3>4 DEF Contract!Next, Contract!Workloads, Workloads
  <2> QED
    BY <2>1, <2>4, <2>5, <2>6 DEF OneVerdict
<1>2. CASE Retry
  <2>1. wl \in Workloads
    BY <1>2, MainInRange DEF Retry, Caught, IInv
  <2>2. /\ result' = [result EXCEPT ![wl] = Reconnect(@)] /\ warmed' = warmed /\ wl' = wl
        /\ result \in [Workloads -> ReadResults]
    BY <1>2 DEF Retry, IInv, TypeOK
  <2>3. ASSUME NEW w \in Workloads PROVE SameCounts(result'[w], result[w])
    <3>1. result[w] \in ReadResults /\ result'[w] \in {result[w], Reconnect(result[w])}
      BY <2>2
    <3>2. SameCounts(Reconnect(result[w]), result[w])
      BY <3>1, UpdatedFields
    <3> QED
      BY <3>1, <3>2 DEF SameCounts
  <2>4. Book' = Book
    BY <2>2, <2>3 DEF Book, SameCounts
  <2> QED
    BY <2>4
<1>3. CASE UNCHANGED <<result, warmed, wl>>
  BY <1>3 DEF Book
<1>4. Submit => UNCHANGED <<result, warmed, wl>>
  BY DEF Submit
<1>5. ASSUME NEW w \in Workloads, AnswerCall(w) \/ FailCall(w)
      PROVE  UNCHANGED <<result, warmed, wl>>
  BY <1>5 DEF AnswerCall, FailCall, Resolve
<1>6. UNCHANGED vars => UNCHANGED <<result, warmed, wl>>
  BY DEF vars
<1> QED
  BY <1>1, <1>2, <1>3, <1>4, <1>5, <1>6 DEF Next, MainStep, Finished

\* The read workloads implement their contract: whatever is retried, timed out or
\* answered late, the results read as one verdict per call, in order.
THEOREM ImplementsContract == Spec => RefinesContract
<1>1. Init => Contract!Init
  BY ReadAssumption DEF Init, Contract!Init, Book, NewResult, Workloads, Contract!Workloads
<1> QED
  BY <1>1, ContractStep, Invariant, PTL DEF Spec, RefinesContract, Contract!Spec

============================================================================
