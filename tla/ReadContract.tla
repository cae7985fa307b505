--------------------------- MODULE ReadContract ---------------------------
(***************************************************************************)
(* What a sequence of read workloads promises to whoever reads its         *)
(* results: the workloads run one after another, every call of a workload  *)
(* gets exactly one verdict, and a workload is closed either because all   *)
(* of its calls have a verdict or because the last verdict was one that    *)
(* abandons it.  Retries, ceilings, threads and sessions are invisible at  *)
(* this level.                                                             *)
(***************************************************************************)
EXTENDS Naturals

CONSTANTS NumWorkloads,  \* read workloads of one platform, run in order
          Warmup,        \* unmeasured calls at the start of each
          Iterations     \* measured calls of each

VARIABLE book            \* per workload: the verdicts given and its status

Workloads == 1 .. NumWorkloads
Calls == Warmup + Iterations

Entry == [warmed : Nat, samples : Nat, errors : Nat,
          status : {"open", "complete", "abandoned"}]

Verdicts(e) == e.warmed + e.samples + e.errors

Init == book = [w \in Workloads |->
                  [warmed |-> 0, samples |-> 0, errors |-> 0, status |-> "open"]]

\* Calls of w are only answered while w is open and all earlier ones are closed.
Turn(w) == /\ book[w].status = "open"
           /\ \A v \in Workloads : v < w => book[v].status # "open"

\* The status of an open workload that has just got its n-th verdict.
StatusAfter(n) == IF n < Calls THEN "open" ELSE "complete"

\* The entry with one verdict more.
WithWarmed(e) == [warmed |-> e.warmed + 1, samples |-> e.samples, errors |-> e.errors,
                  status |-> StatusAfter(Verdicts(e) + 1)]
WithSample(e) == [warmed |-> e.warmed, samples |-> e.samples + 1, errors |-> e.errors,
                  status |-> StatusAfter(Verdicts(e) + 1)]
WithError(e, status) == [warmed |-> e.warmed, samples |-> e.samples,
                         errors |-> e.errors + 1, status |-> status]

\* Warm-up calls leave no sample; they are the first calls of a workload.
Warmed(w) ==
  /\ Turn(w)
  /\ Verdicts(book[w]) < Warmup
  /\ book' = [book EXCEPT ![w] = WithWarmed(@)]

Measured(w) ==
  /\ Turn(w)
  /\ Verdicts(book[w]) \in Warmup .. Calls - 1
  /\ book' = [book EXCEPT ![w] = WithSample(@)]

Failed(w) ==
  /\ Turn(w)
  /\ Verdicts(book[w]) < Calls
  /\ \E status \in {"abandoned", StatusAfter(Verdicts(book[w]) + 1)} :
       book' = [book EXCEPT ![w] = WithError(@, status)]

Next == \E w \in Workloads : Warmed(w) \/ Measured(w) \/ Failed(w)

Spec == Init /\ [][Next]_book
===========================================================================
