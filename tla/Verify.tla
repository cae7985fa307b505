------------------------------- MODULE Verify -------------------------------
(***************************************************************************)
(* verify.compare: what the records of a run say about one another.  A     *)
(* record has the platform and, per read workload that was run, the value  *)
(* expected (a set, empty where there is none) and the checks: the first   *)
(* answer to each input.  A workload is a pair, <<"traversal", depth>> for *)
(* a traversal.                                                            *)
(***************************************************************************)
EXTENDS Naturals

\* Every answer of every platform.
AnswersOf(r) ==
  UNION {{[platform |-> r.platform, workload |-> w, key |-> k, value |-> r.reads[w].checks[k]] :
            k \in DOMAIN r.reads[w].checks} : w \in DOMAIN r.reads}

Observed(records) == UNION {AnswersOf(r) : r \in records}

SameInput(a, b) == a.workload = b.workload /\ a.key = b.key

\* The answers to an input that another platform answered too; one that only one
\* platform answered has nothing to be compared with.
Compared(records) ==
  {a \in Observed(records) :
     \E b \in Observed(records) : SameInput(a, b) /\ a.platform # b.platform}

Mismatches(records) ==
  {a \in Compared(records) :
     \E b \in Observed(records) : SameInput(a, b) /\ a.value # b.value}

\* The single value a workload returned, when it returned just one.
ObservedValue(read) ==
  {read.checks[k] : k \in {j \in DOMAIN read.checks : DOMAIN read.checks = {j}}}

SlipMatchesExpected(read) ==  \* a workload without an answer is not a wrong one
  ObservedValue(read) \subseteq read.expected

\* A workload that has an expected value and gave no answer does not match it.
MatchesExpected(read) == ObservedValue(read) = read.expected

Wrong(r) == {w \in DOMAIN r.reads :
               r.reads[w].expected # {} /\ ~MatchesExpected(r.reads[w])}

ExpectationFailures(records) ==
  UNION {{<<r.platform, w>> : w \in Wrong(r)} : r \in records}

\* The depths that were run, and those next to each other.
Depths(r) == {w[2] : w \in {v \in DOMAIN r.reads : v[1] = "traversal"}}
Neighbours(depths) ==
  {p \in depths \X depths : p[1] < p[2] /\ ~ \E d \in depths : p[1] < d /\ d < p[2]}

\* Where both were answered, the deeper neighbourhood must not be the smaller one.
Shrinks(r, p) ==
  LET lower == r.reads[<<"traversal", p[1]>>].checks
      upper == r.reads[<<"traversal", p[2]>>].checks
  IN  {k \in DOMAIN lower \cap DOMAIN upper : lower[k] > upper[k]}

MonotonicFailures(records) ==
  UNION {{<<r.platform, p>> : p \in {q \in Neighbours(Depths(r)) : Shrinks(r, q) # {}}} :
           r \in records}

Compare(records) ==
  [compared |-> {<<a.workload, a.key>> : a \in Compared(records)},
   mismatches |-> {<<a.workload, a.key>> : a \in Mismatches(records)},
   expectation |-> ExpectationFailures(records),
   monotonic |-> MonotonicFailures(records)]

Agree(v) == v.mismatches = {}
Clean(v) == Agree(v) /\ v.expectation = {} /\ v.monotonic = {}
=============================================================================
