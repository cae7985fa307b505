---------------------------- MODULE EvidenceProofs ----------------------------
(***************************************************************************)
(* Proofs about Evidence: the run leaves the dataset to its commands, so   *)
(* that what is proved of Dataset holds here; and a run that exits with 0  *)
(* compared like with like, for all platforms, depths and graphs.          *)
(***************************************************************************)
EXTENDS Evidence, DatasetProofs, NumberFacts

---------------------------------------------------------------------------
(* The dataset                                                             *)

\* No step of the run or of the report touches the dataset.
THEOREM RunLeavesDataset == Spec => DatasetSpec
<1>1. Init => DatasetInit
  BY DEF Init
<1>2. [Next]_vars => [DatasetNext]_datasetVars
  <2> SUFFICES ASSUME [Next]_vars PROVE DatasetNext \/ UNCHANGED datasetVars
    OBVIOUS
  <2>1. CASE RunStep
    BY <2>1 DEF RunStep, StartRun, ReadManifest, ReadStarts, BeginPlatform, PlatformFails,
       LoadNodes, LoadEdges, Reads, WriteSummary, KillRun, Report
  <2>2. CASE DatasetStep
    BY <2>2 DEF DatasetStep
  <2>3. CASE Finished \/ UNCHANGED vars
    BY <2>3 DEF Finished, vars
  <2> QED BY <2>1, <2>2, <2>3 DEF Next
<1> QED BY <1>1, <1>2, PTL DEF Spec, DatasetSpec

\* A platform that is loaded while the dataset is prepared again still finds files of the
\* pinned version only (fetch.py), and the manifest it was given is of it.
THEOREM RunUsesPinned == Spec => []PinnedIsLoud
<1> QED BY RunLeavesDataset, PinnedIsLoudHolds, PTL

THEOREM RunFindsOneGraph == Spec => []PreparedIsOneGraph
<1> QED BY RunLeavesDataset, PreparedIsOneGraphHolds, PTL

---------------------------------------------------------------------------
(* Clean verifications, whatever the run                                   *)

Gb == <<"groupby", 0>>
Rc == <<"relcount", 0>>
Tr(d) == <<"traversal", d>>

\* A record of a platform that was compared with the graph g of the manifest.
Measured(r, g) ==
  /\ DOMAIN r.reads = Workloads
  /\ r.store = <<r.store[1], r.store[2]>>
  /\ r.reads[Gb].expected = {Order[g]} /\ r.reads[Rc].expected = {Size[g]}
  /\ \A k \in DOMAIN r.reads[Gb].checks : r.reads[Gb].checks[k] = r.store[1]
  /\ \A k \in DOMAIN r.reads[Rc].checks : r.reads[Rc].checks[k] = r.store[2]
  /\ \A d \in Hops : \A k \in DOMAIN r.reads[Tr(d)].checks : r.reads[Tr(d)].checks[k] \in Nat

RecordOk(r, g) == DOMAIN r.reads = {} \/ Measured(r, g)

\* Where no self-check is wrong, each was answered, and answered as expected.
LEMMA RightStore ==
  ASSUME NEW r, NEW g, Measured(r, g), Wrong(r) = {}
  PROVE  r.store = <<Order[g], Size[g]>>
<1>1. Gb \in Workloads /\ Rc \in Workloads
  BY DEF Workloads, Gb, Rc
<1>2. \A w \in Workloads : r.reads[w].expected # {} => ObservedValue(r.reads[w]) = r.reads[w].expected
  BY DEF Wrong, MatchesExpected, Measured
<1>3. Order[g] \in ObservedValue(r.reads[Gb]) /\ Size[g] \in ObservedValue(r.reads[Rc])
  BY <1>1, <1>2 DEF Measured
<1>4. Order[g] = r.store[1] /\ Size[g] = r.store[2]
  BY <1>3 DEF ObservedValue, Measured
<1> QED BY <1>4 DEF Measured

\* A wrong one is listed with its platform.
LEMMA WrongIsListed ==
  ASSUME NEW S, NEW r \in S, NEW w \in Wrong(r)
  PROVE  <<r.platform, w>> \in ExpectationFailures(S)
<1> DEFINE named == {<<r.platform, v>> : v \in Wrong(r)}
<1>1. <<r.platform, w>> \in named
  OBVIOUS
<1>2. named \in {{<<x.platform, v>> : v \in Wrong(x)} : x \in S}
  OBVIOUS
<1> QED BY <1>1, <1>2 DEF ExpectationFailures

LEMMA CleanStore ==
  ASSUME NEW S, NEW r \in S, NEW g, Measured(r, g), ExpectationFailures(S) = {}
  PROVE  r.store = <<Order[g], Size[g]>>
<1>1. Wrong(r) = {}
  BY WrongIsListed
<1> QED BY <1>1, RightStore

\* Where nothing disagreed, two answers to one input are the same.
LEMMA CleanAnswers ==
  ASSUME NEW S, NEW r \in S, NEW s \in S, r.platform # s.platform \/ r = s,
         Mismatches(S) = {},
         NEW w \in DOMAIN r.reads \cap DOMAIN s.reads,
         NEW k \in DOMAIN r.reads[w].checks \cap DOMAIN s.reads[w].checks
  PROVE  r.reads[w].checks[k] = s.reads[w].checks[k]
<1>1. CASE r = s
  BY <1>1
<1>2. CASE r.platform # s.platform
  <2> DEFINE a == [platform |-> r.platform, workload |-> w, key |-> k,
                   value |-> r.reads[w].checks[k]]
             b == [platform |-> s.platform, workload |-> w, key |-> k,
                   value |-> s.reads[w].checks[k]]
  <2>1. a \in AnswersOf(r) /\ b \in AnswersOf(s)
    BY DEF AnswersOf
  <2>2. a \in Observed(S) /\ b \in Observed(S)
    BY <2>1 DEF Observed
  <2>3. a \in Compared(S)
    BY <1>2, <2>2 DEF Compared, SameInput
  <2>4. a.value = b.value
    BY <2>2, <2>3 DEF Mismatches, SameInput
  <2> QED BY <2>4
<1> QED BY <1>1, <1>2

\* The greatest of the depths below another.
LEMMA GreatestDepth ==
  ASSUME EvidenceAssumption, NEW Q, Q \subseteq Hops, Q # {}
  PROVE  \E m \in Q : \A q \in Q : q <= m
<1> DEFINE From(q) == {x \in Hops : q <= x}
           T == {From(q) : q \in Q}
<1>1. Hops \subseteq Nat /\ IsFiniteSet(Hops)
  BY DEF EvidenceAssumption
<1>2. T \subseteq FiniteSubsetsOf(Hops)
  <2> SUFFICES ASSUME NEW q \in Q PROVE From(q) \in FiniteSubsetsOf(Hops)
    OBVIOUS
  <2>1. From(q) \in SUBSET Hops
    OBVIOUS
  <2>2. IsFiniteSet(From(q))
    BY <1>1, <2>1, FS_Subset
  <2> QED BY <2>1, <2>2 DEF FiniteSubsetsOf
<1>3. T # {}
  <2>1. PICK q \in Q : TRUE
    OBVIOUS
  <2>2. From(q) \in T
    OBVIOUS
  <2> QED BY <2>2
<1>4. IsWellFoundedOn(StrictSubsetOrdering(Hops), FiniteSubsetsOf(Hops))
  BY FS_StrictSubsetOrderingWellFounded
<1> HIDE DEF T
<1>5. PICK X \in T : \A Y \in T : ~ (<<Y, X>> \in StrictSubsetOrdering(Hops))
  BY <1>2, <1>3, <1>4, WFMin
<1>6. PICK m \in Q : X = From(m)
  BY DEF T
<1>7. ASSUME NEW q \in Q, ~ q <= m PROVE FALSE
  <2>1. m \in Nat /\ q \in Nat /\ m < q
    BY <1>1, <1>7
  <2>2. \A x \in Nat : q <= x => m <= x
    BY <2>1
  <2>3. From(q) \subseteq From(m)
    BY <1>1, <2>2
  <2>4. m <= m /\ ~ q <= m
    BY <2>1
  <2>5. m \in From(m) /\ m \notin From(q)
    BY <2>4
  <2>6. From(q) \in T /\ From(q) \in SUBSET Hops /\ From(m) \in SUBSET Hops
    BY DEF T
  <2>7. <<From(q), From(m)>> \in StrictSubsetOrdering(Hops)
    BY <2>3, <2>5, <2>6 DEF StrictSubsetOrdering
  <2> QED BY <1>5, <1>6, <2>6, <2>7
<1> QED BY <1>7

\* Neighbouring depths that were both answered do not shrink.
LEMMA CleanNeighbours ==
  ASSUME NEW S, NEW r \in S, DOMAIN r.reads = Workloads, MonotonicFailures(S) = {},
         NEW low \in Hops, NEW up \in Hops, low < up,
         ~ \E d \in Hops : low < d /\ d < up,
         NEW k \in DOMAIN r.reads[Tr(low)].checks \cap DOMAIN r.reads[Tr(up)].checks
  PROVE  ~ r.reads[Tr(low)].checks[k] > r.reads[Tr(up)].checks[k]
<1> DEFINE p == <<low, up>>
           failed == {q \in Neighbours(Depths(r)) : Shrinks(r, q) # {}}
           named == {<<r.platform, q>> : q \in failed}
<1>1. Depths(r) = Hops
  <2>1. \A w \in Workloads : w[1] = "traversal" => w[2] \in Hops
    BY DEF Workloads
  <2>2. ASSUME NEW d \in Hops PROVE d \in Depths(r)
    <3>1. <<"traversal", d>> \in Workloads
      BY DEF Workloads
    <3> QED BY <3>1 DEF Depths
  <2> QED BY <2>1, <2>2 DEF Depths
<1>2. p \in Neighbours(Depths(r))
  BY <1>1 DEF Neighbours
<1>3. ASSUME r.reads[Tr(low)].checks[k] > r.reads[Tr(up)].checks[k] PROVE FALSE
  <2>1. k \in Shrinks(r, p)
    BY <1>3 DEF Shrinks, Tr
  <2>2. <<r.platform, p>> \in named
    BY <1>2, <2>1
  <2>3. named \in {{<<x.platform, q>> : q \in {y \in Neighbours(Depths(x)) : Shrinks(x, y) # {}}} : x \in S}
    OBVIOUS
  <2>4. <<r.platform, p>> \in MonotonicFailures(S)
    BY <2>2, <2>3 DEF MonotonicFailures
  <2> QED BY <2>4
<1> QED BY <1>3

\* And then none do, along depths that were all answered.
LEMMA CleanDepths ==
  ASSUME EvidenceAssumption, NEW S, NEW r \in S, NEW g, Measured(r, g), MonotonicFailures(S) = {},
         NEW low \in Hops, NEW up \in Hops, low < up,
         \A d \in Hops \cap (low .. up) : "value" \in DOMAIN r.reads[Tr(d)].checks
  PROVE  r.reads[Tr(low)].checks["value"] <= r.reads[Tr(up)].checks["value"]
<1> DEFINE V(d) == r.reads[Tr(d)].checks["value"]
           Bad == {u \in Hops : low < u /\ u <= up /\ ~ V(low) <= V(u)}
<1>1. Hops \subseteq Nat
  BY DEF EvidenceAssumption
<1>2. \A d \in Hops : low <= d /\ d <= up => V(d) \in Nat
  BY <1>1 DEF Measured
<1>3. Bad = {}
  <2> SUFFICES ASSUME Bad # {} PROVE FALSE
    OBVIOUS
  <2>1. PICK u \in Bad : \A q \in Bad : u <= q
    BY <1>1, Least
  <2> DEFINE Below == {d \in Hops : low <= d /\ d < u}
  <2>2. u \in Hops /\ u \in Nat /\ low \in Nat /\ up \in Nat /\ low < u /\ u <= up /\ ~ V(low) <= V(u)
    BY <1>1, <2>1
  <2>3. low \in Below
    BY <2>2
  <2>4. PICK p \in Below : \A q \in Below : q <= p
    BY <2>3, GreatestDepth
  <2>5. p \in Hops /\ p \in Nat /\ low <= p /\ p < u /\ p <= up
    BY <1>1, <2>2, <2>4
  <2>6. ~ \E d \in Hops : p < d /\ d < u
    <3> SUFFICES ASSUME NEW d \in Hops, p < d, d < u PROVE FALSE
      OBVIOUS
    <3>1. d \in Nat /\ low <= d
      BY <1>1, <2>2, <2>5
    <3>2. d \in Below
      BY <3>1
    <3>3. d <= p
      BY <2>4, <3>2
    <3> QED BY <2>5, <3>1, <3>3
  <2>7. "value" \in DOMAIN r.reads[Tr(p)].checks /\ "value" \in DOMAIN r.reads[Tr(u)].checks
    <3>1. p \in low .. up /\ u \in low .. up
      BY <2>2, <2>5
    <3> QED BY <2>2, <2>5, <3>1
  <2>8. ~ V(p) > V(u)
    BY <2>2, <2>5, <2>6, <2>7, CleanNeighbours DEF Measured
  <2>9. V(low) \in Nat /\ V(p) \in Nat /\ V(u) \in Nat
    BY <1>2, <2>2, <2>5
  <2>10. V(low) <= V(p)
    <3>1. CASE p = low
      BY <2>9, <3>1
    <3>2. CASE p # low
      <4>1. low < p /\ ~ u <= p
        BY <2>2, <2>5, <3>2
      <4> QED BY <2>1, <2>5, <4>1
    <3> QED BY <3>1, <3>2
  <2> QED BY <2>2, <2>8, <2>9, <2>10
<1>4. up <= up
  BY <1>1
<1> QED BY <1>3, <1>4

---------------------------------------------------------------------------
(* The run                                                                 *)

\* Before the run ends there is no exit status, and every record is of a platform that
\* has finished and was compared with the manifest's graph; one that ended with 0 left
\* records that are clean, of the graph in run.json.
RunInv ==
  /\ todo \subseteq Nat
  /\ at \in {"idle", "manifest", "starts"} => records = {}
  /\ at \in {"nodes", "edges", "reads"} => todo # {}
  /\ \A r, s \in records : r.platform = s.platform => r = s
  /\ at # "done" => /\ exit = Nothing
                    /\ \A r \in records : r.platform \notin todo /\ RecordOk(r, graph)
  /\ exit = 0 =>
       /\ \A r \in records : RecordOk(r, summary.dataset)
       /\ ExpectationFailures(records) = {}
       /\ Mismatches(records) = {}
       /\ MonotonicFailures(records) = {}

\* Only an answer that was compared makes a run clean.
LEMMA CleanMeans ==
  ASSUME NEW S, Clean(Compare(S))
  PROVE  ExpectationFailures(S) = {} /\ Mismatches(S) = {} /\ MonotonicFailures(S) = {}
<1> DEFINE v == Compare(S)
<1>1. v.mismatches = {} /\ v.expectation = {} /\ v.monotonic = {}
  BY DEF Clean, Agree
<1>2. v.expectation = ExpectationFailures(S) /\ v.monotonic = MonotonicFailures(S)
  BY DEF Compare
<1>3. v.mismatches = {<<a.workload, a.key>> : a \in Mismatches(S)}
  BY DEF Compare
<1>4. Mismatches(S) = {}
  BY <1>1, <1>3
<1> QED BY <1>1, <1>2, <1>4

LEMMA RunInvComparable ==
  ASSUME EvidenceAssumption, RunInv
  PROVE  CleanIsComparable
<1> SUFFICES ASSUME exit = 0
             PROVE  /\ \A r \in records : DOMAIN r.reads # {} =>
                         r.store = <<Order[summary.dataset], Size[summary.dataset]>>
                    /\ \A r, s \in records : \A w \in DOMAIN r.reads \cap DOMAIN s.reads :
                         \A k \in DOMAIN r.reads[w].checks \cap DOMAIN s.reads[w].checks :
                           r.reads[w].checks[k] = s.reads[w].checks[k]
                    /\ \A r \in records, low, up \in Hops :
                         (/\ DOMAIN r.reads # {}
                          /\ low < up
                          /\ \A d \in Hops \cap (low .. up) :
                               "value" \in DOMAIN r.reads[<<"traversal", d>>].checks)
                         => r.reads[<<"traversal", low>>].checks["value"]
                              <= r.reads[<<"traversal", up>>].checks["value"]
  BY DEF CleanIsComparable
<1>1. ASSUME NEW r \in records, DOMAIN r.reads # {}
      PROVE  Measured(r, summary.dataset)
  BY <1>1 DEF RunInv, RecordOk
<1>2. ASSUME NEW r \in records, DOMAIN r.reads # {}
      PROVE  r.store = <<Order[summary.dataset], Size[summary.dataset]>>
  BY <1>1, <1>2, CleanStore DEF RunInv
<1>3. ASSUME NEW r \in records, NEW s \in records, NEW w \in DOMAIN r.reads \cap DOMAIN s.reads,
             NEW k \in DOMAIN r.reads[w].checks \cap DOMAIN s.reads[w].checks
      PROVE  r.reads[w].checks[k] = s.reads[w].checks[k]
  BY CleanAnswers DEF RunInv
<1>4. ASSUME NEW r \in records, NEW low \in Hops, NEW up \in Hops, DOMAIN r.reads # {}, low < up,
             \A d \in Hops \cap (low .. up) : "value" \in DOMAIN r.reads[<<"traversal", d>>].checks
      PROVE  r.reads[<<"traversal", low>>].checks["value"] <= r.reads[<<"traversal", up>>].checks["value"]
  <2>1. Measured(r, summary.dataset)
    BY <1>1, <1>4
  <2>2. MonotonicFailures(records) = {}
    BY DEF RunInv
  <2>3. \A d \in Hops \cap (low .. up) : "value" \in DOMAIN r.reads[Tr(d)].checks
    BY <1>4 DEF Tr
  <2>4. r.reads[Tr(low)].checks["value"] <= r.reads[Tr(up)].checks["value"]
    BY <1>4, <2>1, <2>2, <2>3, CleanDepths
  <2> QED BY <2>4 DEF Tr
<1> QED BY <1>2, <1>3, <1>4

---------------------------------------------------------------------------
(* Every step keeps RunInv                                                 *)

\* The platform that is being run is one of those that have yet to finish.
LEMMA CurrentIsNext ==
  ASSUME todo \subseteq Nat, todo # {}
  PROVE  Current \in todo
<1>1. \E p \in todo : \A q \in todo : p <= q
  BY Least
<1> QED BY <1>1 DEF Current

\* What a check holds is one of the answers.
LEMMA ChecksAreAnswers ==
  ASSUME NEW answer, NEW k \in DOMAIN Checks(answer)
  PROVE  Checks(answer)[k] \in answer
<1>1. answer # {}
  BY DEF Checks
<1>2. (CHOOSE v \in answer : TRUE) \in answer
  BY <1>1
<1> QED BY <1>2 DEF Checks

\* A record that Reads writes was compared with the graph the run was given.
LEMMA ReadsMeasure ==
  ASSUME EvidenceAssumption, NEW d \in Dialects, NEW r,
         r = [platform |-> Current,
              reads |-> [w \in Workloads |-> [expected |-> Expected(w), checks |-> Checks(Answer(d, w))]],
              errors |-> held.errors, store |-> <<held.nodes, held.edges>>]
  PROVE  Measured(r, graph)
<1>1. Gb \in Workloads /\ Rc \in Workloads /\ \A h \in Hops : Tr(h) \in Workloads
  BY DEF Workloads, Gb, Rc, Tr
<1>2. r.reads[Gb].expected = {Order[graph]} /\ r.reads[Rc].expected = {Size[graph]}
  BY <1>1 DEF Expected, Gb, Rc
<1>3. ASSUME NEW k \in DOMAIN r.reads[Gb].checks PROVE r.reads[Gb].checks[k] = r.store[1]
  <2>1. r.reads[Gb].checks = Checks(Answer(d, Gb))
    BY <1>1
  <2>2. r.reads[Gb].checks[k] \in Answer(d, Gb)
    BY <1>3, <2>1, ChecksAreAnswers
  <2> QED BY <2>2 DEF Answer, Gb
<1>4. ASSUME NEW k \in DOMAIN r.reads[Rc].checks PROVE r.reads[Rc].checks[k] = r.store[2]
  <2>1. r.reads[Rc].checks = Checks(Answer(d, Rc))
    BY <1>1
  <2>2. r.reads[Rc].checks[k] \in Answer(d, Rc)
    BY <1>4, <2>1, ChecksAreAnswers
  <2> QED BY <2>2 DEF Answer, Rc
<1>5. ASSUME NEW h \in Hops, NEW k \in DOMAIN r.reads[Tr(h)].checks
      PROVE  r.reads[Tr(h)].checks[k] \in Nat
  <2>1. r.reads[Tr(h)].checks = Checks(Answer(d, Tr(h)))
    BY <1>1
  <2>2. r.reads[Tr(h)].checks[k] \in d.hops[h]
    BY <1>5, <2>1, ChecksAreAnswers DEF Answer, Tr
  <2>3. d.hops \in [Hops -> SUBSET Nat]
    BY DEF EvidenceAssumption
  <2> QED BY <2>2, <2>3
<1> QED BY <1>2, <1>3, <1>4, <1>5 DEF Measured

LEMMA RunInit ==
  ASSUME EvidenceAssumption, Init
  PROVE  RunInv
<1> QED BY DEF Init, RunInv, EvidenceAssumption

\* A platform finishes with a record that says so.
LEMMA FinishKeepsRunInv ==
  ASSUME EvidenceAssumption, RunInv, at # "done", todo # {}, NEW reads, NEW store, Finish(reads, store),
         RecordOk([platform |-> Current, reads |-> reads, errors |-> store.errors,
                   store |-> <<store.nodes, store.edges>>], graph),
         UNCHANGED <<graph, summary, exit>>
  PROVE  RunInv'
<1> DEFINE new == [platform |-> Current, reads |-> reads, errors |-> store.errors,
                   store |-> <<store.nodes, store.edges>>]
<1>1. Current \in todo
  BY CurrentIsNext DEF RunInv
<1>2. records' = records \cup {new} /\ todo' = todo \ {Current} /\ at' = "platform"
  BY DEF Finish
<1>3. new.platform = Current /\ RecordOk(new, graph)
  OBVIOUS
<1> HIDE DEF new
<1>4. \A r \in records : r.platform \notin todo /\ RecordOk(r, graph)
  BY DEF RunInv
<1>5. \A r, s \in records' : r.platform = s.platform => r = s
  BY <1>1, <1>2, <1>3, <1>4 DEF RunInv
<1>6. \A r \in records' : r.platform \notin todo' /\ RecordOk(r, graph')
  BY <1>2, <1>3, <1>4 DEF RecordOk, Measured
<1>7. exit' # 0 /\ exit' = Nothing
  <2>1. exit' = Nothing /\ Nothing \notin Nat
    BY DEF RunInv, EvidenceAssumption
  <2> QED BY <2>1
<1>8. todo' \subseteq Nat
  BY <1>2 DEF RunInv
<1> QED BY <1>2, <1>5, <1>6, <1>7, <1>8 DEF RunInv

\* A step that leaves the records and says nothing of the exit status.
LEMMA QuietKeepsRunInv ==
  ASSUME EvidenceAssumption, RunInv, at # "done", UNCHANGED <<records, summary, exit, todo, graph>>,
         at' \in {"platform", "nodes", "edges", "reads"},
         at' = "platform" \/ todo # {}
  PROVE  RunInv'
<1>1. exit = Nothing /\ exit' # 0
  <2>1. exit' = Nothing /\ exit = Nothing /\ Nothing \notin Nat
    BY DEF RunInv, EvidenceAssumption
  <2> QED BY <2>1
<1>2. \A r \in records : RecordOk(r, graph)'
  BY DEF RunInv, RecordOk, Measured
<1> QED BY <1>1, <1>2 DEF RunInv

\* A run that ends otherwise than with 0 promises nothing.
LEMMA EndKeepsRunInv ==
  ASSUME EvidenceAssumption, RunInv, NEW status, status # 0, Ends(status),
         records' \in {records, {}}
  PROVE  RunInv'
<1>1. todo' = {} /\ at' = "done" /\ exit' # 0
  BY DEF Ends
<1> QED BY <1>1 DEF RunInv

LEMMA RunStart ==
  ASSUME EvidenceAssumption, RunInv, StartRun \/ ReadManifest \/ ReadStarts
  PROVE  RunInv'
<1>1. records = {} /\ records' = {}
  BY DEF RunInv, StartRun, ReadManifest, ReadStarts
<1>2. CASE Ends(1) \/ Ends(2)
  BY <1>1, <1>2, EndKeepsRunInv
<1>3. CASE ~ (Ends(1) \/ Ends(2))
  <2>1. at # "done" /\ at' \in {"manifest", "starts", "platform"}
    BY <1>3 DEF StartRun, ReadManifest, ReadStarts
  <2>2. exit' = exit
    BY <1>3 DEF StartRun, ReadManifest, ReadStarts
  <2>3. todo' \subseteq Nat
    BY <1>3 DEF RunInv, StartRun, ReadManifest, ReadStarts, Usable, EvidenceAssumption
  <2>4. exit' # 0 /\ exit' = Nothing
    <3>1. exit' = Nothing /\ Nothing \notin Nat
      BY <2>1, <2>2 DEF RunInv, EvidenceAssumption
    <3> QED BY <3>1
  <2> QED BY <1>1, <2>1, <2>3, <2>4 DEF RunInv
<1> QED BY <1>2, <1>3

LEMMA RunPlatform ==
  ASSUME EvidenceAssumption, RunInv, BeginPlatform \/ LoadNodes \/ LoadEdges
  PROVE  RunInv'
<1>1. at # "done" /\ UNCHANGED <<records, summary, exit, todo, graph>>
  BY DEF BeginPlatform, LoadNodes, LoadEdges
<1>2. at' \in {"platform", "nodes", "edges", "reads"} /\ todo # {}
  BY DEF BeginPlatform, LoadNodes, LoadEdges, RunInv
<1> QED BY <1>1, <1>2, QuietKeepsRunInv

LEMMA RunFails ==
  ASSUME EvidenceAssumption, RunInv, PlatformFails
  PROVE  RunInv'
<1> DEFINE store == [Empty EXCEPT !.errors = TRUE]
<1>1. at # "done" /\ todo # {} /\ Finish(NoReads, store) /\ UNCHANGED <<graph, summary, exit>>
  BY DEF PlatformFails, RunInv
<1>2. DOMAIN NoReads = {}
  BY DEF NoReads
<1>3. RecordOk([platform |-> Current, reads |-> NoReads, errors |-> store.errors,
                store |-> <<store.nodes, store.edges>>], graph)
  BY <1>2 DEF RecordOk
<1> HIDE DEF store
<1> QED BY <1>1, <1>3, FinishKeepsRunInv

LEMMA RunReads ==
  ASSUME EvidenceAssumption, RunInv, Reads
  PROVE  RunInv'
<1> DEFINE R(d) == [w \in Workloads |-> [expected |-> Expected(w), checks |-> Checks(Answer(d, w))]]
<1>1. at # "done" /\ todo # {} /\ UNCHANGED <<graph, summary, exit>>
  BY DEF Reads, RunInv
<1>2. PICK d \in Dialects : Finish(R(d), held)
  BY DEF Reads
<1>3. RecordOk([platform |-> Current, reads |-> R(d), errors |-> held.errors,
                store |-> <<held.nodes, held.edges>>], graph)
  BY ReadsMeasure DEF RecordOk
<1> HIDE DEF R
<1> QED BY <1>1, <1>2, <1>3, FinishKeepsRunInv

LEMMA RunSummary ==
  ASSUME EvidenceAssumption, RunInv, WriteSummary
  PROVE  RunInv'
<1>1. at' = "done" /\ todo' = {} /\ records' = records /\ summary'.dataset = graph
  BY DEF WriteSummary, Ends
<1>2. \A r, s \in records' : r.platform = s.platform => r = s
  BY <1>1 DEF RunInv
<1>3. \A r \in records' : RecordOk(r, summary'.dataset)
  BY <1>1 DEF WriteSummary, RunInv
<1>4. exit' = 0 => Clean(Compare(records))
  BY DEF WriteSummary, Ends
<1>5. exit' = 0 => /\ ExpectationFailures(records') = {}
                   /\ Mismatches(records') = {}
                   /\ MonotonicFailures(records') = {}
  BY <1>1, <1>4, CleanMeans
<1>6. exit' = 0 => \A r \in records' : RecordOk(r, summary.dataset)'
  BY <1>3 DEF RecordOk, Measured
<1> QED BY <1>1, <1>2, <1>5, <1>6 DEF RunInv, Mismatches, ExpectationFailures, MonotonicFailures

LEMMA RunKill ==
  ASSUME EvidenceAssumption, RunInv, KillRun
  PROVE  RunInv'
<1>1. Nothing # 0 /\ Ends(Nothing) /\ records' = {}
  BY DEF EvidenceAssumption, KillRun
<1> QED BY <1>1, EndKeepsRunInv

\* The report, and the dataset's own steps, change nothing the invariant is about.
LEMMA RunUnmoved ==
  ASSUME RunInv, UNCHANGED <<at, todo, graph, records, summary, exit>>
  PROVE  RunInv'
<1>1. ExpectationFailures(records)' = ExpectationFailures(records)
  BY DEF ExpectationFailures, Wrong, MatchesExpected, ObservedValue
<1>2. Mismatches(records)' = Mismatches(records)
  BY DEF Mismatches, Compared, Observed, AnswersOf, SameInput
<1>3. MonotonicFailures(records)' = MonotonicFailures(records)
  BY DEF MonotonicFailures, Neighbours, Depths, Shrinks
<1>4. /\ \A r \in records : RecordOk(r, graph)' <=> RecordOk(r, graph)
      /\ \A r \in records : RecordOk(r, summary.dataset)' <=> RecordOk(r, summary.dataset)
  BY DEF RecordOk, Measured
<1> QED BY <1>1, <1>2, <1>3, <1>4 DEF RunInv

LEMMA RunStepKeeps == RunInv /\ [Next]_vars => RunInv'
<1> SUFFICES ASSUME RunInv, [Next]_vars PROVE RunInv'
  OBVIOUS
<1>1. CASE StartRun \/ ReadManifest \/ ReadStarts
  BY <1>1, RunStart, EvidenceAssumption
<1>2. CASE BeginPlatform \/ LoadNodes \/ LoadEdges
  BY <1>2, RunPlatform, EvidenceAssumption
<1>3. CASE PlatformFails
  BY <1>3, RunFails, EvidenceAssumption
<1>4. CASE Reads
  BY <1>4, RunReads, EvidenceAssumption
<1>5. CASE WriteSummary
  BY <1>5, RunSummary, EvidenceAssumption
<1>6. CASE KillRun
  BY <1>6, RunKill, EvidenceAssumption
<1>7. CASE Report \/ DatasetStep \/ Finished \/ UNCHANGED vars
  <2>1. UNCHANGED <<at, todo, graph, records, summary, exit>>
    BY <1>7 DEF Report, DatasetStep, Finished, vars, runVars
  <2> QED BY <2>1, RunUnmoved
<1> QED BY <1>1, <1>2, <1>3, <1>4, <1>5, <1>6, <1>7 DEF Next, RunStep

\* A run that exits with 0 compared like with like.
THEOREM CleanIsComparableHolds == Spec => []CleanIsComparable
<1>1. Init => RunInv
  BY RunInit, EvidenceAssumption
<1>2. RunInv /\ [Next]_vars => RunInv'
  BY RunStepKeeps
<1>3. RunInv => CleanIsComparable
  BY RunInvComparable, EvidenceAssumption
<1> QED BY <1>1, <1>2, <1>3, PTL DEF Spec

---------------------------------------------------------------------------
(* The document                                                            *)

\* A list that is cut is not empty, and says by its length that it may be.
LEMMA CutTells ==
  ASSUME EvidenceAssumption, NEW F, NEW some \in Cut(F)
  PROVE  /\ some = {} <=> F = {}
         /\ some = F \/ Cardinality(some) = Listed
<1>1. Cardinality({}) = 0 /\ Listed \in Nat \ {0}
  BY FS_EmptySet DEF EvidenceAssumption
<1>2. CASE Cardinality(F) <= Listed
  BY <1>2 DEF Cut
<1>3. CASE ~ (Cardinality(F) <= Listed)
  <2>1. some \subseteq F /\ Cardinality(some) = Listed
    BY <1>3 DEF Cut
  <2> QED BY <1>1, <2>1
<1> QED BY <1>2, <1>3

\* Nothing to cross-check is no disagreement.
LEMMA VerdictTells ==
  ASSUME NEW S
  PROVE  Verdict(Compare(S)) # "disagreements" <=> Agree(Compare(S))
<1> DEFINE v == Compare(S)
<1>1. /\ v.compared = {<<a.workload, a.key>> : a \in Compared(S)}
      /\ v.mismatches = {<<a.workload, a.key>> : a \in Mismatches(S)}
  BY DEF Compare
<1>2. Mismatches(S) \subseteq Compared(S)
  BY DEF Mismatches
<1>3. v.compared = {} => v.mismatches = {}
  BY <1>1, <1>2
<1> HIDE DEF v
<1>4. Verdict(v) # "disagreements" <=> Agree(v)
  BY <1>3 DEF Verdict, Agree
<1> QED BY <1>4 DEF v

\* Nothing is made of a run before it is over.  Of the platforms asked for, those that are
\* usable have a record or have yet to get one; a record without reads has an error; and
\* what is reported is what was compared and made the exit status.
DocInv ==
  /\ at # "done" => summary = Nothing /\ document = Nothing
  /\ at \in {"manifest", "starts", "platform", "nodes", "edges", "reads"} =>
       {r.platform : r \in records} \cup todo = Usable(asked)
  /\ \A r \in records : DOMAIN r.reads = {} => r.errors
  /\ summary # Nothing =>
       /\ \A r \in records : RecordOk(r, summary.dataset)
       /\ {r.platform : r \in records} \cup summary.skipped = asked
       /\ summary.verification = Compare(records)
       /\ exit = 0 <=> Clean(summary.verification)
  /\ DocumentTells

LEMMA DocInit == Init => DocInv
BY DEF Init, DocInv, DocumentTells

\* What the report makes of the run.
LEMMA ReportTells ==
  ASSUME EvidenceAssumption, RunInv, DocInv, Report
  PROVE  DocumentTells'
<1> DEFINE v == summary.verification
           right == <<Order[summary.dataset], Size[summary.dataset]>>
<1>1. summary # Nothing /\ UNCHANGED <<exit, asked, records>>
  BY DEF Report, Completed
<1>2. /\ \A r \in records : RecordOk(r, summary.dataset)
      /\ Tables \cup summary.skipped = asked
      /\ v = Compare(records)
      /\ exit = 0 <=> Clean(v)
      /\ \A r \in records : DOMAIN r.reads = {} => r.errors
  BY <1>1 DEF DocInv, Tables
<1>3. PICK expectation \in Cut(v.expectation), monotonic \in Cut(v.monotonic) :
        document' = [dataset |-> summary.dataset, verdict |-> Verdict(v),
                     failures |-> [expectation |-> expectation, monotonic |-> monotonic],
                     tables |-> Tables, notRun |-> summary.skipped, errors |-> ErrorsShown]
  BY DEF Report, FailuresShown
<1>4. /\ expectation = {} <=> v.expectation = {}
      /\ expectation = v.expectation \/ Cardinality(expectation) = Listed
      /\ monotonic = {} <=> v.monotonic = {}
  BY CutTells
<1>5. Verdict(v) # "disagreements" <=> Agree(v)
  BY <1>2, VerdictTells
<1>6. document'.tables \cup document'.notRun = asked'
  BY <1>1, <1>2, <1>3
<1>7. exit' = 0 <=> /\ document'.verdict # "disagreements"
                    /\ document'.failures = [expectation |-> {}, monotonic |-> {}]
  <2>1. [expectation |-> expectation, monotonic |-> monotonic] = [expectation |-> {}, monotonic |-> {}]
          <=> expectation = {} /\ monotonic = {}
    OBVIOUS
  <2>2. Clean(v) <=> Agree(v) /\ v.expectation = {} /\ v.monotonic = {}
    BY DEF Clean
  <2>3. document'.verdict = Verdict(v)
        /\ document'.failures = [expectation |-> expectation, monotonic |-> monotonic]
    BY <1>3
  <2> HIDE DEF v
  <2> QED BY <1>1, <1>2, <1>4, <1>5, <2>1, <2>2, <2>3
<1>8. ASSUME NEW r \in records
      PROVE  \/ r.store = right
             \/ r.platform \in ErrorsShown
             \/ \E w \in Workloads : <<r.platform, w>> \in expectation
             \/ Cardinality(expectation) = Listed
  <2>1. CASE DOMAIN r.reads = {}
    BY <1>2, <2>1 DEF ErrorsShown
  <2>2. CASE Measured(r, summary.dataset) /\ Wrong(r) = {}
    BY <2>2, RightStore
  <2>3. CASE Measured(r, summary.dataset) /\ Wrong(r) # {}
    <3>1. PICK w \in Wrong(r) : TRUE
      BY <2>3
    <3>2. w \in Workloads
      BY <2>3, <3>1 DEF Wrong, Measured
    <3>3. <<r.platform, w>> \in v.expectation
      BY <1>2, <3>1, WrongIsListed DEF Compare
    <3> QED BY <1>4, <3>2, <3>3
  <2> QED BY <1>2, <2>1, <2>2, <2>3 DEF RecordOk
<1>9. document'.dataset = summary.dataset /\ document'.errors = ErrorsShown
      /\ document'.failures.expectation = expectation
  BY <1>3
<1>10. \A r \in records' :
         \/ r.store = <<Order[document'.dataset], Size[document'.dataset]>>
         \/ r.platform \in document'.errors
         \/ \E w \in Workloads : <<r.platform, w>> \in document'.failures.expectation
         \/ Cardinality(document'.failures.expectation) = Listed
  BY <1>1, <1>8, <1>9
<1> QED BY <1>6, <1>7, <1>10 DEF DocumentTells

\* A step before there is anything to report, which leaves the platforms accounted for.
LEMMA BeforeSummary ==
  ASSUME DocInv, at # "done", UNCHANGED <<summary, document>>,
         \A r \in records' : DOMAIN r.reads = {} => r.errors,
         at' = "done" \/ {r.platform : r \in records'} \cup todo' = Usable(asked)'
  PROVE  DocInv'
BY DEF DocInv, DocumentTells

LEMMA DocStart ==
  ASSUME RunInv, DocInv, StartRun \/ ReadManifest \/ ReadStarts
  PROVE  DocInv'
<1>1. at # "done" /\ UNCHANGED <<summary, document, records, env>> /\ records = {}
  BY DEF StartRun, ReadManifest, ReadStarts, RunInv
<1>2. CASE at' = "done"
  BY <1>1, <1>2, BeforeSummary
<1>3. CASE at' # "done"
  <2>1. todo' = Usable(asked)'
    <3>1. CASE StartRun
      <4>1. todo' = Usable(asked')
        BY <1>3, <3>1 DEF StartRun, Ends
      <4> QED BY <1>1, <4>1 DEF Usable, Missing
    <3>2. CASE ReadManifest \/ ReadStarts
      <4>1. UNCHANGED <<todo, asked>> /\ at \in {"manifest", "starts"}
        BY <1>3, <3>2 DEF ReadManifest, ReadStarts, Ends
      <4> QED BY <1>1, <4>1 DEF DocInv, Usable, Missing
    <3> QED BY <3>1, <3>2
  <2> QED BY <1>1, <2>1, BeforeSummary
<1> QED BY <1>2, <1>3

LEMMA DocPlatform ==
  ASSUME DocInv, BeginPlatform \/ LoadNodes \/ LoadEdges
  PROVE  DocInv'
<1>1. /\ at \in {"platform", "nodes", "edges"}
      /\ UNCHANGED <<summary, document, records, env, todo, asked>>
  BY DEF BeginPlatform, LoadNodes, LoadEdges
<1>2. Usable(asked)' = Usable(asked)
  BY <1>1 DEF Usable, Missing
<1>3. (\A r \in records' : DOMAIN r.reads = {} => r.errors)
  BY <1>1 DEF DocInv
<1>4. {r.platform : r \in records'} \cup todo' = Usable(asked)'
  BY <1>1, <1>2 DEF DocInv
<1> QED BY <1>1, <1>3, <1>4, BeforeSummary

\* A platform that finishes has its record; one without reads has an error in it.
LEMMA DocFinish ==
  ASSUME RunInv, DocInv, PlatformFails \/ Reads
  PROVE  DocInv'
<1>1. /\ at \in {"nodes", "edges", "reads"} /\ todo # {} /\ todo \subseteq Nat
      /\ UNCHANGED <<summary, document, env, asked>>
  BY DEF PlatformFails, Reads, RunInv
<1>2. Current \in todo
  BY <1>1, CurrentIsNext
<1>3. PICK new : /\ records' = records \cup {new} /\ todo' = todo \ {Current}
                 /\ new.platform = Current /\ (DOMAIN new.reads = {} => new.errors)
  <2>1. CASE PlatformFails
    <3> DEFINE new == [platform |-> Current, reads |-> NoReads, errors |-> TRUE,
                       store |-> <<Empty.nodes, Empty.edges>>]
    <3>1. records' = records \cup {new} /\ todo' = todo \ {Current}
      BY <2>1 DEF PlatformFails, Finish, Empty
    <3>2. new.platform = Current /\ new.errors
      OBVIOUS
    <3> QED BY <3>1, <3>2
  <2>2. CASE Reads
    <3>1. PICK d \in Dialects :
            Finish([w \in Workloads |-> [expected |-> Expected(w), checks |-> Checks(Answer(d, w))]], held)
      BY <2>2 DEF Reads
    <3> DEFINE reads == [w \in Workloads |-> [expected |-> Expected(w), checks |-> Checks(Answer(d, w))]]
               new == [platform |-> Current, reads |-> reads, errors |-> held.errors,
                       store |-> <<held.nodes, held.edges>>]
    <3>2. records' = records \cup {new} /\ todo' = todo \ {Current}
      BY <3>1 DEF Finish
    <3>3. DOMAIN reads = Workloads /\ Gb \in Workloads
      BY DEF Workloads, Gb
    <3> HIDE DEF reads
    <3>4. new.platform = Current /\ DOMAIN new.reads # {}
      BY <3>3
    <3> QED BY <3>2, <3>4
  <2> QED BY <2>1, <2>2
<1>4. \A r \in records' : DOMAIN r.reads = {} => r.errors
  BY <1>3 DEF DocInv
<1>5. {r.platform : r \in records'} \cup todo' = {r.platform : r \in records} \cup todo
  BY <1>2, <1>3
<1>6. Usable(asked)' = Usable(asked)
  BY <1>1 DEF Usable, Missing
<1> QED BY <1>1, <1>4, <1>5, <1>6, BeforeSummary DEF DocInv

LEMMA DocSummary ==
  ASSUME EvidenceAssumption, RunInv, DocInv, WriteSummary
  PROVE  DocInv'
<1>1. /\ at = "platform" /\ at' = "done" /\ todo = {}
      /\ UNCHANGED <<asked, records, document>>
      /\ summary' = [dataset |-> graph, skipped |-> asked \ Usable(asked),
                     verification |-> Compare(records)]
      /\ exit' = IF Clean(Compare(records)) THEN 0 ELSE 3
  BY DEF WriteSummary, Ends
<1>2. document' = Nothing
  BY <1>1 DEF DocInv
<1>3. \A r \in records : RecordOk(r, graph) /\ (DOMAIN r.reads = {} => r.errors)
  BY <1>1 DEF RunInv, DocInv
<1>4. /\ summary'.dataset = graph /\ summary'.skipped = asked \ Usable(asked)
      /\ summary'.verification = Compare(records)
  BY <1>1
<1>5. \A r \in records' : RecordOk(r, summary.dataset)'
  BY <1>1, <1>3, <1>4 DEF RecordOk, Measured
<1>6. {r.platform : r \in records'} \cup summary'.skipped = asked'
  <2>1. {r.platform : r \in records} = Usable(asked)
    BY <1>1 DEF DocInv
  <2>2. Usable(asked) \subseteq asked
    BY DEF Usable
  <2> QED BY <1>1, <1>4, <2>1, <2>2
<1>7. summary'.verification = Compare(records)' /\ (exit' = 0 <=> Clean(summary.verification)')
  <2>1. Compare(records)' = Compare(records)
    BY <1>1
  <2>2. Clean(summary.verification)' <=> Clean(Compare(records))
    BY <1>4 DEF Clean, Agree
  <2> QED BY <1>1, <1>4, <2>1, <2>2
<1> QED BY <1>1, <1>2, <1>3, <1>5, <1>6, <1>7 DEF DocInv, DocumentTells

\* The document says of the run, and of no other, what there is to say.
THEOREM DocumentTellsHolds == Spec => []DocumentTells
<1>1. Init => RunInv /\ DocInv
  BY RunInit, DocInit, EvidenceAssumption
<1>2. RunInv /\ DocInv /\ [Next]_vars => DocInv'
  <2> SUFFICES ASSUME RunInv, DocInv, [Next]_vars PROVE DocInv'
    OBVIOUS
  <2>1. CASE StartRun \/ ReadManifest \/ ReadStarts
    BY <2>1, DocStart
  <2>2. CASE BeginPlatform \/ LoadNodes \/ LoadEdges
    BY <2>2, DocPlatform
  <2>3. CASE PlatformFails \/ Reads
    BY <2>3, DocFinish
  <2>4. CASE WriteSummary
    BY <2>4, DocSummary, EvidenceAssumption
  <2>5. CASE KillRun
    <3>1. at # "done" /\ at' = "done" /\ records' = {} /\ UNCHANGED <<summary, document>>
      BY <2>5 DEF KillRun, Ends
    <3> QED BY <3>1, BeforeSummary
  <2>6. CASE Report
    <3>1. DocumentTells'
      BY <2>6, ReportTells, EvidenceAssumption
    <3>2. at = "done" /\ UNCHANGED <<at, summary, records, asked, exit>>
      BY <2>6 DEF Report, Completed, DocInv
    <3> QED BY <3>1, <3>2 DEF DocInv, RecordOk, Measured
  <2>7. CASE DatasetStep \/ Finished \/ UNCHANGED vars
    <3>1. UNCHANGED <<env, at, asked, todo, records, summary, exit, document>>
      BY <2>7 DEF DatasetStep, Finished, vars, runVars
    <3>2. UNCHANGED <<Usable(asked), Compare(records), Clean(summary.verification), DocumentTells>>
      BY <3>1 DEF Usable, Missing, DocumentTells
    <3>3. \A r \in records : RecordOk(r, summary.dataset)' <=> RecordOk(r, summary.dataset)
      BY <3>1 DEF RecordOk, Measured
    <3> QED BY <3>1, <3>2, <3>3 DEF DocInv
  <2> QED BY <2>1, <2>2, <2>3, <2>4, <2>5, <2>6, <2>7 DEF Next, RunStep
<1>3. RunInv /\ [Next]_vars => RunInv'
  BY RunStepKeeps
<1>4. DocInv => DocumentTells
  BY DEF DocInv
<1> QED BY <1>1, <1>2, <1>3, <1>4, PTL DEF Spec
=============================================================================
