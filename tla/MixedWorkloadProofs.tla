------------------------ MODULE MixedWorkloadProofs ------------------------
(***************************************************************************)
(* MixedWorkload for any levels with any number of clients.  However the   *)
(* threads interleave and whatever cannot be started, no client applies    *)
(* load before all of its level do; and the books are kept: what is merged *)
(* is what the clients did, what a result counts was measured and written, *)
(* and what is cleaned in the end covers it.                               *)
(***************************************************************************)
EXTENDS MixedWorkload, NumberFacts

---------------------------------------------------------------------------
(* The inductive invariant                                                 *)

Waiting == {"none", "starting", "gate"}
Places == Waiting \cup {"loop", "reading", "writing", "written", "merge", "adding", "done"}

Typed ==
  /\ main \in {"spawn", "gate", "load", "join", "count", "delete", "done"}
  /\ level \in 1 .. Len(Clients) + 1
  /\ main \in {"spawn", "gate", "load", "join"} <=> level \in Levels
  /\ pc \in [AllClients -> Places]

\* The levels to come have no threads yet.
ComingInv ==
  \A c \in AllClients :
    LevelOf(c) > level \/ (LevelOf(c) = level /\ main = "spawn") => pc[c] = "none"

\* At the present level nobody is past the barrier, or everybody is.
PresentInv ==
  \A c \in AllClients : LevelOf(c) = level =>
    /\ main = "gate" => pc[c] \in Waiting
    /\ main \in {"load", "join"} => Loading(c)

\* A level that is over could not be started, and nobody is past its barrier, or it was,
\* and everybody is, stragglers included.
PastInv ==
  /\ \A l \in failed : l \in Nat /\ l < level
  /\ \A c \in AllClients : LevelOf(c) < level => (Loading(c) <=> LevelOf(c) \notin failed)

IInv == Typed /\ ComingInv /\ PresentInv /\ PastInv

---------------------------------------------------------------------------
\* A client is of one of the levels.
LEMMA ClientLevel ==
  ASSUME MixedAssumption
  PROVE  /\ Len(Clients) \in Nat \ {0}
         /\ \A c \in AllClients : LevelOf(c) \in Levels /\ c \in ClientsOf(LevelOf(c))
         /\ \A l \in Levels : \A c \in ClientsOf(l) : c \in AllClients /\ LevelOf(c) = l
<1>1. Len(Clients) \in Nat \ {0}
  BY DEF MixedAssumption
<1>2. \A l \in Levels : \A c \in ClientsOf(l) : LevelOf(c) = l
  BY DEF ClientsOf, LevelOf
<1> QED BY <1>1, <1>2 DEF AllClients

\* At the start no level has threads and none has failed.
LEMMA InitIInv == MixedAssumption /\ Init => IInv
<1> SUFFICES ASSUME MixedAssumption, Init PROVE IInv
  OBVIOUS
<1>1. Typed
  BY ClientLevel DEF Init, Typed, Places, Waiting, Levels
<1>2. ComingInv /\ PresentInv
  BY DEF Init, ComingInv, PresentInv
<1>3. PastInv
  BY ClientLevel DEF Init, PastInv, Levels
<1> QED BY <1>1, <1>2, <1>3 DEF IInv

---------------------------------------------------------------------------
(* The main thread                                                         *)

\* The sweep goes on with the next level, of which there are no threads, or is over.
LEMMA NextLevelTyped ==
  ASSUME MixedAssumption, IInv, level \in Levels, NextLevel
  PROVE  /\ level' = level + 1
         /\ level' \in 1 .. Len(Clients) + 1
         /\ main' \in {"spawn", "count", "delete", "done"}
         /\ main' = "spawn" <=> level' \in Levels
BY ClientLevel DEF IInv, Typed, NextLevel, Levels

\* Some threads of the level are started, and none of another; if it was not all of
\* them the level has failed, and those that run wait.
LEMMA SpawnIInv == MixedAssumption /\ IInv /\ Spawn => IInv'
<1> SUFFICES ASSUME MixedAssumption, IInv, Spawn PROVE IInv'
  OBVIOUS
<1>1. level \in Levels /\ level \in Nat /\ main = "spawn"
  BY ClientLevel DEF IInv, Typed, Spawn, Levels
<1>2. \A c \in AllClients : LevelOf(c) \in Levels /\ LevelOf(c) \in Nat
  BY ClientLevel DEF Levels
<1>3. PICK n \in 0 .. Clients[level] :
        /\ pc' = [c \in AllClients |->
                    IF LevelOf(c) = level /\ WorkerId(c) < n THEN "starting" ELSE pc[c]]
        /\ IF n = Clients[level]
           THEN main' = "gate" /\ UNCHANGED <<level, failed>>
           ELSE failed' = failed \cup {level} /\ NextLevel
  BY DEF Spawn
<1>4. pc' \in [AllClients -> Places]
  BY <1>3 DEF IInv, Typed, Places, Waiting
<1>5. \A c \in AllClients : LevelOf(c) # level => pc'[c] = pc[c]
  BY <1>3
<1>6. \A c \in AllClients : LevelOf(c) = level => pc'[c] \in {"none", "starting"}
  BY <1>1, <1>3 DEF IInv, ComingInv
<1>7. CASE main' = "gate" /\ UNCHANGED <<level, failed>>
  <2>1. Typed'
    BY <1>1, <1>4, <1>7 DEF IInv, Typed, Levels
  <2>2. ComingInv' /\ PresentInv'
    BY <1>1, <1>2, <1>5, <1>6, <1>7 DEF IInv, ComingInv, PresentInv, Waiting
  <2>3. PastInv'
    BY <1>1, <1>2, <1>5, <1>7 DEF IInv, PastInv, Loading
  <2> QED BY <2>1, <2>2, <2>3 DEF IInv
<1>8. CASE failed' = failed \cup {level} /\ NextLevel
  <2>1. /\ level' = level + 1
        /\ level' \in 1 .. Len(Clients) + 1
        /\ main' \in {"spawn", "count", "delete", "done"}
        /\ main' = "spawn" <=> level' \in Levels
    BY <1>1, <1>8, NextLevelTyped
  <2>2. Typed'
    BY <1>4, <2>1 DEF Typed, Levels
  <2>3. ComingInv' /\ PresentInv'
    <3>1. \A c \in AllClients : LevelOf(c) > level => pc[c] = "none"
      BY DEF IInv, ComingInv
    <3>2. \A c \in AllClients : LevelOf(c) > level => pc'[c] = "none"
      BY <1>1, <1>2, <1>5, <3>1
    <3>3. ComingInv'
      BY <1>1, <1>2, <2>1, <3>2 DEF ComingInv
    <3>4. PresentInv'
      BY <2>1 DEF PresentInv
    <3> QED BY <3>3, <3>4
  <2>4. PastInv'
    <3>1. \A l \in failed' : l \in Nat /\ l < level'
      <4>1. \A l \in failed : l \in Nat /\ l < level
        BY DEF IInv, PastInv
      <4> QED BY <1>1, <1>8, <2>1, <4>1
    <3>2. ASSUME NEW c \in AllClients, LevelOf(c) < level'
          PROVE  Loading(c)' <=> LevelOf(c) \notin failed'
      <4>1. CASE LevelOf(c) = level
        BY <1>6, <1>8, <4>1 DEF Loading
      <4>2. CASE LevelOf(c) < level
        BY <1>1, <1>2, <1>5, <1>8, <4>2 DEF IInv, PastInv, Loading
      <4> QED BY <1>1, <1>2, <2>1, <3>2, <4>1, <4>2
    <3> QED BY <3>1, <3>2 DEF PastInv
  <2> QED BY <2>2, <2>3, <2>4 DEF IInv
<1> QED BY <1>3, <1>7, <1>8

\* The barrier opens for all of the level at once.
LEMMA OpenIInv == MixedAssumption /\ IInv /\ Open => IInv'
<1> SUFFICES ASSUME MixedAssumption, IInv, Open PROVE IInv'
  OBVIOUS
<1>1. /\ level \in Nat /\ level \in Levels
      /\ main' = "load" /\ UNCHANGED <<level, failed>>
      /\ pc' = [c \in AllClients |-> IF c \in ClientsOf(level) THEN "loop" ELSE pc[c]]
  BY ClientLevel DEF IInv, Typed, Open, Levels
<1>2. \A c \in AllClients : LevelOf(c) \in Nat /\ (c \in ClientsOf(level) <=> LevelOf(c) = level)
  <2>1. \A c \in AllClients : LevelOf(c) \in Nat
    BY ClientLevel DEF Levels
  <2>2. \A c \in AllClients : c \in ClientsOf(level) => LevelOf(c) = level
    BY <1>1, ClientLevel
  <2>3. \A c \in AllClients : LevelOf(c) = level => c \in ClientsOf(level)
    BY ClientLevel
  <2> QED BY <2>1, <2>2, <2>3
<1>3. Typed'
  BY <1>1 DEF IInv, Typed, Places, Waiting
<1>4. ComingInv' /\ PresentInv' /\ PastInv'
  BY <1>1, <1>2 DEF IInv, ComingInv, PresentInv, PastInv, Loading
<1> QED BY <1>3, <1>4 DEF IInv

\* The deadline is set while all are at work.
LEMMA SetDeadlineIInv == IInv /\ SetDeadline => IInv'
<1> SUFFICES ASSUME IInv, SetDeadline PROVE IInv'
  OBVIOUS
<1> QED BY DEF IInv, Typed, ComingInv, PresentInv, PastInv, SetDeadline, clientVars, Loading

\* The level is over without having failed, and all of its clients are past the barrier.
LEMMA CollectIInv == MixedAssumption /\ IInv /\ Collect => IInv'
<1> SUFFICES ASSUME MixedAssumption, IInv, Collect PROVE IInv'
  OBVIOUS
<1>1. main = "join" /\ level \in Levels /\ level \in Nat /\ UNCHANGED <<failed, pc>>
  BY ClientLevel DEF IInv, Typed, Collect, clientVars, Levels
<1>2. /\ level' = level + 1
      /\ level' \in 1 .. Len(Clients) + 1
      /\ main' \in {"spawn", "count", "delete", "done"}
      /\ main' = "spawn" <=> level' \in Levels
  BY <1>1, NextLevelTyped DEF Collect
<1>3. \A c \in AllClients : LevelOf(c) \in Nat
  BY ClientLevel DEF Levels
<1>4. Typed'
  BY <1>1, <1>2 DEF IInv, Typed, Levels
<1>5. ComingInv' /\ PresentInv'
  BY <1>1, <1>2, <1>3 DEF IInv, ComingInv, PresentInv
<1>6. PastInv'
  <2>1. \A l \in failed' : l \in Nat /\ l < level'
    BY <1>1, <1>2 DEF IInv, PastInv
  <2>2. ASSUME NEW c \in AllClients, LevelOf(c) < level'
        PROVE  Loading(c)' <=> LevelOf(c) \notin failed'
    <3>1. CASE LevelOf(c) = level
      BY <1>1, <3>1 DEF IInv, PresentInv, PastInv, Loading
    <3>2. CASE LevelOf(c) < level
      BY <1>1, <3>2 DEF IInv, PastInv, Loading
    <3> QED BY <1>1, <1>2, <1>3, <2>2, <3>1, <3>2
  <2> QED BY <2>1, <2>2 DEF PastInv
<1> QED BY <1>4, <1>5, <1>6 DEF IInv

\* Cleaning up comes after all levels.
LEMMA CleanupIInv ==
  MixedAssumption /\ IInv /\ (CountWrites \/ DeleteWrites \/ CleanupFails) => IInv'
<1> SUFFICES ASSUME MixedAssumption, IInv, CountWrites \/ DeleteWrites \/ CleanupFails
             PROVE  IInv'
  OBVIOUS
<1>1. /\ main \in {"count", "delete"} /\ main' \in {"delete", "done"}
      /\ failed' \in {failed, failed \cup {0}}
      /\ UNCHANGED <<level, pc>>
  BY DEF CountWrites, DeleteWrites, CleanupFails, clientVars
<1>2. level \in Nat /\ level > 0 /\ level \notin Levels
  BY <1>1, ClientLevel DEF IInv, Typed
<1>3. \A c \in AllClients : LevelOf(c) \in Nat /\ LevelOf(c) # 0 /\ LevelOf(c) # level
  BY <1>2, ClientLevel DEF Levels
<1>4. Typed'
  BY <1>1, <1>2 DEF IInv, Typed, Levels
<1>5. ComingInv' /\ PresentInv'
  BY <1>1, <1>3 DEF IInv, ComingInv, PresentInv
<1>6. PastInv'
  BY <1>1, <1>2, <1>3 DEF IInv, PastInv, Loading
<1> QED BY <1>4, <1>5, <1>6 DEF IInv

---------------------------------------------------------------------------
(* The client threads                                                      *)

\* A client comes to the barrier, or is past it and stays so; no other moves.
LEMMA ClientStep ==
  ASSUME IInv, NEW c \in AllClients, Client(c)
  PROVE  /\ UNCHANGED mainVars
         /\ pc' \in [AllClients -> Places]
         /\ pc[c] # "none"
         /\ Loading(c)' <=> Loading(c)
         /\ pc[c] \in Waiting => pc'[c] \in Waiting
         /\ \A d \in AllClients \ {c} : pc'[d] = pc[d]
<1>1. pc \in [AllClients -> Places]
  BY DEF IInv, Typed
<1>2. CASE Arrive(c)
  BY <1>1, <1>2 DEF Arrive, Places, Waiting, Loading
<1>3. CASE Begin(c)
  BY <1>1, <1>3 DEF Begin, Places, Waiting, Loading
<1>4. CASE Commit(c)
  BY <1>1, <1>4 DEF Commit, Places, Waiting, Loading
<1>5. CASE Answer(c)
  BY <1>1, <1>5 DEF Answer, Places, Waiting, Loading
<1>6. CASE Miss(c)
  BY <1>1, <1>6 DEF Miss, Places, Waiting, Loading
<1>7. CASE Raise(c)
  BY <1>1, <1>7 DEF Raise, Places, Waiting, Loading
<1>8. CASE Stop(c)
  BY <1>1, <1>8 DEF Stop, Places, Waiting, Loading
<1>9. CASE Extend(c)
  BY <1>1, <1>9 DEF Extend, Places, Waiting, Loading
<1>10. CASE Add(c)
  BY <1>1, <1>10 DEF Add, Places, Waiting, Loading
<1> QED BY <1>2, <1>3, <1>4, <1>5, <1>6, <1>7, <1>8, <1>9, <1>10 DEF Client

\* A client moves neither the main thread nor itself across the barrier.
LEMMA ClientIInv == ASSUME IInv, NEW c \in AllClients, Client(c) PROVE IInv'
<1>1. UNCHANGED <<main, level, failed>>
  BY ClientStep DEF mainVars
<1>2. \A d \in AllClients : (Loading(d)' <=> Loading(d)) /\ (pc[d] \in Waiting => pc'[d] \in Waiting)
  BY ClientStep DEF Loading
<1>3. \A d \in AllClients : pc[d] = "none" => pc'[d] = "none"
  BY ClientStep
<1>4. Typed'
  BY <1>1, ClientStep DEF IInv, Typed
<1>5. ComingInv'
  BY <1>1, <1>3 DEF IInv, ComingInv
<1>6. PresentInv'
  BY <1>1, <1>2 DEF IInv, PresentInv
<1>7. PastInv'
  BY <1>1, <1>2 DEF IInv, PastInv
<1> QED BY <1>4, <1>5, <1>6, <1>7 DEF IInv

---------------------------------------------------------------------------
(* The theorems                                                            *)

\* In every state the levels to come have no threads, the present one waits as a whole
\* or works as a whole, and so did those before it.
THEOREM MixedInvariant == Spec => []IInv
<1>1. Init => IInv
  BY InitIInv, MixedAssumption
<1>2. IInv /\ [Next]_vars => IInv'
  <2> SUFFICES ASSUME IInv, [Next]_vars PROVE IInv'
    OBVIOUS
  <2>1. CASE Sweep
    BY <2>1, SpawnIInv, OpenIInv, SetDeadlineIInv, CollectIInv, MixedAssumption DEF Sweep
  <2>2. CASE CountWrites \/ DeleteWrites \/ CleanupFails
    BY <2>2, CleanupIInv, MixedAssumption
  <2>3. CASE \E c \in AllClients : Client(c)
    BY <2>3, ClientIInv
  <2>4. CASE UNCHANGED vars
    BY <2>4 DEF vars, mainVars, clientVars, IInv, Typed, ComingInv, PresentInv, PastInv, Loading
  <2> QED BY <2>1, <2>2, <2>3, <2>4 DEF Next, Finished
<1> QED BY <1>1, <1>2, PTL DEF Spec

\* For any number of levels and clients: whoever applies load does so with all the
\* clients of its level past the barrier and, at the present level, the clock running;
\* of a level that could not be started nobody does.
THEOREM StartTogetherHolds == Spec => []StartTogether
<1>1. IInv => StartTogether
  <2> SUFFICES ASSUME IInv, NEW c \in AllClients, Loading(c)
               PROVE  /\ \A d \in ClientsOf(LevelOf(c)) : Loading(d)
                      /\ LevelOf(c) = level => main \in {"load", "join"}
                      /\ LevelOf(c) \notin failed
    BY DEF StartTogether
  <2>1. /\ LevelOf(c) \in Levels /\ LevelOf(c) \in Nat /\ level \in Nat
        /\ \A d \in ClientsOf(LevelOf(c)) : d \in AllClients /\ LevelOf(d) = LevelOf(c)
    BY ClientLevel, MixedAssumption DEF IInv, Typed, Levels
  <2>2. ~ (LevelOf(c) > level)
    BY DEF IInv, ComingInv, Loading
  <2>3. CASE LevelOf(c) < level
    BY <2>1, <2>3 DEF IInv, PastInv
  <2>4. CASE LevelOf(c) = level
    <3>1. main \in {"load", "join"}
      BY <2>1, <2>4 DEF IInv, Typed, ComingInv, PresentInv, Loading, Waiting
    <3> QED BY <2>1, <2>4, <3>1 DEF IInv, PresentInv, PastInv
  <2> QED BY <2>1, <2>2, <2>3, <2>4
<1> QED BY <1>1, MixedInvariant, PTL

---------------------------------------------------------------------------
(* Type correctness                                                        *)

\* What bounds the operations and the errors of a client that is still at it.
AtIt == Waiting \cup {"loop", "reading", "writing", "written"}
TallyBounded ==
  /\ IsFiniteSet(store)
  /\ \A c \in AllClients : pc[c] \in AtIt => tally[c].errors <= MaxErrors
  /\ \A c \in AllClients : pc[c] \in {"reading", "writing", "written"} =>
                             Begun(c) < MaxOps[LevelOf(c)]

Bounded == TypeOK /\ TallyBounded

\* At the start nothing has been done.
LEMMA InitBounded == MixedAssumption /\ Init => Bounded
<1> SUFFICES ASSUME MixedAssumption, Init PROVE Bounded
  OBVIOUS
<1>1. Len(Clients) \in Nat \ {0} /\ MaxErrors \in Nat
  BY ClientLevel DEF MixedAssumption
<1>2. TypeOK
  BY <1>1 DEF Init, TypeOK, Ops, NoOps, NoResult
<1>3. TallyBounded
  BY <1>1, FS_EmptySet DEF Init, TallyBounded
<1> QED BY <1>2, <1>3 DEF Bounded

\* The main thread counts nothing but what is in the store.
LEMMA SweepKeepsBounded ==
  ASSUME MixedAssumption, IInv, Bounded, Sweep \/ CountWrites \/ DeleteWrites \/ CleanupFails, IInv'
  PROVE  Bounded'
<1>1. /\ UNCHANGED <<tally, latency, counters, seen, lock, unacked, missed>>
      /\ store' \in {store, {}}
  BY DEF Sweep, Spawn, Open, SetDeadline, Collect, CountWrites, DeleteWrites, CleanupFails, clientVars
<1>2. main' \in {"spawn", "gate", "load", "join", "count", "delete", "done"}
      /\ level' \in 1 .. Len(Clients) + 1
  BY DEF IInv, Typed
<1>3. pc' \in [AllClients -> {"none", "starting", "gate", "loop", "reading", "writing", "written",
                              "merge", "adding", "done"}]
  BY DEF IInv, Typed, Places, Waiting
<1>4. level \in Nat /\ (main \in {"spawn", "gate", "load", "join"} => level \in Levels)
  BY ClientLevel DEF IInv, Typed, Levels
<1>5. expired' \subseteq Levels /\ failed' \subseteq Levels \cup {0} /\ behind' \subseteq AllClients
  <2>1. expired \subseteq Levels /\ failed \subseteq Levels \cup {0} /\ behind \subseteq AllClients
    BY DEF Bounded, TypeOK
  <2>2. level \in Levels => ClientsOf(level) \subseteq AllClients
    BY ClientLevel
  <2> QED BY <1>4, <2>1, <2>2 DEF Sweep, Spawn, Open, SetDeadline, Collect, CountWrites,
          DeleteWrites, CleanupFails
<1>6. results' \in [Levels -> [reads : Nat, writes : Nat, built : BOOLEAN]]
  <2>1. results \in [Levels -> [reads : Nat, writes : Nat, built : BOOLEAN]] /\ counters \in [Levels -> Ops]
    BY DEF Bounded, TypeOK
  <2>2. CASE Collect
    <3>1. level \in Levels
      BY <1>4, <2>2 DEF Collect
    <3>2. counters[level].reads \in Nat /\ counters[level].writes \in Nat
      BY <2>1, <3>1 DEF Ops
    <3> QED BY <2>1, <2>2, <3>1, <3>2 DEF Collect
  <2>3. CASE ~ Collect
    BY <2>1, <2>3 DEF Sweep, Spawn, Open, SetDeadline, CountWrites, DeleteWrites, CleanupFails
  <2> QED BY <2>2, <2>3
<1>7. found' \in Nat /\ cleaned' \in Nat /\ IsFiniteSet(store')
  <2>1. found \in Nat /\ cleaned \in Nat /\ IsFiniteSet(store)
    BY DEF Bounded, TypeOK, TallyBounded
  <2>2. Cardinality(store) \in Nat
    BY <2>1, FS_CardinalityType
  <2> QED BY <1>1, <2>1, <2>2, FS_EmptySet DEF Sweep, Spawn, Open, SetDeadline, Collect,
          CountWrites, DeleteWrites, CleanupFails
<1>8. \A c \in AllClients : /\ pc'[c] \in AtIt => pc[c] \in AtIt
                            /\ pc'[c] \in {"reading", "writing", "written"} => pc'[c] = pc[c]
  <2>1. CASE Spawn
    <3>1. PICK n \in 0 .. Clients[level] :
            pc' = [c \in AllClients |->
                     IF LevelOf(c) = level /\ WorkerId(c) < n THEN "starting" ELSE pc[c]]
      BY <2>1 DEF Spawn
    <3>2. \A c \in AllClients : LevelOf(c) = level => pc[c] = "none"
      BY <2>1 DEF Spawn, IInv, ComingInv
    <3> QED BY <3>1, <3>2 DEF AtIt, Waiting
  <2>2. CASE Open
    BY <2>2 DEF Open, AtIt, Waiting
  <2>3. CASE ~ (Spawn \/ Open)
    BY <2>3 DEF Sweep, SetDeadline, Collect, CountWrites, DeleteWrites, CleanupFails, clientVars
  <2> QED BY <2>1, <2>2, <2>3
<1>9. TypeOK'
  BY <1>1, <1>2, <1>3, <1>5, <1>6, <1>7 DEF Bounded, TypeOK
<1>10. TallyBounded'
  BY <1>1, <1>7, <1>8 DEF Bounded, TallyBounded, Begun
<1> QED BY <1>9, <1>10 DEF Bounded

\* The node a client may write is one of its level's operations.
LEMMA NodeTyped ==
  ASSUME MixedAssumption, Bounded, NEW c \in AllClients, pc[c] \in {"reading", "writing", "written"}
  PROVE  /\ Node(c).client \in AllClients
         /\ Node(c).seq \in 1 .. MaxOps[LevelOf(Node(c).client)]
<1>1. MaxOps[LevelOf(c)] \in Nat
  <2>1. LevelOf(c) \in 1 .. Len(Clients)
    BY ClientLevel DEF Levels
  <2> QED BY <2>1 DEF MixedAssumption
<1>2. Begun(c) \in Nat /\ Begun(c) < MaxOps[LevelOf(c)]
  <2>1. tally[c] \in [reads : Nat, writes : Nat, errors : 0 .. MaxErrors + 1] /\ MaxErrors \in Nat
    BY DEF Bounded, TypeOK, MixedAssumption
  <2> QED BY <2>1 DEF Begun, Bounded, TallyBounded
<1> QED BY <1>1, <1>2 DEF Node

\* Adding operations to operations gives operations.
LEMMA PlusTyped == \A a \in Ops : \A b : b.reads \in Nat /\ b.writes \in Nat => Plus(a, b) \in Ops
BY DEF Ops, Plus

\* What a client counts.
Tallies == [reads : Nat, writes : Nat, errors : 0 .. MaxErrors + 1]

\* One operation more is no error.
LEMMA OneMore ==
  \A t \in Tallies :
    /\ [t EXCEPT !.reads = @ + 1] \in Tallies /\ [t EXCEPT !.reads = @ + 1].errors = t.errors
    /\ [t EXCEPT !.writes = @ + 1] \in Tallies /\ [t EXCEPT !.writes = @ + 1].errors = t.errors
BY DEF Tallies

\* A client adds to its own numbers, and when it is done to those of its level.
LEMMA ClientKeepsBounded ==
  ASSUME MixedAssumption, IInv, Bounded, NEW c \in AllClients, Client(c), IInv'
  PROVE  Bounded'
<1> DEFINE l == LevelOf(c)
<1>1. MaxErrors \in Nat /\ LevelOf(c) \in Levels
  BY ClientLevel DEF MixedAssumption
<1>2. /\ pc \in [AllClients -> Places] /\ pc' \in [AllClients -> Places]
      /\ UNCHANGED <<main, level, expired, results, found, cleaned, failed, behind>>
      /\ \A d \in AllClients \ {c} : pc'[d] = pc[d]
  BY ClientStep DEF IInv, Typed, mainVars
<1>3. /\ tally \in [AllClients -> Tallies] /\ tally[c] \in Tallies
      /\ latency \in [Levels -> Ops] /\ counters \in [Levels -> Ops] /\ seen \in [AllClients -> Ops]
      /\ lock \in [Levels -> AllClients \cup {Free}] /\ missed \in Nat
      /\ NoOps \in Ops
  BY DEF Bounded, TypeOK, NoOps, Ops, Tallies
<1>4. pc[c] \in AtIt => tally[c].errors <= MaxErrors
  BY DEF Bounded, TallyBounded
<1>5. /\ tally' \in [AllClients -> Tallies]
      /\ \A d \in AllClients \ {c} : tally'[d] = tally[d]
      /\ pc'[c] \in AtIt => tally'[c].errors <= MaxErrors
      /\ pc'[c] \in {"reading", "writing", "written"} => Begun(c)' < MaxOps[LevelOf(c)]
  <2>1. CASE Arrive(c) \/ Begin(c) \/ Commit(c) \/ Stop(c) \/ Extend(c) \/ Add(c)
    <3>1. tally' = tally /\ Begun(c)' = Begun(c)
      BY <2>1 DEF Arrive, Begin, Commit, Stop, Extend, Add, Begun
    <3>2. pc'[c] \in AtIt => pc[c] \in AtIt
      BY <1>2, <2>1 DEF Arrive, Begin, Commit, Stop, Extend, Add, AtIt, Waiting
    <3>3. pc'[c] \in {"reading", "writing", "written"} => Begun(c) < MaxOps[LevelOf(c)]
      BY <1>2, <2>1 DEF Arrive, Begin, Commit, Stop, Extend, Add, Bounded, TallyBounded
    <3> QED BY <1>3, <1>4, <3>1, <3>2, <3>3
  <2>2. CASE Answer(c) \/ Miss(c)
    <3>1. /\ pc[c] \in AtIt /\ pc'[c] = "loop"
          /\ \/ tally' = [tally EXCEPT ![c].reads = @ + 1]
             \/ tally' = [tally EXCEPT ![c].writes = @ + 1]
      BY <1>2, <2>2 DEF Answer, Miss, AtIt
    <3>2. CASE tally' = [tally EXCEPT ![c].reads = @ + 1]
      <4> DEFINE new == [tally[c] EXCEPT !.reads = @ + 1]
      <4>2. new \in Tallies /\ new.errors = tally[c].errors
        BY <1>3, OneMore
      <4>3. tally' = [tally EXCEPT ![c] = new]
        BY <3>2
      <4> HIDE DEF new
      <4>1. tally' \in [AllClients -> Tallies] /\ tally'[c].errors = tally[c].errors
        BY <1>3, <4>2, <4>3
      <4> QED BY <1>4, <3>1, <3>2, <4>1
    <3>3. CASE tally' = [tally EXCEPT ![c].writes = @ + 1]
      <4> DEFINE new == [tally[c] EXCEPT !.writes = @ + 1]
      <4>2. new \in Tallies /\ new.errors = tally[c].errors
        BY <1>3, OneMore
      <4>3. tally' = [tally EXCEPT ![c] = new]
        BY <3>3
      <4> HIDE DEF new
      <4>1. tally' \in [AllClients -> Tallies] /\ tally'[c].errors = tally[c].errors
        BY <1>3, <4>2, <4>3
      <4> QED BY <1>4, <3>1, <3>3, <4>1
    <3> QED BY <3>1, <3>2, <3>3
  <2>3. CASE Raise(c)
    <3>1. /\ pc[c] \in AtIt
          /\ pc'[c] = IF tally[c].errors + 1 > MaxErrors THEN "merge" ELSE "loop"
          /\ tally' = [tally EXCEPT ![c].errors = @ + 1]
      BY <1>2, <2>3 DEF Raise, AtIt
    <3>2. tally' \in [AllClients -> Tallies] /\ tally'[c].errors = tally[c].errors + 1
      <4>1. tally[c].errors + 1 \in 0 .. MaxErrors + 1
        BY <1>1, <1>3, <1>4, <3>1 DEF Tallies
      <4>2. [tally[c] EXCEPT !.errors = @ + 1] \in Tallies
        BY <1>3, <4>1 DEF Tallies
      <4>3. tally' = [tally EXCEPT ![c] = [tally[c] EXCEPT !.errors = @ + 1]]
        BY <1>3, <3>1
      <4> QED BY <1>3, <4>2, <4>3 DEF Tallies
    <3>3. \A d \in AllClients \ {c} : tally'[d] = tally[d]
      BY <1>3, <3>1
    <3>4. pc'[c] \in AtIt => tally'[c].errors <= MaxErrors
      <4>1. pc'[c] \in AtIt => ~ (tally[c].errors + 1 > MaxErrors)
        BY <3>1 DEF AtIt, Waiting
      <4>2. tally[c].errors \in Nat
        BY <1>3 DEF Tallies
      <4> QED BY <1>1, <3>2, <4>1, <4>2
    <3>5. pc'[c] \notin {"reading", "writing", "written"}
      BY <3>1
    <3> QED BY <3>2, <3>3, <3>4, <3>5
  <2> QED BY <2>1, <2>2, <2>3 DEF Client
<1>6. /\ latency' \in [Levels -> Ops] /\ counters' \in [Levels -> Ops]
      /\ seen' \in [AllClients -> Ops]
      /\ lock' \in [Levels -> AllClients \cup {Free}]
      /\ missed' \in Nat
  <2>1. tally[c].reads \in Nat /\ tally[c].writes \in Nat
    BY <1>3 DEF Tallies
  <2>2. latency[l] \in Ops /\ counters[l] \in Ops /\ seen[c] \in Ops
    BY <1>1, <1>3
  <2>3. Plus(latency[l], tally[c]) \in Ops /\ Plus(seen[c], tally[c]) \in Ops
    BY <2>1, <2>2, PlusTyped
  <2>4. CASE Extend(c)
    BY <1>1, <1>3, <2>2, <2>3, <2>4 DEF Extend
  <2>5. CASE Add(c)
    BY <1>1, <1>3, <2>3, <2>5 DEF Add
  <2>6. CASE ~ (Extend(c) \/ Add(c))
    BY <1>3, <2>6 DEF Client, Arrive, Begin, Commit, Answer, Miss, Raise, Stop
  <2> QED BY <2>4, <2>5, <2>6
<1>7. store' \in {store, store \cup {Node(c)}} /\ unacked' \in {unacked, unacked \cup {Node(c)}}
      /\ (store' # store \/ unacked' # unacked => pc[c] \in {"reading", "writing", "written"})
  BY DEF Client, Arrive, Begin, Commit, Answer, Miss, Raise, Stop, Extend, Add
<1>8. /\ \A node \in store' \cup unacked' :
           node.client \in AllClients /\ node.seq \in 1 .. MaxOps[LevelOf(node.client)]
      /\ IsFiniteSet(store')
  <2>1. /\ \A node \in store \cup unacked :
             node.client \in AllClients /\ node.seq \in 1 .. MaxOps[LevelOf(node.client)]
        /\ IsFiniteSet(store)
    BY DEF Bounded, TypeOK, TallyBounded
  <2>2. IsFiniteSet(store')
    BY <1>7, <2>1, FS_AddElement
  <2> QED BY <1>7, <2>1, <2>2, NodeTyped
<1>9. TypeOK'
  BY <1>2, <1>5, <1>6, <1>8 DEF Bounded, TypeOK, Places, Waiting, Tallies
<1>10. TallyBounded'
  <2>1. \A d \in AllClients \ {c} : Begun(d)' = Begun(d)
    BY <1>5 DEF Begun
  <2>2. \A d \in AllClients \ {c} :
          /\ pc'[d] \in AtIt => tally'[d].errors <= MaxErrors
          /\ pc'[d] \in {"reading", "writing", "written"} => Begun(d)' < MaxOps[LevelOf(d)]
    BY <1>2, <1>5, <2>1 DEF Bounded, TallyBounded
  <2> QED BY <1>5, <1>8, <2>2 DEF TallyBounded
<1> QED BY <1>9, <1>10 DEF Bounded

\* The bounds hold throughout, and with them the types.
THEOREM BoundedInvariant == Spec => []Bounded
<1>1. Init => Bounded
  BY InitBounded, MixedAssumption
<1>2. IInv /\ Bounded /\ [Next]_vars /\ IInv' => Bounded'
  <2> SUFFICES ASSUME IInv, Bounded, [Next]_vars, IInv' PROVE Bounded'
    OBVIOUS
  <2>1. CASE Sweep \/ CountWrites \/ DeleteWrites \/ CleanupFails
    BY <2>1, SweepKeepsBounded, MixedAssumption
  <2>2. CASE \E c \in AllClients : Client(c)
    BY <2>2, ClientKeepsBounded, MixedAssumption
  <2>3. CASE UNCHANGED vars
    BY <2>3 DEF vars, mainVars, clientVars, Bounded, TypeOK, TallyBounded, Begun
  <2> QED BY <2>1, <2>2, <2>3 DEF Next, Finished
<1> QED BY <1>1, <1>2, MixedInvariant, PTL DEF Spec

\* Every variable keeps its type, and no client counts more operations or errors than the
\* loop allows it.
THEOREM MixedTypeCorrect == Spec => []TypeOK
<1>1. Bounded => TypeOK
  BY DEF Bounded
<1> QED BY <1>1, BoundedInvariant, PTL

---------------------------------------------------------------------------
(* The books                                                               *)

Fields == {"reads", "writes"}

\* There are finitely many clients, at each level and in all.
LEMMA ClientsFinite ==
  ASSUME MixedAssumption
  PROVE  /\ IsFiniteSet(AllClients)
         /\ \A l \in Levels : IsFiniteSet(ClientsOf(l)) /\ ClientsOf(l) \subseteq AllClients
<1>1. \A l \in Levels : IsFiniteSet(ClientsOf(l)) /\ ClientsOf(l) \subseteq AllClients
  <2> SUFFICES ASSUME NEW l \in Levels
               PROVE  IsFiniteSet(ClientsOf(l)) /\ ClientsOf(l) \subseteq AllClients
    OBVIOUS
  <2>1. Clients[l] \in Nat
    BY DEF MixedAssumption, Levels
  <2>2. IsFiniteSet(0 .. Clients[l] - 1) /\ IsFiniteSet({l})
    <3>1. 0 \in Int /\ Clients[l] - 1 \in Int
      BY <2>1
    <3> QED BY <3>1, FS_Interval, FS_Singleton
  <2>3. IsFiniteSet(ClientsOf(l))
    BY <2>2, FS_Product DEF ClientsOf
  <2> QED BY <2>3 DEF AllClients
<1>2. IsFiniteSet({ClientsOf(l) : l \in Levels})
  <2> DEFINE f == [l \in Levels |-> ClientsOf(l)]
  <2>1. f \in Surjection(Levels, {ClientsOf(l) : l \in Levels})
    BY DEF Surjection
  <2>2. IsFiniteSet(Levels)
    BY ClientLevel, Prefix DEF Levels
  <2> QED BY <2>1, <2>2, FS_Surjection
<1>3. IsFiniteSet(AllClients)
  BY <1>1, <1>2, FS_UNION DEF AllClients
<1> QED BY <1>1, <1>3

\* The sentinel is no client.
LEMMA FreeIsNobody == MixedAssumption => Free \notin AllClients
<1> SUFFICES ASSUME MixedAssumption, NEW l \in Levels PROVE Free \notin ClientsOf(l)
  BY DEF AllClients
<1>1. Clients[l] \in Nat /\ l \in Nat
  BY DEF MixedAssumption, Levels
<1>2. ClientsOf(l) \subseteq Nat \X Nat
  BY <1>1 DEF ClientsOf
<1> QED BY <1>2 DEF MixedAssumption

\* What the clients did, as a function to be added up.
Did(field) == [c \in AllClients |-> tally[c][field]]
Sum(field, S) == SumFunctionOnSet(Did(field), S)

\* Who adds to a level's counters holds its merge_lock and has read them as they are; the
\* samples are ahead of the counters by what the holder did.
MergeInv ==
  /\ \A c \in AllClients : pc[c] = "adding" <=> lock[LevelOf(c)] = c
  /\ \A l \in Levels : lock[l] = Free \/ lock[l] \in ClientsOf(l)
  /\ \A c \in AllClients : pc[c] = "adding" => seen[c] = counters[LevelOf(c)]
  /\ \A l \in Levels : latency[l] = IF lock[l] = Free THEN counters[l]
                                    ELSE Plus(counters[l], tally[lock[l]])
  /\ \A l \in Levels, field \in Fields : counters[l][field] = Sum(field, MergedBy(l))

\* The total of the properties is the sum the lemmas are about.
LEMMA TotalIsSum ==
  ASSUME NEW S \in SUBSET AllClients, NEW field
  PROVE  TotalOf(field, S) = Sum(field, S)
BY DEF TotalOf, Sum, Did, MapThenSumSet, SumFunctionOnSet, FoldFunctionOnSet, MapThenFoldSet

\* What a client did is a number.
LEMMA DidTyped ==
  ASSUME Bounded, NEW field \in Fields
  PROVE  \A c \in AllClients : Did(field)[c] \in Nat /\ Did(field)[c] = tally[c][field]
BY DEF Bounded, TypeOK, Did, Fields

---------------------------------------------------------------------------
(* Merging                                                                 *)

\* Steps that neither merge nor change what has been merged.
LEMMA QuietKeepsMergeInv ==
  ASSUME MixedAssumption, Bounded, MergeInv,
         UNCHANGED <<counters, latency, seen, lock>>,
         \A c \in AllClients : pc[c] \in {"adding", "done"} \/ pc'[c] \in {"adding", "done"} =>
                                 pc'[c] = pc[c] /\ tally'[c] = tally[c]
  PROVE  MergeInv'
<1>1. \A c \in AllClients : /\ pc'[c] = "adding" <=> pc[c] = "adding"
                            /\ pc'[c] = "done" <=> pc[c] = "done"
                            /\ pc[c] \in {"adding", "done"} => tally'[c] = tally[c]
  OBVIOUS
<1>2. \A l \in Levels : ClientsOf(l) \subseteq AllClients /\ IsFiniteSet(ClientsOf(l))
                        /\ \A c \in ClientsOf(l) : LevelOf(c) = l
  BY ClientsFinite, ClientLevel
<1>3. /\ \A c \in AllClients : pc'[c] = "adding" <=> lock'[LevelOf(c)] = c
      /\ \A l \in Levels : lock'[l] = Free \/ lock'[l] \in ClientsOf(l)
      /\ \A c \in AllClients : pc'[c] = "adding" => seen'[c] = counters'[LevelOf(c)]
  BY <1>1 DEF MergeInv
<1>4. \A l \in Levels : latency'[l] = IF lock'[l] = Free THEN counters'[l]
                                      ELSE Plus(counters'[l], tally'[lock'[l]])
  <2> SUFFICES ASSUME NEW l \in Levels, lock[l] # Free PROVE tally'[lock[l]] = tally[lock[l]]
    BY DEF MergeInv
  <2>1. lock[l] \in ClientsOf(l) /\ lock[l] \in AllClients /\ LevelOf(lock[l]) = l
    BY <1>2 DEF MergeInv
  <2>2. pc[lock[l]] = "adding"
    BY <2>1 DEF MergeInv
  <2> QED BY <1>1, <2>1, <2>2
<1>5. \A l \in Levels, field \in Fields : counters'[l][field] = Sum(field, MergedBy(l))'
  <2> SUFFICES ASSUME NEW l \in Levels, NEW field \in Fields
               PROVE  Sum(field, MergedBy(l))' = Sum(field, MergedBy(l))
    BY DEF MergeInv
  <2> DEFINE S == MergedBy(l)
  <2>1. S' = S
    BY <1>1, <1>2 DEF MergedBy
  <2>2. S \subseteq AllClients /\ IsFiniteSet(S)
    BY <1>2, FS_Subset DEF MergedBy
  <2>3. \A c \in S : Did(field)[c] \in Nat /\ Did(field)'[c] = Did(field)[c]
    BY <1>1, <2>2, DidTyped DEF MergedBy, Did
  <2> HIDE DEF S
  <2>4. SumFunctionOnSet(Did(field)', S) = SumFunctionOnSet(Did(field), S)
    BY <2>2, <2>3, SumSame
  <2> QED BY <2>1, <2>4 DEF Sum, S
<1> QED BY <1>3, <1>4, <1>5 DEF MergeInv

\* The lock is taken: what the holder did is ahead of the counters.
LEMMA ExtendKeepsMergeInv ==
  ASSUME MixedAssumption, IInv, Bounded, MergeInv, NEW c \in AllClients, Extend(c)
  PROVE  MergeInv'
<1> DEFINE k == LevelOf(c)
<1>1. k \in Levels /\ c \in ClientsOf(k)
  BY ClientLevel
<1>2. \A l \in Levels : ClientsOf(l) \subseteq AllClients /\ \A d \in ClientsOf(l) : LevelOf(d) = l
  BY ClientLevel
<1>3. /\ pc[c] = "merge" /\ lock[k] = Free
      /\ pc' = [pc EXCEPT ![c] = "adding"] /\ pc \in [AllClients -> Places]
      /\ lock' = [lock EXCEPT ![k] = c] /\ seen' = [seen EXCEPT ![c] = counters[k]]
      /\ latency' = [latency EXCEPT ![k] = Plus(latency[k], tally[c])]
      /\ UNCHANGED <<tally, counters>>
  BY DEF Extend, IInv, Typed
<1>4. /\ lock \in [Levels -> AllClients \cup {Free}] /\ seen \in [AllClients -> Ops]
      /\ latency \in [Levels -> Ops]
  BY DEF Bounded, TypeOK
<1>5. c # Free
  BY FreeIsNobody
<1> HIDE DEF k
<1>6. \A d \in AllClients : pc'[d] = "adding" <=> lock'[LevelOf(d)] = d
  <2> SUFFICES ASSUME NEW d \in AllClients PROVE pc'[d] = "adding" <=> lock'[LevelOf(d)] = d
    OBVIOUS
  <2>1. LevelOf(d) \in Levels
    BY ClientLevel
  <2>2. d # Free
    BY FreeIsNobody
  <2>3. pc[d] = "adding" <=> lock[LevelOf(d)] = d
    BY DEF MergeInv
  <2> QED BY <1>3, <1>4, <2>1, <2>2, <2>3 DEF k
<1>7. \A l \in Levels : lock'[l] = Free \/ lock'[l] \in ClientsOf(l)
  BY <1>1, <1>3, <1>4 DEF MergeInv
<1>8. \A d \in AllClients : pc'[d] = "adding" => seen'[d] = counters'[LevelOf(d)]
  BY <1>3, <1>4 DEF MergeInv, k
<1>9. \A l \in Levels : latency'[l] = IF lock'[l] = Free THEN counters'[l]
                                      ELSE Plus(counters'[l], tally'[lock'[l]])
  BY <1>1, <1>3, <1>4, <1>5 DEF MergeInv
<1>10. \A l \in Levels : MergedBy(l)' = MergedBy(l)
  BY <1>2, <1>3 DEF MergedBy
<1>11. \A field : Did(field)' = Did(field)
  BY <1>3 DEF Did
<1>12. \A l \in Levels, field \in Fields : counters'[l][field] = Sum(field, MergedBy(l))'
  BY <1>3, <1>10, <1>11 DEF MergeInv, Sum
<1> QED BY <1>6, <1>7, <1>8, <1>9, <1>12 DEF MergeInv

\* The lock is given back: the holder is one of those who have merged, and its numbers are
\* added to those of the others.
LEMMA AddKeepsMergeInv ==
  ASSUME MixedAssumption, IInv, Bounded, MergeInv, NEW c \in AllClients, Add(c)
  PROVE  MergeInv'
<1> DEFINE k == LevelOf(c)
<1>1. k \in Levels /\ c \in ClientsOf(k)
  BY ClientLevel
<1>2. \A l \in Levels : /\ ClientsOf(l) \subseteq AllClients /\ IsFiniteSet(ClientsOf(l))
                        /\ \A d \in ClientsOf(l) : LevelOf(d) = l
  BY ClientLevel, ClientsFinite
<1>3. /\ pc[c] = "adding"
      /\ pc' = [pc EXCEPT ![c] = "done"] /\ pc \in [AllClients -> Places]
      /\ lock' = [lock EXCEPT ![k] = Free] /\ seen' = [seen EXCEPT ![c] = NoOps]
      /\ counters' = [counters EXCEPT ![k] = Plus(seen[c], tally[c])]
      /\ UNCHANGED <<tally, latency>>
  BY DEF Add, IInv, Typed
<1>4. /\ lock \in [Levels -> AllClients \cup {Free}] /\ seen \in [AllClients -> Ops]
      /\ counters \in [Levels -> Ops]
  BY DEF Bounded, TypeOK
<1>5. lock[k] = c /\ c # Free /\ seen[c] = counters[k]
  BY <1>3, FreeIsNobody DEF MergeInv, k
<1> HIDE DEF k
<1>6. \A d \in AllClients : pc'[d] = "adding" <=> lock'[LevelOf(d)] = d
  <2> SUFFICES ASSUME NEW d \in AllClients PROVE pc'[d] = "adding" <=> lock'[LevelOf(d)] = d
    OBVIOUS
  <2>1. LevelOf(d) \in Levels /\ d # Free
    BY ClientLevel, FreeIsNobody
  <2>2. pc[d] = "adding" <=> lock[LevelOf(d)] = d
    BY DEF MergeInv
  <2>3. CASE d = c
    <3>1. LevelOf(d) = k
      BY <2>3 DEF k
    <3>2. pc'[d] = "done"
      BY <1>3, <2>3
    <3>3. lock'[k] = Free
      BY <1>1, <1>3, <1>4
    <3> QED BY <2>1, <3>1, <3>2, <3>3
  <2>4. CASE d # c
    <3>1. pc'[d] = pc[d]
      BY <1>3, <2>4
    <3>2. lock'[LevelOf(d)] = IF LevelOf(d) = k THEN Free ELSE lock[LevelOf(d)]
      BY <1>3, <1>4, <2>1
    <3> QED BY <1>5, <2>1, <2>2, <2>4, <3>1, <3>2
  <2> QED BY <2>3, <2>4
<1>7. \A l \in Levels : lock'[l] = Free \/ lock'[l] \in ClientsOf(l)
  BY <1>1, <1>3, <1>4 DEF MergeInv
<1>8. \A d \in AllClients : pc'[d] = "adding" => seen'[d] = counters'[LevelOf(d)]
  <2> SUFFICES ASSUME NEW d \in AllClients, pc'[d] = "adding"
               PROVE  seen'[d] = counters'[LevelOf(d)]
    OBVIOUS
  <2>1. d # c /\ pc[d] = "adding"
    BY <1>3
  <2>2. LevelOf(d) # k
    BY <1>5, <2>1 DEF MergeInv
  <2> QED BY <1>3, <1>4, <2>1, <2>2 DEF MergeInv
<1>9. \A l \in Levels : latency'[l] = IF lock'[l] = Free THEN counters'[l]
                                      ELSE Plus(counters'[l], tally'[lock'[l]])
  BY <1>1, <1>3, <1>4, <1>5 DEF MergeInv
<1>10. \A l \in Levels, field \in Fields : counters'[l][field] = Sum(field, MergedBy(l))'
  <2> SUFFICES ASSUME NEW l \in Levels, NEW field \in Fields
               PROVE  counters'[l][field] = Sum(field, MergedBy(l))'
    OBVIOUS
  <2> DEFINE S == MergedBy(l)
  <2>1. Sum(field, MergedBy(l))' = SumFunctionOnSet(Did(field), S')
    BY <1>3 DEF Sum, Did
  <2>2. counters[l][field] = SumFunctionOnSet(Did(field), S)
    BY DEF MergeInv, Sum
  <2>3. CASE l # k
    <3>1. S' = S
      BY <1>2, <1>3, <2>3 DEF MergedBy, k
    <3>2. counters'[l] = counters[l]
      BY <1>3, <1>4, <2>3
    <3> QED BY <2>1, <2>2, <3>1, <3>2
  <2>4. CASE l = k
    <3>1. S' = S \cup {c} /\ S' \ {c} = S /\ c \in S'
      BY <1>1, <1>2, <1>3, <2>4 DEF MergedBy
    <3>2. S' \subseteq AllClients /\ IsFiniteSet(S')
      <4>1. S' \subseteq ClientsOf(l)
        BY DEF MergedBy
      <4> QED BY <1>2, <4>1, FS_Subset
    <3>3. \A d \in S' : Did(field)[d] \in Nat
      BY <3>2, DidTyped
    <3>4. Did(field)[c] = tally[c][field]
      BY DidTyped
    <3> HIDE DEF S
    <3>5. SumFunctionOnSet(Did(field), S') = Did(field)[c] + SumFunctionOnSet(Did(field), S)
      <4> DEFINE T == S'
      <4>1. IsFiniteSet(T) /\ c \in T /\ (\A d \in T : Did(field)[d] \in Nat) /\ T \ {c} = S
        BY <3>1, <3>2, <3>3
      <4> HIDE DEF T
      <4>2. SumFunctionOnSet(Did(field), T) = Did(field)[c] + SumFunctionOnSet(Did(field), T \ {c})
        BY <4>1, SumOne
      <4> QED BY <4>1, <4>2 DEF T
    <3>6. counters'[l][field] = counters[l][field] + tally[c][field]
      BY <1>1, <1>3, <1>4, <1>5, <2>4 DEF Plus, Fields
    <3>7. counters[l][field] \in Nat /\ tally[c][field] \in Nat
      BY <1>4, <3>4, DidTyped DEF Ops, Fields
    <3> QED BY <2>1, <2>2, <3>4, <3>5, <3>6, <3>7
  <2> QED BY <2>3, <2>4
<1> QED BY <1>6, <1>7, <1>8, <1>9, <1>10 DEF MergeInv

\* The main thread starts threads and lets them off the barrier; it merges nothing.
LEMMA SweepLeavesClients ==
  ASSUME MixedAssumption, IInv, Sweep \/ CountWrites \/ DeleteWrites \/ CleanupFails
  PROVE  /\ UNCHANGED <<tally, latency, counters, seen, lock, unacked, missed>>
         /\ \A c \in AllClients :
              \/ pc'[c] = pc[c]
              \/ /\ LevelOf(c) = level
                 /\ pc[c] \in Waiting
                 /\ pc'[c] \in Waiting \cup {"loop"}
<1>1. UNCHANGED <<tally, latency, counters, seen, lock, unacked, missed>>
  BY DEF Sweep, Spawn, Open, SetDeadline, Collect, CountWrites, DeleteWrites, CleanupFails, clientVars
<1>2. CASE Spawn
  <2>1. PICK n \in 0 .. Clients[level] :
          pc' = [c \in AllClients |->
                   IF LevelOf(c) = level /\ WorkerId(c) < n THEN "starting" ELSE pc[c]]
    BY <1>2 DEF Spawn
  <2>2. \A c \in AllClients : LevelOf(c) = level => pc[c] = "none"
    BY <1>2 DEF Spawn, IInv, ComingInv
  <2> QED BY <1>1, <2>1, <2>2 DEF Waiting
<1>3. CASE Open
  <2>1. level \in Levels
    BY <1>3 DEF Open, IInv, Typed
  <2>2. \A c \in AllClients : c \in ClientsOf(level) => LevelOf(c) = level
    BY <2>1, ClientLevel
  <2> QED BY <1>1, <1>3, <2>2 DEF Open, Waiting
<1>4. CASE ~ (Spawn \/ Open)
  BY <1>1, <1>4 DEF Sweep, SetDeadline, Collect, CountWrites, DeleteWrites, CleanupFails, clientVars
<1> QED BY <1>2, <1>3, <1>4

\* A client changes its own numbers, and only while a call of its is under way.
LEMMA ClientTallies ==
  ASSUME Bounded, NEW c \in AllClients, Client(c)
  PROVE  /\ \A d \in AllClients \ {c} : tally'[d] = tally[d]
         /\ pc[c] \notin {"reading", "writing", "written"} => tally' = tally
<1>1. tally \in [AllClients -> Tallies]
  BY DEF Bounded, TypeOK, Tallies
<1> QED BY <1>1 DEF Client, Arrive, Begin, Commit, Answer, Miss, Raise, Stop, Extend, Add

\* Who holds the lock adds, and who adds holds the lock, whatever the others do.
LEMMA StepKeepsMergeInv ==
  ASSUME MixedAssumption, IInv, Bounded, MergeInv, [Next]_vars
  PROVE  MergeInv'
<1>1. CASE Sweep \/ CountWrites \/ DeleteWrites \/ CleanupFails
  BY <1>1, SweepLeavesClients, QuietKeepsMergeInv DEF Waiting
<1>2. ASSUME NEW c \in AllClients, Client(c) PROVE MergeInv'
  <2>1. CASE Extend(c) \/ Add(c)
    BY <2>1, ExtendKeepsMergeInv, AddKeepsMergeInv
  <2>2. CASE ~ (Extend(c) \/ Add(c))
    <3>1. /\ UNCHANGED <<latency, counters, seen, lock>>
          /\ pc[c] \notin {"adding", "done"} /\ pc'[c] \notin {"adding", "done"}
      BY <1>2, <2>2 DEF Client, Arrive, Begin, Commit, Answer, Miss, Raise, Stop, IInv, Typed
    <3>2. \A d \in AllClients \ {c} : pc'[d] = pc[d] /\ tally'[d] = tally[d]
      BY <1>2, ClientStep, ClientTallies
    <3> QED BY <3>1, <3>2, QuietKeepsMergeInv
  <2> QED BY <2>1, <2>2
<1>3. CASE UNCHANGED vars
  BY <1>3, QuietKeepsMergeInv DEF vars, clientVars
<1> QED BY <1>1, <1>2, <1>3 DEF Next, Finished

\* At the start nobody has merged and no merge_lock is held.
LEMMA InitMergeInv == MixedAssumption /\ Init => MergeInv
<1> SUFFICES ASSUME MixedAssumption, Init PROVE MergeInv
  OBVIOUS
<1>1. \A c \in AllClients : pc[c] = "none" /\ LevelOf(c) \in Levels /\ c # Free
  BY ClientLevel, FreeIsNobody DEF Init
<1>2. \A l \in Levels : lock[l] = Free /\ latency[l] = NoOps /\ counters[l] = NoOps
  BY DEF Init
<1>3. \A l \in Levels : MergedBy(l) = {}
  BY <1>1, ClientLevel DEF MergedBy
<1>4. \A l \in Levels, field \in Fields : counters[l][field] = Sum(field, MergedBy(l))
  <2> SUFFICES ASSUME NEW l \in Levels, NEW field \in Fields
               PROVE  counters[l][field] = Sum(field, MergedBy(l))
    OBVIOUS
  <2>1. Sum(field, MergedBy(l)) = 0
    BY <1>3, SumEmpty DEF Sum
  <2>2. counters[l][field] = 0
    BY <1>2 DEF NoOps, Fields
  <2> QED BY <2>1, <2>2
<1> QED BY <1>1, <1>2, <1>4 DEF MergeInv

---------------------------------------------------------------------------
(* Results                                                                 *)

\* Every level so far has a result or has failed; the result is no more than what has been
\* merged, and just that if all the clients had ended, which then have nothing to merge.
ResultInv ==
  \A l \in Levels :
    /\ ~ results[l].built => results[l] = NoResult
    /\ l < level <=> results[l].built \/ l \in failed
    /\ results[l].built => \A field \in Fields :
         /\ results[l][field] <= counters[l][field]
         /\ ClientsOf(l) \cap behind = {} =>
              /\ results[l][field] = counters[l][field]
              /\ \A c \in ClientsOf(l) : pc[c] = "done"

\* At the start there is no result, and no level is behind.
LEMMA InitResultInv == MixedAssumption /\ Init => ResultInv
<1> SUFFICES ASSUME MixedAssumption, Init, NEW l \in Levels
             PROVE  results[l] = NoResult /\ ~ l < level /\ l \notin failed
  BY DEF ResultInv, NoResult
<1> QED BY DEF Init, Levels

\* What has been counted stays counted.
LEMMA ResultStays ==
  ASSUME ResultInv, UNCHANGED <<results, behind>>,
         \A l \in Levels : l < level' <=> results[l].built \/ l \in failed',
         \A l \in Levels, field \in Fields :
           counters[l][field] \in Nat /\ counters'[l][field] \in Nat /\ results[l][field] \in Nat
           /\ counters[l][field] <= counters'[l][field],
         \A l \in Levels : (\A c \in ClientsOf(l) : pc[c] = "done") =>
           counters'[l] = counters[l] /\ \A c \in ClientsOf(l) : pc'[c] = "done"
  PROVE  ResultInv'
<1> SUFFICES ASSUME NEW l \in Levels
             PROVE  /\ ~ results[l].built => results[l] = NoResult
                    /\ l < level' <=> results[l].built \/ l \in failed'
                    /\ results[l].built => \A field \in Fields :
                         /\ results[l][field] <= counters'[l][field]
                         /\ ClientsOf(l) \cap behind = {} =>
                              /\ results[l][field] = counters'[l][field]
                              /\ \A c \in ClientsOf(l) : pc'[c] = "done"
  BY DEF ResultInv
<1>1. /\ ~ results[l].built => results[l] = NoResult
      /\ l < level' <=> results[l].built \/ l \in failed'
  BY DEF ResultInv
<1>2. ASSUME results[l].built, NEW field \in Fields
      PROVE  /\ results[l][field] <= counters'[l][field]
             /\ ClientsOf(l) \cap behind = {} =>
                  /\ results[l][field] = counters'[l][field]
                  /\ \A c \in ClientsOf(l) : pc'[c] = "done"
  <2>1. results[l][field] <= counters[l][field] /\ counters[l][field] <= counters'[l][field]
    BY <1>2 DEF ResultInv
  <2>2. results[l][field] <= counters'[l][field]
    BY <2>1
  <2> QED BY <1>2, <2>2 DEF ResultInv
<1> QED BY <1>1, <1>2

\* What is counted are numbers.
LEMMA ResultTyped ==
  ASSUME Bounded, NEW l \in Levels, NEW field \in Fields
  PROVE  counters[l][field] \in Nat /\ results[l][field] \in Nat /\ latency[l][field] \in Nat
<1>1. counters[l] \in Ops /\ latency[l] \in Ops /\ results[l] \in [reads : Nat, writes : Nat, built : BOOLEAN]
  BY DEF Bounded, TypeOK
<1> QED BY <1>1 DEF Ops, Fields

\* The level ends with what has been merged so far; who has not merged is left behind.
LEMMA CollectKeepsResultInv ==
  ASSUME MixedAssumption, IInv, Bounded, ResultInv, Collect
  PROVE  ResultInv'
<1>1. level \in Levels /\ level \in Nat /\ level' = level + 1
  BY ClientLevel DEF Collect, NextLevel, IInv, Typed, Levels
<1>2. /\ UNCHANGED <<failed, counters, pc>>
      /\ behind' = behind \cup {c \in ClientsOf(level) : pc[c] # "done"}
      /\ results' = [results EXCEPT ![level] = [reads  |-> counters[level].reads,
                                               writes |-> counters[level].writes,
                                               built  |-> TRUE]]
      /\ results \in [Levels -> [reads : Nat, writes : Nat, built : BOOLEAN]]
  BY DEF Collect, clientVars, Bounded, TypeOK
<1>3. ASSUME NEW l \in Levels, l # level
      PROVE  /\ results'[l] = results[l]
             /\ l < level' <=> l < level
             /\ ClientsOf(l) \cap behind' = {} => ClientsOf(l) \cap behind = {}
  <2>1. l \in Nat
    BY DEF Levels
  <2> QED BY <1>1, <1>2, <1>3, <2>1
<1>4. \A field \in Fields : results'[level][field] = counters[level][field]
  BY <1>1, <1>2 DEF Fields
<1>5. results'[level].built /\ level < level'
  BY <1>1, <1>2
<1>6. ClientsOf(level) \cap behind' = {} => \A c \in ClientsOf(level) : pc[c] = "done"
  BY <1>2
<1>7. \A field \in Fields : counters[level][field] <= counters[level][field]
  BY <1>1, ResultTyped
<1> SUFFICES ASSUME NEW l \in Levels
             PROVE  /\ ~ results'[l].built => results'[l] = NoResult
                    /\ l < level' <=> results'[l].built \/ l \in failed
                    /\ results'[l].built => \A field \in Fields :
                         /\ results'[l][field] <= counters[l][field]
                         /\ ClientsOf(l) \cap behind' = {} =>
                              /\ results'[l][field] = counters[l][field]
                              /\ \A c \in ClientsOf(l) : pc[c] = "done"
  BY <1>2 DEF ResultInv
<1>8. CASE l = level
  BY <1>4, <1>5, <1>6, <1>7, <1>8
<1>9. CASE l # level
  BY <1>3, <1>9 DEF ResultInv
<1> QED BY <1>8, <1>9

\* A merge makes a level's counters no smaller, and none comes after the last.
LEMMA ClientKeepsResultInv ==
  ASSUME MixedAssumption, IInv, Bounded, Bounded', MergeInv, ResultInv, NEW c \in AllClients, Client(c)
  PROVE  ResultInv'
<1> DEFINE k == LevelOf(c)
<1>1. k \in Levels /\ c \in ClientsOf(k) /\ UNCHANGED <<results, behind, level, failed>>
  BY ClientLevel, ClientStep DEF mainVars
<1>2. \A l \in Levels : \A d \in ClientsOf(l) : d \in AllClients /\ LevelOf(d) = l
  BY ClientLevel
<1>3. \A l \in Levels, field \in Fields :
        /\ counters[l][field] \in Nat /\ counters'[l][field] \in Nat /\ results[l][field] \in Nat
        /\ counters[l][field] <= counters'[l][field]
  <2> SUFFICES ASSUME NEW l \in Levels, NEW field \in Fields
               PROVE  /\ counters[l][field] \in Nat /\ counters'[l][field] \in Nat
                      /\ results[l][field] \in Nat
                      /\ counters[l][field] <= counters'[l][field]
    OBVIOUS
  <2>1. counters[l][field] \in Nat /\ results[l][field] \in Nat
    BY ResultTyped
  <2>2. CASE Add(c) /\ l = k
    <3>1. counters' = [counters EXCEPT ![k] = Plus(counters[k], tally[c])]
      BY <2>2 DEF Add, MergeInv
    <3>2. counters'[l] = Plus(counters[l], tally[c])
      BY <2>2, <3>1, <1>1 DEF Bounded, TypeOK
    <3>3. counters'[l][field] = counters[l][field] + tally[c][field]
      BY <3>2 DEF Plus, Fields
    <3>4. tally[c][field] \in Nat
      BY DidTyped
    <3> QED BY <2>1, <3>3, <3>4
  <2>3. CASE ~ (Add(c) /\ l = k)
    <3>1. counters'[l] = counters[l]
      BY <2>3, <1>1 DEF Client, Arrive, Begin, Commit, Answer, Miss, Raise, Stop, Extend, Add,
         Bounded, TypeOK
    <3> QED BY <2>1, <3>1
  <2> QED BY <2>2, <2>3
<1>4. \A l \in Levels : (\A d \in ClientsOf(l) : pc[d] = "done") =>
        counters'[l] = counters[l] /\ \A d \in ClientsOf(l) : pc'[d] = "done"
  <2> SUFFICES ASSUME NEW l \in Levels, \A d \in ClientsOf(l) : pc[d] = "done"
               PROVE  counters'[l] = counters[l] /\ \A d \in ClientsOf(l) : pc'[d] = "done"
    OBVIOUS
  <2>1. pc[c] # "done"
    BY DEF Client, Arrive, Begin, Commit, Answer, Miss, Raise, Stop, Extend, Add
  <2>2. l # k
    BY <1>1, <2>1
  <2>3. \A d \in ClientsOf(l) : pc'[d] = pc[d]
    BY <1>2, <2>1, ClientStep
  <2>4. counters'[l] = counters[l]
    BY <2>2, <1>1 DEF Client, Arrive, Begin, Commit, Answer, Miss, Raise, Stop, Extend, Add,
       Bounded, TypeOK
  <2> QED BY <2>3, <2>4
<1>5. \A l \in Levels : l < level' <=> results[l].built \/ l \in failed'
  BY <1>1 DEF ResultInv
<1> QED BY <1>1, <1>3, <1>4, <1>5, ResultStays

\* The main thread, unless it builds a result, leaves results and counters alone.
LEMMA SweepKeepsResultInv ==
  ASSUME MixedAssumption, IInv, Bounded, ResultInv, ~ Collect,
         Sweep \/ CountWrites \/ DeleteWrites \/ CleanupFails \/ UNCHANGED vars
  PROVE  ResultInv'
<1>1. /\ UNCHANGED <<results, behind, counters>>
      /\ \A c \in AllClients : pc[c] = "done" => pc'[c] = "done"
  BY SweepLeavesClients DEF Sweep, Spawn, Open, SetDeadline, CountWrites, DeleteWrites,
     CleanupFails, vars, mainVars, clientVars, Waiting
<1>2. \A l \in Levels, field \in Fields :
        /\ counters[l][field] \in Nat /\ counters'[l][field] \in Nat /\ results[l][field] \in Nat
        /\ counters[l][field] <= counters'[l][field]
  BY <1>1, ResultTyped
<1>3. \A l \in Levels : (\A c \in ClientsOf(l) : pc[c] = "done") =>
        counters'[l] = counters[l] /\ \A c \in ClientsOf(l) : pc'[c] = "done"
  BY <1>1, ClientLevel
<1>4. \A l \in Levels : l < level' <=> results[l].built \/ l \in failed'
  <2> SUFFICES ASSUME NEW l \in Levels PROVE l < level' <=> results[l].built \/ l \in failed'
    OBVIOUS
  <2>1. (l < level <=> results[l].built \/ l \in failed) /\ l \in Nat /\ l # 0
    BY DEF ResultInv, Levels
  <2>2. CASE level' = level /\ failed' \in {failed, failed \cup {0}}
    BY <2>1, <2>2
  <2>3. CASE level' = level + 1 /\ failed' = failed \cup {level} /\ level \in Nat
    BY <2>1, <2>3
  <2>4. level \in Nat
    BY ClientLevel DEF IInv, Typed
  <2>5. \/ level' = level /\ failed' \in {failed, failed \cup {0}}
        \/ level' = level + 1 /\ failed' = failed \cup {level}
    BY DEF Sweep, Spawn, NextLevel, Open, SetDeadline, CountWrites, DeleteWrites, CleanupFails,
       vars, mainVars
  <2> QED BY <2>2, <2>3, <2>4, <2>5
<1> QED BY <1>1, <1>2, <1>3, <1>4, ResultStays

---------------------------------------------------------------------------
(* Writes                                                                  *)

\* What clients did adds up to a number.
LEMMA SumTyped ==
  ASSUME MixedAssumption, Bounded, NEW field \in Fields, NEW S \in SUBSET AllClients
  PROVE  Sum(field, S) \in Nat /\ IsFiniteSet(S)
<1>1. IsFiniteSet(S)
  BY ClientsFinite, FS_Subset
<1>2. \A c \in S : Did(field)[c] \in Nat
  BY DidTyped
<1> QED BY <1>1, <1>2, SumNat DEF Sum

\* What one client does more is what the total is more.
LEMMA TotalChanges ==
  ASSUME MixedAssumption, Bounded, Bounded', NEW c \in AllClients,
         \A d \in AllClients \ {c} : tally'[d] = tally[d],
         NEW field \in Fields
  PROVE  Sum(field, AllClients)' + tally[c][field] = Sum(field, AllClients) + tally'[c][field]
<1> DEFINE g == Did(field)
           h == Did(field)'
<1>1. \A d \in AllClients : g[d] \in Nat /\ g[d] = tally[d][field]
  BY DidTyped
<1>2. \A d \in AllClients : h[d] \in Nat /\ h[d] = tally'[d][field]
  <2>1. \A d \in AllClients : tally'[d] \in Tallies
    BY DEF Bounded, TypeOK, Tallies
  <2> QED BY <2>1 DEF Did, Tallies, Fields
<1>3. \A d \in AllClients \ {c} : h[d] = g[d]
  <2> SUFFICES ASSUME NEW d \in AllClients \ {c} PROVE h[d] = g[d]
    OBVIOUS
  <2>1. h[d] = tally'[d][field] /\ g[d] = tally[d][field]
    BY <1>1, <1>2
  <2>2. tally'[d] = tally[d]
    OBVIOUS
  <2> HIDE DEF g, h
  <2> QED BY <2>1, <2>2
<1>4. IsFiniteSet(AllClients)
  BY ClientsFinite
<1>5. Sum(field, AllClients) = SumFunctionOnSet(g, AllClients)
      /\ Sum(field, AllClients)' = SumFunctionOnSet(h, AllClients)
  BY DEF Sum
<1> HIDE DEF g, h
<1>6. SumFunctionOnSet(h, AllClients) + g[c] = SumFunctionOnSet(g, AllClients) + h[c]
  <2>1. (\A d \in AllClients : g[d] \in Nat) /\ h[c] \in Nat
    BY <1>1, <1>2
  <2> QED BY <1>3, <1>4, <2>1, SumChange
<1> QED BY <1>1, <1>2, <1>5, <1>6

\* A node carries the number of an operation its client has begun; the latest may be
\* stored and not yet answered.  As long as nothing is deleted, each write that was
\* answered, lost its answer or still has to be answered is a node, unless it missed.
Kept == main # "done" \/ ~ Cleanup
Unanswered == {c \in AllClients : pc[c] = "written"}
Numbered ==
  /\ IsFiniteSet(unacked)
  /\ \A n \in store : \/ n.seq <= Begun(n.client)
                      \/ n.seq = Begun(n.client) + 1 /\ pc[n.client] = "written"
  /\ \A n \in unacked : n.seq <= Begun(n.client)
Balance ==
  Sum("writes", AllClients) + Cardinality(unacked) + Cardinality(Unanswered)
    = missed + Cardinality(store)
NodesInv == Numbered /\ (Kept => Balance)

\* At the start there are no nodes and no writes.
LEMMA InitNodesInv == MixedAssumption /\ Init => NodesInv
<1> SUFFICES ASSUME MixedAssumption, Init PROVE NodesInv
  OBVIOUS
<1>1. store = {} /\ unacked = {} /\ missed = 0 /\ Unanswered = {}
  BY DEF Init, Unanswered
<1>2. \A c \in AllClients : Did("writes")[c] = 0
  BY DEF Did, Init
<1>3. IsFiniteSet(AllClients)
  BY ClientsFinite
<1>4. Sum("writes", AllClients) = 0
  BY <1>2, <1>3, SumZero DEF Sum
<1>5. IsFiniteSet({}) /\ Cardinality({}) = 0
  BY FS_EmptySet
<1>6. Numbered
  BY <1>1, <1>5 DEF Numbered
<1>7. Balance
  BY <1>1, <1>4, <1>5 DEF Balance
<1> QED BY <1>6, <1>7 DEF NodesInv

\* Operations and nodes are numbered.
LEMMA BegunTyped ==
  ASSUME MixedAssumption, Bounded
  PROVE  /\ \A c \in AllClients : Begun(c) \in Nat
         /\ \A n \in store \cup unacked : n.client \in AllClients /\ n.seq \in Nat
<1>1. \A c \in AllClients : tally[c] \in Tallies /\ MaxErrors \in Nat
  BY DEF Bounded, TypeOK, Tallies, MixedAssumption
<1>2. \A n \in store \cup unacked : n.client \in AllClients /\ n.seq \in Nat
  BY DEF Bounded, TypeOK
<1> QED BY <1>1, <1>2 DEF Begun, Tallies

\* An operation that ends is one more that was begun.
LEMMA BegunGrows ==
  ASSUME MixedAssumption, Bounded, NEW c \in AllClients, Answer(c) \/ Miss(c) \/ Raise(c)
  PROVE  /\ Begun(c)' = Begun(c) + 1
         /\ tally'[c].writes = IF Raise(c) \/ pc[c] = "reading" THEN tally[c].writes
                               ELSE tally[c].writes + 1
<1>1. tally \in [AllClients -> Tallies] /\ tally[c] \in Tallies /\ MaxErrors \in Nat
  BY DEF Bounded, TypeOK, Tallies, MixedAssumption
<1>2. CASE Raise(c)
  BY <1>1, <1>2 DEF Raise, Begun, Tallies
<1>3. CASE Answer(c) /\ ~ Raise(c)
  BY <1>1, <1>3 DEF Answer, Begun, Tallies
<1>4. CASE Miss(c) /\ ~ Raise(c)
  BY <1>1, <1>4 DEF Miss, Begun, Tallies
<1> QED BY <1>2, <1>3, <1>4

\* A client numbers its next node with the operation it is at, and no other client's.
LEMMA ClientKeepsNumbered ==
  ASSUME MixedAssumption, IInv, Bounded, Numbered, NEW c \in AllClients, Client(c)
  PROVE  Numbered'
<1>1. /\ \A d \in AllClients \ {c} : pc'[d] = pc[d] /\ Begun(d)' = Begun(d)
      /\ pc \in [AllClients -> Places]
  BY ClientStep, ClientTallies DEF Begun, IInv, Typed
<1>2. /\ \A d \in AllClients : Begun(d) \in Nat
      /\ \A n \in store \cup unacked : n.client \in AllClients /\ n.seq \in Nat
  BY BegunTyped
<1>3. Node(c).client = c /\ Node(c).seq = Begun(c) + 1
  BY DEF Node
<1>4. CASE Arrive(c) \/ Begin(c) \/ Stop(c) \/ Extend(c) \/ Add(c)
  <2>1. UNCHANGED <<store, unacked, tally>> /\ pc[c] # "written"
    BY <1>4 DEF Arrive, Begin, Stop, Extend, Add
  <2>2. Begun(c)' = Begun(c)
    BY <2>1 DEF Begun
  <2> QED BY <1>1, <1>2, <2>1, <2>2 DEF Numbered
<1>5. CASE Commit(c)
  <2>1. /\ UNCHANGED <<unacked, tally>> /\ pc[c] = "writing" /\ pc'[c] = "written"
        /\ store' = store \cup {Node(c)}
    BY <1>1, <1>5 DEF Commit
  <2>2. Begun(c)' = Begun(c)
    BY <2>1 DEF Begun
  <2> QED BY <1>1, <1>2, <1>3, <2>1, <2>2 DEF Numbered
<1>6. CASE Answer(c) \/ Miss(c) \/ Raise(c)
  <2>1. Begun(c)' = Begun(c) + 1
    BY <1>6, BegunGrows
  <2>2. store' = store /\ unacked' \in {unacked, unacked \cup {Node(c)}}
    BY <1>6 DEF Answer, Miss, Raise
  <2>3. IsFiniteSet(unacked')
    BY <2>2, FS_AddElement DEF Numbered
  <2>4. \A n \in store : \/ n.seq <= Begun(n.client)'
                         \/ /\ n.client # c /\ pc'[n.client] = "written"
                            /\ n.seq = Begun(n.client)' + 1
    BY <1>1, <1>2, <2>1 DEF Numbered
  <2>5. \A n \in unacked' : n.seq <= Begun(n.client)'
    <3>1. \A n \in unacked : n.seq <= Begun(n.client)'
      BY <1>1, <1>2, <2>1 DEF Numbered
    <3>2. Node(c).seq <= Begun(c)'
      BY <1>2, <1>3, <2>1
    <3>3. \A n \in unacked \cup {Node(c)} : n.seq <= Begun(n.client)'
      BY <1>3, <3>1, <3>2
    <3> QED BY <2>2, <3>3
  <2> QED BY <2>2, <2>3, <2>4, <2>5 DEF Numbered
<1> QED BY <1>4, <1>5, <1>6 DEF Client

\* A write moves from being stored to being answered, lost or, without a node, missed.
LEMMA ClientKeepsBalance ==
  ASSUME MixedAssumption, IInv, Bounded, Bounded', Numbered, Balance, NEW c \in AllClients, Client(c)
  PROVE  Balance'
<1> DEFINE W == Sum("writes", AllClients)
<1>1. /\ \A d \in AllClients \ {c} : pc'[d] = pc[d] /\ tally'[d] = tally[d]
      /\ pc \in [AllClients -> Places]
  BY ClientStep, ClientTallies DEF IInv, Typed
<1>2. W' + tally[c].writes = W + tally'[c].writes
  <2>1. "writes" \in Fields
    BY DEF Fields
  <2> QED BY <1>1, <2>1, TotalChanges
<1>3. tally[c].writes \in Nat /\ W \in Nat /\ W' \in Nat
  <2>1. "writes" \in Fields
    BY DEF Fields
  <2>2. W \in Nat /\ tally[c]["writes"] \in Nat
    BY <2>1, SumTyped, DidTyped
  <2>3. \A d \in AllClients : Did("writes")'[d] \in Nat
    <3>1. \A d \in AllClients : tally'[d] \in Tallies
      BY DEF Bounded, TypeOK, Tallies
    <3> QED BY <3>1 DEF Did, Tallies
  <2>4. W' \in Nat
    BY <2>3, ClientsFinite, SumNat DEF Sum
  <2> QED BY <2>2, <2>4
<1>4. /\ IsFiniteSet(store) /\ IsFiniteSet(unacked) /\ IsFiniteSet(Unanswered) /\ missed \in Nat
      /\ Cardinality(store) \in Nat /\ Cardinality(unacked) \in Nat /\ Cardinality(Unanswered) \in Nat
  <2>1. IsFiniteSet(store) /\ IsFiniteSet(unacked) /\ missed \in Nat
    BY DEF Bounded, TallyBounded, TypeOK, Numbered
  <2>2. IsFiniteSet(Unanswered)
    BY ClientsFinite, FS_Subset DEF Unanswered
  <2> QED BY <2>1, <2>2, FS_CardinalityType
<1>5. Node(c).client = c /\ Node(c).seq = Begun(c) + 1 /\ Begun(c) \in Nat
  BY BegunTyped DEF Node
<1> HIDE DEF W
<1> DEFINE u == Cardinality(unacked)
           a == Cardinality(Unanswered)
           s == Cardinality(store)
<1>12. W + u + a = missed + s
  BY DEF Balance, W
<1>13. W' + u' + a' = missed' + s' => Balance'
  BY DEF Balance, W
<1> HIDE DEF u, a, s
<1>6. CASE tally' = tally /\ UNCHANGED <<store, unacked, missed>>
           /\ pc[c] # "written" /\ pc'[c] # "written"
  <2>1. Unanswered' = Unanswered
    BY <1>1, <1>6 DEF Unanswered
  <2>2. W' = W
    BY <1>2, <1>3, <1>6
  <2> QED BY <1>12, <1>13, <1>6, <2>1, <2>2 DEF u, a, s
<1>7. CASE Commit(c)
  <2>1. /\ UNCHANGED <<unacked, tally, missed>> /\ pc[c] = "writing" /\ pc'[c] = "written"
        /\ store' = store \cup {Node(c)}
    BY <1>1, <1>7 DEF Commit
  <2>2. Node(c) \notin store
    BY <1>5, <2>1 DEF Numbered
  <2>3. Cardinality(store') = Cardinality(store) + 1
    BY <1>4, <2>1, <2>2, FS_AddElement
  <2>4. Unanswered' = Unanswered \cup {c} /\ c \notin Unanswered
    BY <1>1, <2>1 DEF Unanswered
  <2>5. Cardinality(Unanswered') = Cardinality(Unanswered) + 1
    BY <1>4, <2>4, FS_AddElement
  <2>6. W' = W
    BY <1>2, <1>3, <2>1
  <2>7. u' = u /\ a' = a + 1 /\ s' = s + 1 /\ missed' = missed
    BY <2>1, <2>3, <2>5 DEF u, a, s
  <2>8. u \in Nat /\ a \in Nat /\ s \in Nat /\ missed \in Nat
    BY <1>4 DEF u, a, s
  <2>9. W' + u' + a' = missed' + s'
    BY <1>3, <1>12, <2>6, <2>7, <2>8
  <2> QED BY <1>13, <2>9
<1>8. CASE pc[c] = "written" /\ (Answer(c) \/ Raise(c))
  <2>1. UNCHANGED <<store, missed>> /\ pc'[c] # "written"
    BY <1>1, <1>8 DEF Answer, Raise
  <2>2. Unanswered' = Unanswered \ {c} /\ c \in Unanswered
    BY <1>1, <1>8, <2>1 DEF Unanswered
  <2>3. Cardinality(Unanswered') = Cardinality(Unanswered) - 1
    BY <1>4, <2>2, FS_RemoveElement
  <2>4. CASE Raise(c)
    <3>1. unacked' = unacked \cup {Node(c)}
      BY <1>8, <2>4 DEF Raise
    <3>2. Node(c) \notin unacked
      BY <1>5 DEF Numbered
    <3>3. Cardinality(unacked') = Cardinality(unacked) + 1
      BY <1>4, <3>1, <3>2, FS_AddElement
    <3>4. W' = W
      BY <1>2, <1>3, <2>4, BegunGrows
    <3>5. u' = u + 1 /\ a' = a - 1 /\ s' = s /\ missed' = missed
      BY <2>1, <2>3, <3>3 DEF u, a, s
    <3>6. u \in Nat /\ a \in Nat /\ s \in Nat /\ missed \in Nat
      BY <1>4 DEF u, a, s
    <3>7. W' + u' + a' = missed' + s'
      BY <1>3, <1>12, <3>4, <3>5, <3>6
    <3> QED BY <1>13, <3>7
  <2>5. CASE Answer(c) /\ ~ Raise(c)
    <3>1. unacked' = unacked
      BY <2>5 DEF Answer
    <3>2. tally'[c].writes = tally[c].writes + 1
      BY <1>8, <2>5, BegunGrows
    <3>3. W' = W + 1
      BY <1>2, <1>3, <3>2
    <3>5. u' = u /\ a' = a - 1 /\ s' = s /\ missed' = missed
      BY <2>1, <2>3, <3>1 DEF u, a, s
    <3>6. u \in Nat /\ a \in Nat /\ s \in Nat /\ missed \in Nat
      BY <1>4 DEF u, a, s
    <3>7. W' + u' + a' = missed' + s'
      BY <1>3, <1>12, <3>3, <3>5, <3>6
    <3> QED BY <1>13, <3>7
  <2> QED BY <1>8, <2>4, <2>5
<1>9. CASE pc[c] # "written" /\ (Answer(c) \/ Raise(c))
  <2>1. UNCHANGED <<store, missed, unacked>> /\ pc'[c] # "written"
        /\ (Answer(c) => pc[c] = "reading")
    BY <1>1, <1>9 DEF Answer, Raise
  <2>2. Unanswered' = Unanswered
    BY <1>1, <1>9, <2>1 DEF Unanswered
  <2>3. W' = W
    BY <1>2, <1>3, <1>9, <2>1, BegunGrows
  <2> QED BY <1>12, <1>13, <2>1, <2>2, <2>3 DEF u, a, s
<1>10. CASE Miss(c)
  <2>1. UNCHANGED <<store, unacked>> /\ pc[c] = "writing" /\ pc'[c] # "written" /\ missed' = missed + 1
        /\ ~ Answer(c)
    BY <1>1, <1>10 DEF Miss, Answer
  <2>2. Unanswered' = Unanswered
    BY <1>1, <2>1 DEF Unanswered
  <2>3. tally'[c].writes = tally[c].writes + 1
    <3>1. tally \in [AllClients -> Tallies] /\ tally[c] \in Tallies
      BY DEF Bounded, TypeOK, Tallies
    <3> QED BY <1>10, <3>1 DEF Miss, Tallies
  <2>4. W' = W + 1
    BY <1>2, <1>3, <2>3
  <2>5. u' = u /\ a' = a /\ s' = s /\ missed' = missed + 1
    BY <2>1, <2>2 DEF u, a, s
  <2>6. u \in Nat /\ a \in Nat /\ s \in Nat /\ missed \in Nat
    BY <1>4 DEF u, a, s
  <2>7. W' + u' + a' = missed' + s'
    BY <1>3, <1>12, <2>4, <2>5, <2>6
  <2> QED BY <1>13, <2>7
<1>11. CASE Arrive(c) \/ Begin(c) \/ Stop(c) \/ Extend(c) \/ Add(c)
  <2>1. tally' = tally /\ UNCHANGED <<store, unacked, missed>>
        /\ pc[c] # "written" /\ pc'[c] # "written"
    BY <1>1, <1>11 DEF Arrive, Begin, Stop, Extend, Add
  <2> QED BY <1>6, <2>1
<1> QED BY <1>7, <1>8, <1>9, <1>10, <1>11 DEF Client

\* While anything is kept the store goes on being accounted for; the main thread writes
\* nothing, and deletes when it is done.
LEMMA SweepKeepsNodesInv ==
  ASSUME MixedAssumption, IInv, Bounded, NodesInv, main = "delete" => Cleanup,
         Sweep \/ CountWrites \/ DeleteWrites \/ CleanupFails
  PROVE  NodesInv'
<1>1. /\ UNCHANGED <<tally, unacked, missed>>
      /\ \A c \in AllClients : pc'[c] = "written" <=> pc[c] = "written"
  BY SweepLeavesClients DEF Waiting
<1>2. /\ store' \in {store, {}} /\ (store' # store => ~ Kept')
      /\ Kept' => Kept
  BY DEF Sweep, Spawn, Open, SetDeadline, Collect, CountWrites, DeleteWrites, CleanupFails, clientVars, Kept
<1>3. Unanswered' = Unanswered
  BY <1>1 DEF Unanswered
<1>4. Sum("writes", AllClients)' = Sum("writes", AllClients)
  BY <1>1 DEF Sum, Did
<1>5. \A n \in store : n.client \in AllClients
  BY BegunTyped
<1>6. \A c : Begun(c)' = Begun(c)
  BY <1>1 DEF Begun
<1>7. Numbered'
  <2>1. \A n \in store' : \/ n.seq <= Begun(n.client)
                          \/ n.seq = Begun(n.client) + 1 /\ pc'[n.client] = "written"
    BY <1>1, <1>2, <1>5 DEF NodesInv, Numbered
  <2> QED BY <1>1, <1>6, <2>1 DEF NodesInv, Numbered
<1>8. Kept' => Balance'
  BY <1>1, <1>2, <1>3, <1>4 DEF NodesInv, Balance
<1> QED BY <1>7, <1>8 DEF NodesInv

\* So every step keeps the store accounted for.
LEMMA StepKeepsNodesInv ==
  ASSUME MixedAssumption, IInv, Bounded, Bounded', NodesInv, main = "delete" => Cleanup, [Next]_vars
  PROVE  NodesInv'
<1>1. CASE Sweep \/ CountWrites \/ DeleteWrites \/ CleanupFails
  BY <1>1, SweepKeepsNodesInv
<1>2. ASSUME NEW c \in AllClients, Client(c) PROVE NodesInv'
  <2>1. Kept' => Kept
    BY <1>2, ClientStep DEF Kept, mainVars
  <2>2. Numbered'
    BY <1>2, ClientKeepsNumbered DEF NodesInv
  <2>3. Kept => Balance'
    BY <1>2, ClientKeepsBalance DEF NodesInv
  <2> QED BY <2>1, <2>2, <2>3 DEF NodesInv
<1>3. CASE UNCHANGED vars
  <2>1. UNCHANGED <<main, pc, tally, store, unacked, missed>>
    BY <1>3 DEF vars, mainVars, clientVars
  <2> QED BY <2>1 DEF NodesInv, Numbered, Kept, Balance, Sum, Did, Unanswered, Begun
<1> QED BY <1>1, <1>2, <1>3 DEF Next, Finished

---------------------------------------------------------------------------
(* What the results count                                                  *)

Given == [l \in Levels |-> results[l].writes]
Counted == SumFunctionOnSet(Given, Levels)

\* The count of the properties is the sum the lemmas are about.
LEMMA CountedIs == CountedWrites = Counted
BY DEF CountedWrites, Counted, Given, MapThenSumSet, SumFunctionOnSet, FoldFunctionOnSet, MapThenFoldSet

\* The results count no more than the clients of the levels that are over did; if none was
\* left behind, just that.  A client that was not left behind has ended, or was never let
\* off the barrier.  Who waits at the barrier has done nothing.
Over == {c \in AllClients : LevelOf(c) < level}
Nobody == behind = {}
CountedInv ==
  /\ Counted <= Sum("writes", Over)
  /\ Nobody => Counted = Sum("writes", Over)
  /\ \A c \in Over \ behind : pc[c] \in Waiting \cup {"done"}
  /\ \A c \in AllClients : pc[c] \in Waiting => tally[c].writes = 0

\* It is a number.
LEMMA CountedTyped ==
  ASSUME MixedAssumption, Bounded
  PROVE  Counted \in Nat /\ IsFiniteSet(Levels) /\ \A l \in Levels : Given[l] \in Nat
<1>1. IsFiniteSet(Levels)
  BY ClientLevel, Prefix DEF Levels
<1>2. \A l \in Levels : Given[l] \in Nat
  BY DEF Bounded, TypeOK, Given
<1> QED BY <1>1, <1>2, SumNat DEF Counted

\* At the start nothing is counted and no level is over.
LEMMA InitCountedInv == MixedAssumption /\ Init => CountedInv
<1> SUFFICES ASSUME MixedAssumption, Init PROVE CountedInv
  OBVIOUS
<1>1. \A l \in Levels : Given[l] = 0
  BY DEF Given, Init, NoResult
<1>2. IsFiniteSet(Levels)
  BY ClientLevel, Prefix DEF Levels
<1>3. Counted = 0
  BY <1>1, <1>2, SumZero DEF Counted
<1>4. Over = {}
  <2>1. \A c \in AllClients : LevelOf(c) \in Levels
    BY ClientLevel
  <2> QED BY <2>1 DEF Over, Init, Levels
<1>5. Sum("writes", Over) = 0
  BY <1>4, SumEmpty DEF Sum
<1>6. \A c \in AllClients : tally[c].writes = 0
  BY DEF Init
<1> QED BY <1>3, <1>4, <1>5, <1>6 DEF CountedInv

\* When a level ends its clients join those of the levels that are over.
LEMMA OverGrows ==
  ASSUME MixedAssumption, IInv, Bounded, level \in Levels, level' = level + 1, UNCHANGED tally
  PROVE  /\ Over' = Over \cup ClientsOf(level)
         /\ Sum("writes", Over)' = Sum("writes", Over) + Sum("writes", ClientsOf(level))
<1>1. level \in Nat
  BY DEF Levels
<1>2. /\ \A c \in AllClients : LevelOf(c) \in Nat /\ c \in ClientsOf(LevelOf(c))
      /\ \A c \in ClientsOf(level) : c \in AllClients /\ LevelOf(c) = level
  BY ClientLevel DEF Levels
<1>3. Over' = Over \cup ClientsOf(level) /\ Over \cap ClientsOf(level) = {}
  BY <1>1, <1>2 DEF Over
<1>4. "writes" \in Fields /\ Over \subseteq AllClients /\ ClientsOf(level) \subseteq AllClients
  BY <1>2 DEF Over, Fields
<1>5. IsFiniteSet(Over) /\ IsFiniteSet(ClientsOf(level))
  BY <1>4, SumTyped
<1>6. \A c \in Over \cup ClientsOf(level) : Did("writes")[c] \in Nat
  BY <1>4, DidTyped
<1>7. SumFunctionOnSet(Did("writes"), Over \cup ClientsOf(level))
        = SumFunctionOnSet(Did("writes"), Over) + SumFunctionOnSet(Did("writes"), ClientsOf(level))
  BY <1>3, <1>5, <1>6, SumJoin
<1>8. Did("writes")' = Did("writes")
  BY DEF Did
<1> QED BY <1>3, <1>7, <1>8 DEF Sum

\* A level that could not be started did nothing.
LEMMA SpawnKeepsCountedInv ==
  ASSUME MixedAssumption, IInv, Bounded, CountedInv, Spawn
  PROVE  CountedInv'
<1>1. /\ UNCHANGED <<results, behind, tally>> /\ level \in Levels
      /\ \A c \in AllClients : pc'[c] = pc[c] \/ (/\ LevelOf(c) = level
                                                  /\ pc[c] \in Waiting
                                                  /\ pc'[c] \in Waiting)
  <2>1. PICK n \in 0 .. Clients[level] :
          pc' = [c \in AllClients |->
                   IF LevelOf(c) = level /\ WorkerId(c) < n THEN "starting" ELSE pc[c]]
    BY DEF Spawn
  <2>2. \A c \in AllClients : LevelOf(c) = level => pc[c] = "none"
    BY DEF Spawn, IInv, ComingInv
  <2> QED BY <2>1, <2>2 DEF Spawn, IInv, Typed, Waiting
<1>2. Counted' = Counted
  BY <1>1 DEF Counted, Given
<1>3. \A c \in AllClients : pc'[c] \in Waiting => tally'[c].writes = 0
  BY <1>1 DEF CountedInv
<1>4. CASE level' = level
  <2>1. Over' = Over
    BY <1>4 DEF Over
  <2>2. Sum("writes", Over)' = Sum("writes", Over)
    BY <1>1, <2>1 DEF Sum, Did
  <2>3. \A c \in Over : pc[c] \in Waiting \cup {"done"} => pc'[c] \in Waiting \cup {"done"}
    BY <1>1 DEF Over
  <2> QED BY <1>1, <1>2, <1>3, <2>1, <2>2, <2>3 DEF CountedInv, Nobody
<1>5. CASE level' = level + 1
  <2>1. \A c \in ClientsOf(level) : c \in AllClients /\ LevelOf(c) = level
    BY <1>1, ClientLevel
  <2>2. \A c \in ClientsOf(level) : pc[c] \in Waiting /\ pc'[c] \in Waiting
    <3>1. \A c \in AllClients : LevelOf(c) = level => pc[c] = "none"
      BY DEF Spawn, IInv, ComingInv
    <3> QED BY <1>1, <2>1, <3>1 DEF Waiting
  <2>3. \A c \in ClientsOf(level) : Did("writes")[c] = 0
    BY <2>1, <2>2 DEF CountedInv, Did
  <2>4. Sum("writes", ClientsOf(level)) = 0
    BY <1>1, <2>3, ClientsFinite, SumZero DEF Sum
  <2>5. /\ Over' = Over \cup ClientsOf(level)
        /\ Sum("writes", Over)' = Sum("writes", Over) + Sum("writes", ClientsOf(level))
    BY <1>1, <1>5, OverGrows
  <2>6. Sum("writes", Over) \in Nat
    BY SumTyped DEF Over, Fields
  <2>7. Sum("writes", Over)' = Sum("writes", Over)
    BY <2>4, <2>5, <2>6
  <2>8. \A c \in Over' \ behind' : pc'[c] \in Waiting \cup {"done"}
    <3>1. \A c \in Over : pc'[c] = pc[c] \/ pc'[c] \in Waiting
      BY <1>1 DEF Over
    <3> QED BY <1>1, <2>2, <2>5, <3>1 DEF CountedInv, Nobody
  <2> QED BY <1>1, <1>2, <1>3, <2>7, <2>8 DEF CountedInv, Nobody
<1> QED BY <1>4, <1>5 DEF Spawn, NextLevel

\* A level that was measured counts what has been merged by then.
LEMMA CollectKeepsCountedInv ==
  ASSUME MixedAssumption, IInv, Bounded, Bounded', MergeInv, ResultInv, CountedInv, Collect
  PROVE  CountedInv'
<1> DEFINE C == ClientsOf(level)
<1>1. /\ level \in Levels /\ level \in Nat /\ level' = level + 1
      /\ UNCHANGED <<pc, tally, failed>>
      /\ behind' = behind \cup {c \in C : pc[c] # "done"}
      /\ results' = [results EXCEPT ![level] = [reads  |-> counters[level].reads,
                                               writes |-> counters[level].writes,
                                               built  |-> TRUE]]
      /\ results \in [Levels -> [reads : Nat, writes : Nat, built : BOOLEAN]]
  BY ClientLevel DEF Collect, NextLevel, IInv, Typed, Levels, clientVars, Bounded, TypeOK
<1>2. "writes" \in Fields /\ C \subseteq AllClients /\ IsFiniteSet(C) /\ MergedBy(level) \subseteq C
  BY <1>1, ClientsFinite DEF Fields, MergedBy
<1>3. results[level].writes = 0
  BY <1>1 DEF ResultInv, NoResult
<1>4. counters[level].writes = Sum("writes", MergedBy(level)) /\ counters[level].writes \in Nat
  BY <1>1, <1>2, ResultTyped DEF MergeInv
<1>5. Counted' = Counted + counters[level].writes
  <2>1. /\ \A l \in Levels \ {level} : Given'[l] = Given[l]
        /\ Given'[level] = counters[level].writes /\ Given[level] = 0
    BY <1>1, <1>3 DEF Given
  <2>2. IsFiniteSet(Levels) /\ (\A l \in Levels : Given[l] \in Nat) /\ Counted \in Nat
    BY CountedTyped
  <2>3. SumFunctionOnSet(Given', Levels) + Given[level] = SumFunctionOnSet(Given, Levels) + Given'[level]
    <3> DEFINE h == Given'
    <3>1. \A l \in Levels \ {level} : h[l] = Given[l]
      BY <2>1
    <3>2. h[level] \in Nat
      BY <1>4, <2>1
    <3>3. /\ IsFiniteSet(Levels) /\ level \in Levels /\ h[level] \in Nat
          /\ \A l \in Levels : Given[l] \in Nat
          /\ \A l \in Levels \ {level} : h[l] = Given[l]
      BY <1>1, <2>2, <3>1, <3>2
    <3> HIDE DEF h
    <3>4. SumFunctionOnSet(h, Levels) + Given[level] = SumFunctionOnSet(Given, Levels) + h[level]
      BY <3>3, SumChange
    <3> QED BY <3>4 DEF h
  <2>4. SumFunctionOnSet(Given', Levels) \in Nat
    <3>1. \A l \in Levels : Given'[l] \in Nat
      BY <1>4, <2>1, <2>2
    <3> QED BY <2>2, <3>1, SumNat
  <2>5. Counted' = SumFunctionOnSet(Given', Levels)
    BY DEF Counted
  <2> QED BY <1>4, <2>1, <2>2, <2>3, <2>4, <2>5 DEF Counted
<1>6. /\ Over' = Over \cup C
      /\ Sum("writes", Over)' = Sum("writes", Over) + Sum("writes", C)
  BY <1>1, OverGrows
<1>7. Sum("writes", MergedBy(level)) <= Sum("writes", C)
  <2>1. \A c \in C : Did("writes")[c] \in Nat /\ Did("writes")[c] <= Did("writes")[c]
    BY <1>2, DidTyped
  <2> QED BY <1>2, <2>1, SumLeq DEF Sum
<1>8. behind' = {} => behind = {} /\ (\A c \in C : pc[c] = "done") /\ MergedBy(level) = C
  BY <1>1 DEF MergedBy
<1>9. Sum("writes", Over) \in Nat /\ Sum("writes", C) \in Nat /\ Counted \in Nat
  BY <1>2, SumTyped, CountedTyped DEF Over
<1> HIDE DEF C
<1>10. Counted' <= Sum("writes", Over)'
  <2>1. Counted <= Sum("writes", Over)
    BY DEF CountedInv
  <2> QED BY <1>4, <1>5, <1>6, <1>7, <1>9, <2>1
<1>11. Nobody' => Counted' = Sum("writes", Over)'
  <2> SUFFICES ASSUME Nobody' PROVE Counted' = Sum("writes", Over)'
    OBVIOUS
  <2>1. Counted = Sum("writes", Over) /\ MergedBy(level) = C
    BY <1>8 DEF Nobody, CountedInv
  <2> QED BY <1>4, <1>5, <1>6, <2>1
<1>12. \A c \in Over' \ behind' : pc'[c] \in Waiting \cup {"done"}
  BY <1>1, <1>6 DEF CountedInv
<1>13. \A c \in AllClients : pc'[c] \in Waiting => tally'[c].writes = 0
  BY <1>1 DEF CountedInv
<1> QED BY <1>10, <1>11, <1>12, <1>13 DEF CountedInv

\* The other steps of the main thread end no level.
LEMMA RestKeepsCountedInv ==
  ASSUME MixedAssumption, IInv, CountedInv,
         Open \/ SetDeadline \/ CountWrites \/ DeleteWrites \/ CleanupFails \/ UNCHANGED vars
  PROVE  CountedInv'
<1>1. /\ UNCHANGED <<results, behind, level, tally>>
      /\ \A c \in AllClients : \/ pc'[c] = pc[c]
                               \/ LevelOf(c) = level /\ pc'[c] \notin Waiting
  <2>1. CASE Open
    <3>1. level \in Levels
      BY <2>1 DEF Open, IInv, Typed
    <3>2. \A c \in AllClients : c \in ClientsOf(level) => LevelOf(c) = level
      BY <3>1, ClientLevel
    <3> QED BY <2>1, <3>2 DEF Open, IInv, Typed, Waiting
  <2>2. CASE ~ Open
    BY <2>2 DEF SetDeadline, CountWrites, DeleteWrites, CleanupFails, vars, mainVars, clientVars
  <2> QED BY <2>1, <2>2
<1>2. level \in Nat /\ Over' = Over /\ \A c \in Over : LevelOf(c) # level
  BY <1>1, ClientLevel DEF Over, IInv, Typed
<1>3. Counted' = Counted /\ Sum("writes", Over)' = Sum("writes", Over)
  BY <1>1, <1>2 DEF Counted, Given, Sum, Did
<1>4. \A c \in Over : pc'[c] = pc[c]
  BY <1>1, <1>2 DEF Over
<1> QED BY <1>1, <1>2, <1>3, <1>4 DEF CountedInv, Nobody

\* A straggler may do more than was counted; without one the levels that are over are done.
LEMMA ClientKeepsCountedInv ==
  ASSUME MixedAssumption, IInv, Bounded, Bounded', CountedInv, NEW c \in AllClients, Client(c)
  PROVE  CountedInv'
<1>1. /\ UNCHANGED <<results, behind, level>>
      /\ \A d \in AllClients \ {c} : pc'[d] = pc[d] /\ tally'[d] = tally[d]
      /\ pc'[c] \in Waiting <=> pc[c] \in Waiting
      /\ pc[c] \in Waiting => tally' = tally
      /\ pc[c] # "done"
  <2>1. pc[c] # "done"
    BY DEF Client, Arrive, Begin, Commit, Answer, Miss, Raise, Stop, Extend, Add
  <2>2. pc'[c] \in Waiting <=> pc[c] \in Waiting
    BY ClientStep DEF Loading, Waiting
  <2> QED BY <2>1, <2>2, ClientStep, ClientTallies DEF mainVars, Waiting
<1>2. Over' = Over /\ Counted' = Counted /\ "writes" \in Fields
  BY <1>1 DEF Over, Counted, Given, Fields
<1>3. Over \subseteq AllClients /\ IsFiniteSet(Over)
  BY <1>2, SumTyped DEF Over
<1> DEFINE g == Did("writes")
           h == Did("writes")'
<1>4. \A d \in AllClients : /\ g[d] \in Nat /\ h[d] \in Nat /\ g[d] <= h[d]
                            /\ g[d] = tally[d].writes /\ h[d] = tally'[d].writes
  <2> SUFFICES ASSUME NEW d \in AllClients
               PROVE  /\ g[d] \in Nat /\ h[d] \in Nat /\ g[d] <= h[d]
                      /\ g[d] = tally[d].writes /\ h[d] = tally'[d].writes
    OBVIOUS
  <2>1. /\ tally \in [AllClients -> Tallies] /\ tally' \in [AllClients -> Tallies]
        /\ tally[d] \in Tallies /\ tally'[d] \in Tallies
    BY DEF Bounded, TypeOK, Tallies
  <2>2. g[d] = tally[d].writes /\ h[d] = tally'[d].writes
    BY DEF Did
  <2>3. tally'[d].writes \in {tally[d].writes, tally[d].writes + 1}
    <3>1. CASE d # c
      BY <1>1, <3>1
    <3>2. CASE d = c /\ (Answer(c) \/ Miss(c) \/ Raise(c))
      BY <3>2, BegunGrows
    <3>3. CASE ~ (Answer(c) \/ Miss(c) \/ Raise(c))
      BY <3>3 DEF Client, Arrive, Begin, Commit, Stop, Extend, Add
    <3> QED BY <3>1, <3>2, <3>3
  <2>4. g[d] \in Nat /\ h[d] \in Nat
    BY <2>1, <2>2 DEF Tallies
  <2> HIDE DEF g, h
  <2>5. g[d] <= h[d]
    <3>1. h[d] = g[d] \/ h[d] = g[d] + 1
      BY <2>2, <2>3
    <3> QED BY <2>4, <3>1
  <2> QED BY <2>2, <2>4, <2>5
<1>5. Sum("writes", Over)' = SumFunctionOnSet(h, Over) /\ Sum("writes", Over) = SumFunctionOnSet(g, Over)
  BY <1>2 DEF Sum
<1> HIDE DEF g, h
<1>6. SumFunctionOnSet(g, Over) <= SumFunctionOnSet(h, Over)
  BY <1>3, <1>4, SumLeq
<1>7. Nobody => SumFunctionOnSet(h, Over) = SumFunctionOnSet(g, Over)
  <2> SUFFICES ASSUME Nobody PROVE SumFunctionOnSet(h, Over) = SumFunctionOnSet(g, Over)
    OBVIOUS
  <2>1. \A d \in Over : tally'[d] = tally[d]
    BY <1>1, <1>3 DEF CountedInv, Nobody
  <2>2. \A d \in Over : h[d] = g[d] /\ g[d] \in Nat
    BY <1>3, <1>4, <2>1
  <2> QED BY <1>3, <2>2, SumSame
<1>8. Counted' <= Sum("writes", Over)'
  <2>1. Counted \in Nat /\ SumFunctionOnSet(g, Over) \in Nat /\ SumFunctionOnSet(h, Over) \in Nat
    BY <1>3, <1>4, CountedTyped, SumNat
  <2>2. Counted <= SumFunctionOnSet(g, Over)
    BY <1>5 DEF CountedInv
  <2> QED BY <1>2, <1>5, <1>6, <2>1, <2>2
<1>9. Nobody' => Counted' = Sum("writes", Over)'
  BY <1>1, <1>2, <1>5, <1>7 DEF CountedInv, Nobody
<1>10. \A d \in Over' \ behind' : pc'[d] \in Waiting \cup {"done"}
  BY <1>1, <1>2, <1>3 DEF CountedInv
<1>11. \A d \in AllClients : pc'[d] \in Waiting => tally'[d].writes = 0
  BY <1>1 DEF CountedInv
<1> QED BY <1>8, <1>9, <1>10, <1>11 DEF CountedInv

\* So every step keeps the results in bounds.
LEMMA StepKeepsCountedInv ==
  ASSUME MixedAssumption, IInv, Bounded, Bounded', MergeInv, ResultInv, CountedInv, [Next]_vars
  PROVE  CountedInv'
<1>1. CASE Spawn
  BY <1>1, SpawnKeepsCountedInv
<1>2. CASE Collect
  BY <1>2, CollectKeepsCountedInv
<1>3. CASE Open \/ SetDeadline \/ CountWrites \/ DeleteWrites \/ CleanupFails \/ UNCHANGED vars
  BY <1>3, RestKeepsCountedInv
<1>4. CASE \E c \in AllClients : Client(c)
  BY <1>4, ClientKeepsCountedInv
<1> QED BY <1>1, <1>2, <1>3, <1>4 DEF Next, Sweep, Finished

---------------------------------------------------------------------------
(* What is cleaned                                                         *)

\* What cleanup_writes counted covers the writes that count; it is short of none of them,
\* and over by those whose answer was lost, if no client was left behind.  What is there
\* after the cleanup was written by one that was.
Covers(n) ==
  /\ Counted <= n + missed
  /\ Nobody => Counted + Cardinality(unacked) = n + missed
CleanInv ==
  /\ main \in {"count", "delete"} => Cleanup
  /\ main # "done" => cleaned = 0
  /\ main = "delete" => Covers(found)
  /\ main = "done" /\ Cleanup /\ 0 \notin failed =>
       Covers(cleaned) /\ \A node \in store : node.client \in behind

\* At the start nothing has been cleaned.
LEMMA InitCleanInv == Init => CleanInv
BY DEF Init, CleanInv

\* When the sweep is over, all levels are.
LEMMA AllOver ==
  ASSUME MixedAssumption, IInv, main \in {"count", "delete", "done"}
  PROVE  Over = AllClients
<1>1. level = Len(Clients) + 1
  BY ClientLevel DEF IInv, Typed, Levels
<1>2. \A c \in AllClients : LevelOf(c) \in 1 .. Len(Clients)
  BY ClientLevel DEF Levels
<1> QED BY <1>1, <1>2, ClientLevel DEF Over

\* The nodes cover the writes that count while none is deleted.
LEMMA StoreCovers ==
  ASSUME MixedAssumption, IInv, Bounded, Numbered, Balance, CountedInv
  PROVE  /\ Counted <= Cardinality(store) + missed
         /\ main \in {"count", "delete", "done"} => Covers(Cardinality(store))
<1> DEFINE W == Sum("writes", AllClients)
           O == Sum("writes", Over)
           n == Cardinality(store)
           u == Cardinality(unacked)
           a == Cardinality(Unanswered)
<1>1. "writes" \in Fields /\ Over \subseteq AllClients /\ Unanswered \subseteq AllClients
  BY DEF Fields, Over, Unanswered
<1>2. W \in Nat /\ O \in Nat /\ IsFiniteSet(AllClients) /\ IsFiniteSet(Unanswered)
  BY <1>1, SumTyped
<1>3. n \in Nat /\ u \in Nat /\ a \in Nat /\ missed \in Nat /\ Counted \in Nat
  <2>1. IsFiniteSet(store) /\ IsFiniteSet(unacked) /\ missed \in Nat
    BY DEF Bounded, TallyBounded, TypeOK, Numbered
  <2> QED BY <1>2, <2>1, FS_CardinalityType, CountedTyped
<1>4. O <= W
  <2>1. \A c \in AllClients : Did("writes")[c] \in Nat /\ Did("writes")[c] <= Did("writes")[c]
    BY <1>1, DidTyped
  <2> QED BY <1>1, <1>2, <2>1, SumLeq DEF Sum
<1>5. W + u + a = missed + n
  BY DEF Balance
<1>6. Counted <= O /\ (Nobody => Counted = O)
  BY DEF CountedInv
<1>7. ASSUME main \in {"count", "delete", "done"}, Nobody PROVE O = W /\ a = 0
  <2>1. Over = AllClients
    BY <1>7, AllOver
  <2>2. Unanswered = {}
    BY <1>7, <2>1 DEF CountedInv, Unanswered, Waiting, Nobody
  <2> QED BY <2>1, <2>2, FS_EmptySet
<1> HIDE DEF W, O, n, u, a
<1>8. Counted <= n + missed
  BY <1>2, <1>3, <1>4, <1>5, <1>6
<1>9. ASSUME main \in {"count", "delete", "done"}, Nobody PROVE Counted + u = n + missed
  <2>1. Counted = W /\ a = 0
    BY <1>6, <1>7, <1>9
  <2> QED BY <1>2, <1>3, <1>5, <2>1
<1> QED BY <1>8, <1>9 DEF Covers, n, u

\* A client that writes after that was left behind.
LEMMA ClientKeepsCleanInv ==
  ASSUME MixedAssumption, IInv, Bounded, CountedInv, CleanInv, NEW c \in AllClients, Client(c)
  PROVE  CleanInv'
<1>1. UNCHANGED <<main, cleaned, found, failed, behind, results>>
  BY ClientStep DEF mainVars
<1>2. Counted' = Counted /\ Counted \in Nat
  BY <1>1, CountedTyped DEF Counted, Given
<1>3. missed \in Nat /\ missed' \in Nat /\ missed <= missed' /\ found \in Nat /\ cleaned \in Nat
  <2>1. missed \in Nat /\ found \in Nat /\ cleaned \in Nat
    BY DEF Bounded, TypeOK
  <2>2. missed' \in {missed, missed + 1}
    BY DEF Client, Arrive, Begin, Commit, Answer, Miss, Raise, Stop, Extend, Add
  <2> QED BY <2>1, <2>2
<1>4. ASSUME c \notin behind, main \in {"delete", "done"}
      PROVE  UNCHANGED <<store, unacked, missed>>
  <2>1. pc[c] \in Waiting \cup {"done"}
    BY <1>4, AllOver DEF CountedInv
  <2>2. Arrive(c)
    BY <2>1 DEF Client, Begin, Commit, Answer, Miss, Raise, Stop, Extend, Add, Waiting
  <2> QED BY <2>2 DEF Arrive
<1>5. ASSUME NEW n \in Nat, Covers(n), main \in {"delete", "done"}
      PROVE  /\ Counted' <= n + missed'
             /\ Nobody' => Counted' + Cardinality(unacked)' = n + missed'
  <2>1. Counted' <= n + missed'
    <3>1. Counted <= n + missed
      BY <1>5 DEF Covers
    <3>2. \A k, m, p \in Nat : k <= n + m /\ m <= p => k <= n + p
      OBVIOUS
    <3> QED BY <1>2, <1>3, <3>1, <3>2
  <2>2. Nobody' => Counted' + Cardinality(unacked)' = n + missed'
    BY <1>1, <1>2, <1>4, <1>5 DEF Covers, Nobody
  <2> QED BY <2>1, <2>2
<1>6. Cleanup /\ main = "delete" => Covers(found)'
  BY <1>1, <1>3, <1>5 DEF CleanInv, Covers
<1>7. ASSUME main = "done", Cleanup, 0 \notin failed
      PROVE  Covers(cleaned)' /\ \A node \in store' : node.client \in behind'
  <2>1. Covers(cleaned)'
    BY <1>1, <1>3, <1>5, <1>7 DEF CleanInv, Covers
  <2>2. \A node \in store : node.client \in behind
    BY <1>7 DEF CleanInv
  <2>3. store' = store \/ (c \in behind /\ store' \in {store, store \cup {Node(c)}})
    BY <1>4, <1>7 DEF Client, Arrive, Begin, Commit, Answer, Miss, Raise, Stop, Extend, Add
  <2>4. Node(c).client = c
    BY DEF Node
  <2> QED BY <1>1, <2>1, <2>2, <2>3, <2>4
<1> QED BY <1>1, <1>6, <1>7 DEF CleanInv

\* Nothing to be found means that nothing has to be.
LEMMA CountKeepsCleanInv ==
  ASSUME MixedAssumption, IInv, Bounded, NodesInv, CountedInv, CleanInv, CountWrites
  PROVE  CleanInv'
<1>1. /\ main = "count" /\ Cleanup /\ cleaned = 0
      /\ found' = Cardinality(store)
      /\ main' = IF store = {} THEN "done" ELSE "delete"
      /\ UNCHANGED <<cleaned, failed, behind, results, missed, unacked, store>>
  BY DEF CountWrites, CleanInv, clientVars
<1>2. Counted' = Counted /\ (Nobody' <=> Nobody)
  BY <1>1 DEF Counted, Given, Nobody
<1>3. Covers(Cardinality(store))
  BY <1>1, StoreCovers DEF NodesInv, Kept
<1>4. Covers(Cardinality(store))'
  BY <1>1, <1>2, <1>3 DEF Covers
<1>5. CASE store = {}
  <2>1. cleaned' = Cardinality(store)' /\ main' = "done" /\ store' = {}
    BY <1>1, <1>5, FS_EmptySet
  <2> QED BY <1>4, <2>1 DEF CleanInv, Covers
<1>6. CASE store # {}
  <2>1. found' = Cardinality(store)' /\ main' = "delete" /\ cleaned' = 0
    BY <1>1, <1>6
  <2> QED BY <1>1, <1>4, <2>1 DEF CleanInv, Covers
<1> QED BY <1>5, <1>6

\* The rest of the main thread cleans what was counted, reports a failure, or has nothing
\* to clean yet.
LEMMA SweepKeepsCleanInv ==
  ASSUME MixedAssumption, IInv, Bounded, CleanInv,
         Sweep \/ DeleteWrites \/ CleanupFails \/ UNCHANGED vars
  PROVE  CleanInv'
<1>1. CASE Sweep
  <2>1. /\ main # "done" /\ UNCHANGED cleaned
        /\ main' \in {"count", "delete"} => main' = "count" /\ Cleanup
        /\ main' = "done" => ~ Cleanup
    BY <1>1, ClientLevel DEF Sweep, Spawn, Open, SetDeadline, Collect, NextLevel
  <2> QED BY <2>1 DEF CleanInv
<1>2. CASE DeleteWrites
  <2>1. /\ main = "delete" /\ main' = "done" /\ store' = {} /\ cleaned' = found
        /\ UNCHANGED <<failed, behind, results, missed, unacked>>
    BY <1>2 DEF DeleteWrites, clientVars
  <2>2. Covers(found)
    BY <2>1 DEF CleanInv
  <2>3. Counted' = Counted /\ (Nobody' <=> Nobody)
    BY <2>1 DEF Counted, Given, Nobody
  <2>4. Covers(cleaned)'
    BY <2>1, <2>2, <2>3 DEF Covers
  <2> QED BY <2>1, <2>4 DEF CleanInv
<1>3. CASE CleanupFails
  <2>1. main' = "done" /\ 0 \in failed'
    BY <1>3 DEF CleanupFails
  <2> QED BY <2>1 DEF CleanInv
<1>4. CASE UNCHANGED vars
  <2>1. UNCHANGED <<main, cleaned, found, failed, behind, results, missed, unacked, store>>
    BY <1>4 DEF vars, mainVars, clientVars
  <2> QED BY <2>1 DEF CleanInv, Covers, Counted, Given, Nobody
<1> QED BY <1>1, <1>2, <1>3, <1>4

---------------------------------------------------------------------------
(* The books together                                                      *)

Books == MergeInv /\ ResultInv /\ NodesInv /\ CountedInv /\ CleanInv

\* Each step keeps each part, with the help of the others.
LEMMA StepKeepsBooks ==
  ASSUME MixedAssumption, IInv, Bounded, Bounded', Books, [Next]_vars
  PROVE  Books'
<1>1. MergeInv /\ ResultInv /\ NodesInv /\ CountedInv /\ CleanInv
  BY DEF Books
<1>2. MergeInv'
  BY <1>1, StepKeepsMergeInv
<1>3. ResultInv'
  <2>1. CASE Collect
    BY <1>1, <2>1, CollectKeepsResultInv
  <2>2. CASE \E c \in AllClients : Client(c)
    BY <1>1, <2>2, ClientKeepsResultInv
  <2>3. CASE ~ Collect /\ (Sweep \/ CountWrites \/ DeleteWrites \/ CleanupFails \/ UNCHANGED vars)
    BY <1>1, <2>3, SweepKeepsResultInv
  <2> QED BY <2>1, <2>2, <2>3 DEF Next, Finished
<1>4. NodesInv'
  BY <1>1, StepKeepsNodesInv DEF CleanInv
<1>5. CountedInv'
  BY <1>1, StepKeepsCountedInv
<1>6. CleanInv'
  <2>1. CASE CountWrites
    BY <1>1, <2>1, CountKeepsCleanInv
  <2>2. CASE \E c \in AllClients : Client(c)
    BY <1>1, <2>2, ClientKeepsCleanInv
  <2>3. CASE Sweep \/ DeleteWrites \/ CleanupFails \/ UNCHANGED vars
    BY <1>1, <2>3, SweepKeepsCleanInv
  <2> QED BY <2>1, <2>2, <2>3 DEF Next, Finished
<1> QED BY <1>2, <1>3, <1>4, <1>5, <1>6 DEF Books

\* For any levels and clients, the books are kept: the samples and the counters are what the
\* merged clients did, each result is part of that, every answered write is a node or a miss,
\* and what is cleaned covers what is counted.
THEOREM BooksInvariant == Spec => []Books
<1>1. Init => Books
  BY InitMergeInv, InitResultInv, InitNodesInv, InitCountedInv, InitCleanInv, MixedAssumption
     DEF Books
<1>2. IInv /\ Bounded /\ Books /\ [Next]_vars /\ Bounded' => Books'
  BY StepKeepsBooks, MixedAssumption
<1> QED BY <1>1, <1>2, MixedInvariant, BoundedInvariant, PTL DEF Spec

\* However the merges interleave, no operation is lost or added twice: a level's samples and
\* counters are what its merged clients did, whenever nobody is merging.
THEOREM MergesAddUpHolds == Spec => []MergesAddUp
<1>1. Books => MergesAddUp
  <2> SUFFICES ASSUME Books, NEW l \in Levels, lock[l] = Free, NEW field \in Fields
               PROVE  /\ latency[l][field] = TotalOf(field, MergedBy(l))
                      /\ counters[l][field] = TotalOf(field, MergedBy(l))
    BY DEF MergesAddUp, Fields
  <2>1. MergedBy(l) \subseteq AllClients
    BY ClientsFinite, MixedAssumption DEF MergedBy
  <2>2. TotalOf(field, MergedBy(l)) = Sum(field, MergedBy(l))
    BY <2>1, TotalIsSum
  <2>3. latency[l] = counters[l] /\ counters[l][field] = Sum(field, MergedBy(l))
    BY DEF Books, MergeInv
  <2> QED BY <2>2, <2>3
<1> QED BY <1>1, BooksInvariant, PTL

\* A result counts no operation whose latency is not among the samples it shares, although
\* stragglers go on merging; without stragglers it counts exactly what its clients did.
THEOREM ResultsBackedHolds == Spec => []ResultsBacked
<1>1. Bounded /\ Books => ResultsBacked
  <2> SUFFICES ASSUME Bounded, Books, NEW l \in Levels, results[l].built, NEW field \in Fields
               PROVE  /\ results[l][field] <= latency[l][field]
                      /\ ClientsOf(l) \cap behind = {} =>
                           results[l][field] = TotalOf(field, ClientsOf(l))
    BY DEF ResultsBacked, Fields
  <2>1. /\ results[l][field] <= counters[l][field]
        /\ ClientsOf(l) \cap behind = {} =>
             /\ results[l][field] = counters[l][field]
             /\ \A c \in ClientsOf(l) : pc[c] = "done"
    BY DEF Books, ResultInv
  <2>2. counters[l][field] \in Nat /\ results[l][field] \in Nat /\ latency[l][field] \in Nat
    BY ResultTyped
  <2>3. counters[l][field] <= latency[l][field]
    <3>1. CASE lock[l] = Free
      <4>1. latency[l] = counters[l]
        BY <3>1 DEF Books, MergeInv
      <4> QED BY <2>2, <4>1
    <3>2. CASE lock[l] # Free
      <4>1. latency[l] = Plus(counters[l], tally[lock[l]]) /\ lock[l] \in AllClients
        BY <3>2, ClientLevel, MixedAssumption DEF Books, MergeInv
      <4>2. tally[lock[l]][field] \in Nat
        BY <4>1, DidTyped
      <4>3. latency[l][field] = counters[l][field] + tally[lock[l]][field]
        BY <4>1 DEF Plus, Fields
      <4> QED BY <2>2, <4>2, <4>3
    <3> QED BY <3>1, <3>2
  <2>4. results[l][field] <= latency[l][field]
    BY <2>1, <2>2, <2>3
  <2>5. ASSUME ClientsOf(l) \cap behind = {} PROVE results[l][field] = TotalOf(field, ClientsOf(l))
    <3>1. MergedBy(l) = ClientsOf(l)
      BY <2>1, <2>5 DEF MergedBy
    <3>2. ClientsOf(l) \subseteq AllClients
      BY ClientsFinite, MixedAssumption
    <3>3. counters[l][field] = Sum(field, MergedBy(l))
      BY DEF Books, MergeInv
    <3> QED BY <2>1, <2>5, <3>1, <3>2, <3>3, TotalIsSum
  <2> QED BY <2>4, <2>5
<1> QED BY <1>1, BooksInvariant, BoundedInvariant, PTL

\* Every write the results count was committed or had no node to attach to: when the sweep is
\* over and cleanup_writes did not fail, it was cleaned, is still there, or missed.
THEOREM WritesAccountedHolds == Spec => []WritesAccounted
<1>1. IInv /\ Bounded /\ Books => WritesAccounted
  <2> SUFFICES ASSUME IInv, Bounded, Books, main = "done", 0 \notin failed
               PROVE  CountedWrites <= cleaned + Cardinality(store) + missed
    BY DEF WritesAccounted
  <2>1. Counted \in Nat /\ cleaned \in Nat /\ missed \in Nat /\ Cardinality(store) \in Nat
    BY CountedTyped, MixedAssumption, FS_CardinalityType DEF Bounded, TypeOK, TallyBounded
  <2>2. CASE Cleanup
    <3>1. Counted <= cleaned + missed
      BY <2>2 DEF Books, CleanInv, Covers
    <3> QED BY <2>1, <3>1, CountedIs
  <2>3. CASE ~ Cleanup
    <3>1. Counted <= Cardinality(store) + missed
      BY <2>3, StoreCovers, MixedAssumption DEF Books, NodesInv, Kept
    <3> QED BY <2>1, <3>1, CountedIs
  <2> QED BY <2>2, <2>3
<1> QED BY <1>1, MixedInvariant, BooksInvariant, BoundedInvariant, PTL

\* If cleanup did not fail the graph is as it was, but for the nodes of clients that were
\* not joined in time; if all were, what was cleaned is what was counted, less the misses,
\* plus the writes with a lost answer.
THEOREM RestoredHolds == Spec => []Restored
<1>1. Bounded /\ Books => Restored
  <2> SUFFICES ASSUME Bounded, Books, main = "done", Cleanup, 0 \notin failed
               PROVE  /\ \A node \in store : node.client \in behind
                      /\ behind = {} =>
                           cleaned + missed = CountedWrites + Cardinality(unacked)
    BY DEF Restored
  <2>1. Covers(cleaned) /\ \A node \in store : node.client \in behind
    BY DEF Books, CleanInv
  <2> QED BY <2>1, CountedIs DEF Covers, Nobody
<1> QED BY <1>1, BooksInvariant, BoundedInvariant, PTL

---------------------------------------------------------------------------
(* Where the clients' keys meet                                            *)

\* What SameWritesEverywhere, which the code does not keep, fails on: the number of a write
\* is new for its client, so a key is only ever taken by a client of another level.
TakenFromAfar ==
  \A c \in AllClients : pc[c] = "writing" =>
    \A n \in store : BenchKey(n) = BenchKey(Node(c)) => LevelOf(n.client) # LevelOf(c)

\* For any levels and clients: an engine with unique keys refuses a write only for a node
\* that a client with the same worker id wrote at another level.
THEOREM KeysMeetAcrossLevels == Spec => []TakenFromAfar
<1>1. Bounded /\ Books => TakenFromAfar
  <2> SUFFICES ASSUME Bounded, Books, NEW c \in AllClients, pc[c] = "writing",
                      NEW n \in store, BenchKey(n) = BenchKey(Node(c)),
                      LevelOf(n.client) = LevelOf(c)
               PROVE  FALSE
    BY DEF TakenFromAfar
  <2>1. n.client \in AllClients /\ Begun(c) \in Nat
    BY BegunTyped, MixedAssumption
  <2>2. WorkerId(n.client) = WorkerId(c) /\ n.seq = Begun(c) + 1
    BY DEF BenchKey, Node
  <2>3. \A d \in AllClients : d = <<LevelOf(d), WorkerId(d)>>
    BY DEF AllClients, ClientsOf, LevelOf, WorkerId
  <2>4. n.client = c
    BY <2>1, <2>2, <2>3
  <2>5. n.seq <= Begun(c)
    BY <2>4 DEF Books, NodesInv, Numbered
  <2> QED BY <2>1, <2>2, <2>5
<1> QED BY <1>1, BooksInvariant, BoundedInvariant, PTL

\* With a single concurrency level the writes are the same on every engine, as the comment
\* says: it takes a second level for a key to be written twice.
THEOREM OneLevelSameWrites ==
  ASSUME Len(Clients) = 1
  PROVE  Spec => []SameWritesEverywhere
<1>1. TakenFromAfar /\ Bounded => SameWritesEverywhere
  <2> SUFFICES ASSUME TakenFromAfar, Bounded, NEW c \in AllClients, pc[c] = "writing", KeyTaken(c)
               PROVE  FALSE
    BY DEF SameWritesEverywhere
  <2>1. PICK n \in store : BenchKey(n) = BenchKey(Node(c))
    BY DEF KeyTaken
  <2>2. n.client \in AllClients
    BY BegunTyped, MixedAssumption
  <2>3. \A d \in AllClients : LevelOf(d) = 1
    BY ClientLevel, MixedAssumption DEF Levels
  <2> QED BY <2>1, <2>2, <2>3 DEF TakenFromAfar
<1> QED BY <1>1, KeysMeetAcrossLevels, BoundedInvariant, PTL

---------------------------------------------------------------------------
(* The barrier                                                             *)

\* Where the main thread waits without a time limit: each party the barrier
\* counts is a thread that was started, and has come to the barrier or will.
BarrierFills ==
  main = "gate" => \A c \in AllClients : LevelOf(c) = level => pc[c] \in {"starting", "gate"}

\* For any levels and clients, and whichever threads could not be started: nobody waits at
\* a barrier for a thread that does not exist or has gone on.
THEOREM BarrierFillsHolds == Spec => []BarrierFills
<1>1. Init => BarrierFills
  BY DEF Init, BarrierFills
<1>2. IInv /\ BarrierFills /\ [Next]_vars => BarrierFills'
  <2> SUFFICES ASSUME IInv, BarrierFills, [Next]_vars, main' = "gate"
               PROVE  (\A c \in AllClients : LevelOf(c) = level => pc[c] \in {"starting", "gate"})'
    BY DEF BarrierFills
  <2>1. CASE Spawn
    <3>1. /\ level' = level
          /\ pc' = [c \in AllClients |-> IF LevelOf(c) = level /\ WorkerId(c) < Clients[level]
                                         THEN "starting" ELSE pc[c]]
      BY <2>1 DEF Spawn, NextLevel
    <3>2. \A c \in AllClients : WorkerId(c) < Clients[LevelOf(c)]
      <4> SUFFICES ASSUME NEW l \in Levels, NEW c \in ClientsOf(l)
                   PROVE  WorkerId(c) < Clients[LevelOf(c)]
        BY DEF AllClients
      <4>1. Clients[l] \in Nat
        BY MixedAssumption DEF MixedAssumption, Levels
      <4> QED BY <4>1 DEF ClientsOf, WorkerId, LevelOf
    <3> QED BY <3>1, <3>2
  <2>2. ASSUME NEW c \in AllClients, Client(c)
        PROVE  \A d \in AllClients : LevelOf(d) = level' => pc'[d] \in {"starting", "gate"}
    <3>1. /\ main = "gate" /\ level' = level
          /\ \A d \in AllClients \ {c} : pc'[d] = pc[d]
          /\ pc \in [AllClients -> Places]
      BY <2>2, ClientStep DEF mainVars, IInv, Typed
    <3>2. ASSUME LevelOf(c) = level PROVE pc'[c] = "gate"
      <4>1. Arrive(c)
        BY <2>2, <3>1, <3>2 DEF BarrierFills, Client, Begin, Commit, Answer, Miss, Raise, Stop,
           Extend, Add
      <4> QED BY <3>1, <4>1 DEF Arrive
    <3> QED BY <3>1, <3>2 DEF BarrierFills
  <2>3. CASE UNCHANGED vars
    BY <2>3 DEF vars, mainVars, clientVars, BarrierFills
  <2>4. ~ (Open \/ SetDeadline \/ Collect \/ CountWrites \/ DeleteWrites \/ CleanupFails)
    BY DEF Open, SetDeadline, Collect, NextLevel, CountWrites, DeleteWrites, CleanupFails
  <2> QED BY <2>1, <2>2, <2>3, <2>4 DEF Next, Sweep, Finished
<1> QED BY <1>1, <1>2, MixedInvariant, PTL DEF Spec

---------------------------------------------------------------------------
(* Progress                                                                *)

\* The order of the main thread's steps in one level, then in the cleanup.
Turn == [spawn |-> 0, gate |-> 1, load |-> 2, join |-> 3, count |-> 4, delete |-> 5, done |-> 6]

\* The main thread stays where it is, or goes on to the next level or the next thing to do.
MainGoesOn ==
  \/ UNCHANGED <<main, level>>
  \/ level' = level + 1 /\ level' <= Len(Clients) + 1
  \/ level' = level /\ Turn[main'] > Turn[main]

\* A thread that was started comes to the barrier, and leaves it only when it opens.
ThreadGoesOn(c) ==
  /\ pc[c] = "starting" /\ pc'[c] # pc[c] => pc'[c] = "gate"
  /\ pc[c] = "gate" /\ pc'[c] # pc[c] => LevelOf(c) = level /\ main = "gate" /\ main' = "load"

SweepGoesOn == [][MainGoesOn /\ \A c \in AllClients : ThreadGoesOn(c)]_vars

\* With BarrierFillsHolds this is what SweepEnds rests on: no step leads back, whatever the
\* clients do and whichever threads could not be started, so the threads of a level that are
\* still to come to the barrier become fewer until it opens, and the levels to come after it
\* (_run_level, run_mixed, cleanup_writes).
THEOREM SweepGoesOnHolds == Spec => SweepGoesOn
<1>1. IInv /\ IInv' /\ [Next]_vars =>
        [MainGoesOn /\ \A c \in AllClients : ThreadGoesOn(c)]_vars
  <2> SUFFICES ASSUME IInv, IInv', Next
               PROVE  MainGoesOn /\ \A c \in AllClients : ThreadGoesOn(c)
    OBVIOUS
  <2>0. level' <= Len(Clients) + 1 /\ pc \in [AllClients -> Places]
    BY ClientLevel, MixedAssumption DEF IInv, Typed
  <2>1. CASE Spawn
    <3>1. main = "spawn" /\ ((level' = level /\ main' = "gate") \/ level' = level + 1)
      BY <2>1 DEF Spawn, NextLevel
    <3>2. MainGoesOn
      BY <2>0, <3>1 DEF MainGoesOn, Turn
    <3>3. PICK n \in 0 .. Clients[level] :
            pc' = [c \in AllClients |->
                     IF LevelOf(c) = level /\ WorkerId(c) < n THEN "starting" ELSE pc[c]]
      BY <2>1 DEF Spawn
    <3>4. \A c \in AllClients : pc'[c] = pc[c] \/ pc[c] = "none"
      BY <3>1, <3>3 DEF IInv, ComingInv
    <3> QED BY <3>2, <3>4 DEF ThreadGoesOn
  <2>2. CASE Open
    <3>1. /\ main = "gate" /\ main' = "load" /\ level' = level
          /\ pc' = [c \in AllClients |-> IF c \in ClientsOf(level) THEN "loop" ELSE pc[c]]
          /\ \A c \in ClientsOf(level) : pc[c] = "gate" /\ LevelOf(c) = level
      BY <2>2 DEF Open, ClientsOf, LevelOf
    <3>2. MainGoesOn
      BY <3>1 DEF MainGoesOn, Turn
    <3>3. \A c \in AllClients : ThreadGoesOn(c)
      BY <3>1 DEF ThreadGoesOn
    <3> QED BY <3>2, <3>3
  <2>3. CASE SetDeadline \/ Collect \/ CountWrites \/ DeleteWrites \/ CleanupFails
    <3>1. /\ pc' = pc
          /\ \/ level' = level + 1
             \/ level' = level /\ main = "load" /\ main' = "join"
             \/ level' = level /\ main = "count" /\ main' \in {"delete", "done"}
             \/ level' = level /\ main = "delete" /\ main' = "done"
      BY <2>3 DEF SetDeadline, Collect, NextLevel, CountWrites, DeleteWrites, CleanupFails,
                  clientVars
    <3>2. MainGoesOn
      BY <2>0, <3>1 DEF MainGoesOn, Turn
    <3> QED BY <3>1, <3>2 DEF ThreadGoesOn
  <2>4. ASSUME NEW c \in AllClients, Client(c)
        PROVE  MainGoesOn /\ \A d \in AllClients : ThreadGoesOn(d)
    <3>1. UNCHANGED <<main, level>> /\ \A d \in AllClients \ {c} : pc'[d] = pc[d]
      BY <2>4, ClientStep DEF mainVars
    <3>2. pc[c] # "gate" /\ (pc[c] = "starting" => pc'[c] = "gate")
      BY <2>0, <2>4 DEF Client, Arrive, Begin, Commit, Answer, Miss, Raise, Stop, Extend, Add
    <3> QED BY <3>1, <3>2 DEF MainGoesOn, ThreadGoesOn
  <2>5. CASE Finished
    BY <2>5 DEF Finished, vars, mainVars, clientVars, MainGoesOn, ThreadGoesOn
  <2> QED BY <2>1, <2>2, <2>3, <2>4, <2>5 DEF Next, Sweep
<1> QED BY <1>1, MixedInvariant, PTL DEF Spec, SweepGoesOn
=============================================================================
