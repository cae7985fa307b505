---------------------------- MODULE RunnerProofs ----------------------------
(***************************************************************************)
(* Runner for any platforms, command lines, run ids and number of runs,    *)
(* whatever fails, hangs or is killed: what a record says of the reset and *)
(* of the status is true, at most one adapter is open, and a run that can  *)
(* be reported is whole.                                                   *)
(***************************************************************************)
EXTENDS Runner, NumberFacts

---------------------------------------------------------------------------
(* The inductive invariant                                                 *)

Steps == {"idle", "platform", "reset", "build", "connect", "load", "reads", "mixed",
          "footprint", "close", "write"}
Runs == [number : 0 .. MaxRuns, id : RunIds \cup {Nothing}, restart : BOOLEAN,
         mixed : BOOLEAN, usable : SUBSET Platforms]
Summaries == [by : Nat, platforms : SUBSET Platforms, skipped : SUBSET Platforms]

Typed ==
  /\ DockerTypeOK
  /\ step \in Steps
  /\ run \in Runs
  /\ todo \subseteq run.usable
  /\ rec \in Records
  /\ open \subseteq Platforms
  /\ written \subseteq Platforms
  /\ files \in [RunIds -> [Platforms -> Records \cup {Nothing}]]
  /\ summary \in [RunIds -> Summaries \cup {Nothing}]

\* Inside run_platform there is a run, with a platform, whose record is new.
Inside == {"reset", "build", "connect", "load", "reads", "mixed", "footprint", "close", "write"}
PlaceInv ==
  /\ step # "idle" => run.id \in RunIds
  /\ step \in Inside => todo # {} /\ rec.by = run.number

\* What has been claimed of a platform before its phases are over: nothing.
Returned == [reset |-> 0, build |-> 0, connect |-> 0, load |-> 1, reads |-> 2, mixed |-> 3,
             footprint |-> 4]
PhaseInv ==
  /\ step \in DOMAIN Returned => rec.status = "failed" /\ rec.done = Returned[step]
  /\ step \in {"reset", "build", "connect", "load"} => rec.began = "remote"
  /\ step = "reset" => ~rec.reset
  /\ step \in Inside => rec.status # "torn"

\* An adapter is open from Build to Close, and it is the current platform's.
Opened == {"connect", "load", "reads", "mixed", "footprint", "close"}
OpenInv == open \subseteq (IF step \in Opened THEN {Current} ELSE {})

\* What recreate has achieved so far, and what of it is left when the load begins.
Virgin(p) == engine[p] = "fresh" /\ (Data \in recreate.removed => disk[p] = "clean")
ResetInv ==
  /\ step = "reset" =>
       /\ Current \in Local
       /\ recreate.at \in {"available", "rm"} => Data \notin recreate.removed
       /\ recreate.at = "volumes" /\ Data \in recreate.removed => disk[Current] = "none"
       /\ recreate.at \in {"wait", "returned"} => Virgin(Current)
  /\ step \in {"build", "connect", "load"} /\ rec.reset =>
       /\ Current \in Local
       /\ engine[Current] = "fresh"
       /\ Data \in rec.removed => disk[Current] = "clean"
  /\ step = "load" /\ Current \in Local => engine[Current] # "absent"

\* Each record says what it has earned.
Earned(r) ==
  /\ r.status \in {"ok", "partial"} => r.done = 5
  /\ r.status = "ok" => ~ r.errors /\ ~ r.abandoned
Honest(r) ==
  r.reset /\ r.began # "remote" => r.began # "used" /\ (Data \in r.removed => r.began = "virgin")
RecordInv ==
  \A r \in AllRecords \ {Nothing} : Earned(r) /\ Honest(r)

\* The files of the run going on, and those of earlier runs, by their numbers.
File(i, p) == files[i][p]
WrittenInv ==
  /\ step # "idle" =>
       /\ written = run.usable \ todo
       /\ \A p \in written : File(run.id, p) # Nothing /\ File(run.id, p).by = run.number
       /\ \A i \in RunIds, p \in Platforms :
            File(i, p) # Nothing /\ File(i, p).by = run.number =>
              i = run.id /\ p \in written /\ File(i, p).status # "torn"
       /\ \A i \in RunIds : summary[i] # Nothing => summary[i].by < run.number
  /\ \A i \in RunIds, p \in Platforms : File(i, p) # Nothing => File(i, p).by <= run.number
  /\ \A i \in RunIds : summary[i] # Nothing => summary[i].by <= run.number

IdleInv == step = "idle" => todo = {} /\ open = {} /\ written = {}

IInv == /\ Typed /\ PlaceInv /\ PhaseInv /\ OpenInv /\ ResetInv /\ RecordInv
        /\ WrittenInv /\ IdleInv /\ ReportedRunIsWhole

---------------------------------------------------------------------------
(* Helpers                                                                 *)

\* The platform that is being run is one that has yet to finish.
LEMMA CurrentIsNext ==
  ASSUME RunnerAssumption, Typed, todo # {}
  PROVE  Current \in todo /\ Current \in Platforms
<1>1. todo \subseteq Nat /\ todo \subseteq Platforms
  BY DEF Typed, Runs, RunnerAssumption
<1>2. \E p \in todo : \A q \in todo : p <= q
  BY <1>1, Least
<1> QED BY <1>1, <1>2 DEF Current

\* A record under way, with some of its fields set, is a record.
LEMMA NewRecordTyped ==
  ASSUME NEW n \in 0 .. MaxRuns
  PROVE  /\ NewRecord(n) \in Records /\ Earned(NewRecord(n)) /\ Honest(NewRecord(n))
         /\ NewRecord(n).status = "failed" /\ NewRecord(n).done = 0
         /\ NewRecord(n).began = "remote" /\ ~NewRecord(n).reset /\ NewRecord(n).by = n
BY DEF NewRecord, Records, Earned, Honest

\* No call at all is one of the calls.
LEMMA NoCallTyped == NoCall \in Calls
BY DEF NoCall, Calls

LEMMA InitIInv == RunnerAssumption /\ Init => IInv
<1> SUFFICES ASSUME RunnerAssumption, Init PROVE IInv
  OBVIOUS
<1>0. 0 \in 0 .. MaxRuns
  BY DEF RunnerAssumption
<1>1. Typed
  <2>1. DockerTypeOK
    BY NoCallTyped DEF Init, DockerInit, DockerTypeOK
  <2>2. run \in Runs
    BY <1>0 DEF Init, NoRun, Runs
  <2> QED BY <1>0, <2>1, <2>2, NewRecordTyped DEF Init, Typed, Steps
<1>2. \A i \in RunIds, p \in Platforms : files[i][p] = Nothing
  BY DEF Init
<1>3. RecordInv
  BY <1>0, <1>2, NewRecordTyped DEF Init, RecordInv, AllRecords
<1>4. WrittenInv
  BY <1>2 DEF Init, WrittenInv, File
<1>5. PlaceInv /\ PhaseInv /\ OpenInv /\ ResetInv /\ IdleInv
  BY DEF Init, PlaceInv, Inside, PhaseInv, Returned, OpenInv, Opened, ResetInv, IdleInv
<1>6. ReportedRunIsWhole
  BY DEF Init, ReportedRunIsWhole
<1> QED BY <1>1, <1>3, <1>4, <1>5, <1>6 DEF IInv

---------------------------------------------------------------------------
(* Steps of a run that goes on                                             *)

\* As long as a step of the current platform leaves the files alone, only its own record
\* has to be looked at.
LEMMA InsideKeeps ==
  ASSUME RunnerAssumption, IInv, step # "idle", step' \in Steps \ {"idle"},
         UNCHANGED <<run, todo, written, files, summary>>,
         rec' \in Records, Earned(rec'), Honest(rec'),
         DockerTypeOK', open' \subseteq Platforms
  PROVE  Typed' /\ RecordInv' /\ WrittenInv' /\ IdleInv' /\ ReportedRunIsWhole'
<1>1. Typed'
  BY DEF IInv, Typed
<1>2. RecordInv'
  BY DEF IInv, RecordInv, AllRecords
<1>3. WrittenInv' /\ IdleInv'
  BY DEF IInv, WrittenInv, IdleInv, File
<1>4. ReportedRunIsWhole'
  <2>1. \A i \in RunIds : Users(i)' = Users(i)
    BY DEF Users
  <2>2. ReportedRunIsWhole
    BY DEF IInv
  <2> QED BY <2>1, <2>2 DEF ReportedRunIsWhole
<1> QED BY <1>1, <1>2, <1>3, <1>4

LEMMA SameCurrent == ASSUME todo' = todo PROVE Current' = Current
BY DEF Current

\* A step of recreate leaves a call in progress, or one that has ended.
LEMMA CallTyped ==
  ASSUME recreate \in Calls, NEW p \in Local, RecreateStep(p)
  PROVE  recreate' \in Calls
<1> DEFINE Places == {"none", "available", "rm", "volumes", "wait"} \cup Ended
<1>1. ASSUME NEW place \in Places, Goto(place) PROVE recreate' \in Calls
  BY <1>1 DEF Goto, Calls
<1>2. CASE Unavailable \/ Expire(p) \/ RemoveContainer(p) \/ Up(p) \/ Wait
  <2>1. \E place \in Places : Goto(place)
    BY <1>2 DEF Unavailable, Expire, RemoveContainer, Up, Wait, Ended
  <2> QED BY <1>1, <2>1
<1>3. CASE ListVolumes(p)
  <2>1. PICK listed \in SUBSET Volumes :
          recreate' = [recreate EXCEPT !.at = "rm", !.left = listed]
    BY <1>3, DockerAssumption DEF ListVolumes
  <2> QED BY <2>1 DEF Calls
<1>4. CASE RemoveVolume(p)
  <2>1. PICK v \in recreate.left : Tried(v, {v}) \/ Tried(v, {})
    BY <1>4 DEF RemoveVolume
  <2>2. v \in Volumes
    BY <2>1 DEF Calls
  <2> QED BY <2>1, <2>2 DEF Tried, Calls
<1> QED BY <1>2, <1>3, <1>4 DEF RecreateStep

\* And the containers and the volumes in one of their states.
LEMMA StoreTyped ==
  ASSUME engine \in [Local -> {"absent", "fresh", "used"}],
         disk \in [Local -> {"none", "clean", "dirty"}],
         recreate' \in Calls, NEW p \in Local, RecreateStep(p)
  PROVE  DockerTypeOK'
<1>1. /\ engine' = engine \/ engine' = Removed(p) \/ Started(p)
      /\ disk' = disk \/ Started(p) \/ \E v \in recreate.left : disk' = Wiped(p, v)
  BY DEF RecreateStep, Unavailable, Expire, ListVolumes, RemoveContainer, RemoveVolume, Up, Wait
<1>2. engine' \in [Local -> {"absent", "fresh", "used"}]
  BY <1>1 DEF Removed, Started
<1>3. disk' \in [Local -> {"none", "clean", "dirty"}]
  BY <1>1 DEF Wiped, Started
<1> QED BY <1>2, <1>3 DEF DockerTypeOK

\* A step of recreate, which finds the engine and the volume as it has left them.
LEMMA ResetKeepsIInv ==
  ASSUME RunnerAssumption, IInv, Reset
  PROVE  IInv'
<1> DEFINE p == Current
<1>1. step = "reset" /\ p \in Local /\ UNCHANGED runnerVars /\ RecreateStep(p)
  BY DEF Reset, IInv, ResetInv
<1>2. Current' = p
  BY <1>1, SameCurrent DEF runnerVars
<1> HIDE DEF p
<1>3. /\ engine \in [Local -> {"absent", "fresh", "used"}]
      /\ disk \in [Local -> {"none", "clean", "dirty"}]
      /\ recreate \in Calls
  BY DEF IInv, Typed, DockerTypeOK
<1>4. DockerTypeOK'
  BY <1>1, <1>3, CallTyped, StoreTyped
<1>5. /\ recreate.at \in {"available", "rm"} => Data \notin recreate.removed
      /\ recreate.at = "volumes" /\ Data \in recreate.removed => disk[p] = "none"
      /\ recreate.at \in {"wait", "returned"} => Virgin(p)
  BY <1>1 DEF IInv, ResetInv, p
<1>6. ResetInv'
  <2> SUFFICES /\ recreate'.at \in {"available", "rm"} => Data \notin recreate'.removed
               /\ recreate'.at = "volumes" /\ Data \in recreate'.removed => disk'[p] = "none"
               /\ recreate'.at \in {"wait", "returned"} =>
                    engine'[p] = "fresh" /\ (Data \in recreate'.removed => disk'[p] = "clean")
    BY <1>1, <1>2 DEF ResetInv, runnerVars, Virgin
  <2>1. CASE Unavailable \/ Expire(p) \/ Wait
    BY <2>1, <1>1, <1>3, <1>5 DEF Unavailable, Expire, Wait, Goto, At, Ended, Virgin, Calls
  <2>2. CASE ListVolumes(p) \/ RemoveContainer(p)
    BY <2>2, <1>1, <1>3, <1>5 DEF ListVolumes, RemoveContainer, Goto, At, Virgin, Calls
  <2>3. CASE RemoveVolume(p)
    <3>1. PICK v \in recreate.left :
            (disk' = Wiped(p, v) /\ Tried(v, {v})) \/ (UNCHANGED disk /\ Tried(v, {}))
      BY <2>3 DEF RemoveVolume
    <3>2. recreate.at = "volumes" /\ recreate'.at = "volumes"
      BY <2>3, <3>1, <1>3 DEF RemoveVolume, At, Tried, Calls
    <3>3. CASE v = Data /\ disk' = Wiped(p, v)
      <4>1. disk'[p] = "none"
        BY <3>3, <1>1, <1>3 DEF Wiped
      <4> QED BY <3>2, <4>1
    <3>4. CASE disk' = disk /\ (Data \in recreate'.removed => Data \in recreate.removed)
      BY <3>2, <3>4, <1>5
    <3>5. ASSUME NEW removed \in {{v}, {}}, Tried(v, removed),
                 removed = {} \/ v # Data
          PROVE  Data \in recreate'.removed => Data \in recreate.removed
      <4>1. recreate'.removed = recreate.removed \cup removed
        BY <3>5, <1>3 DEF Tried, Calls
      <4> QED BY <3>5, <4>1
    <3> QED BY <3>1, <3>3, <3>4, <3>5 DEF Wiped
  <2>4. CASE Up(p)
    <3>1. CASE Goto("unavailable")
      BY <3>1, <1>3 DEF Goto, Calls
    <3>2. CASE Started(p) /\ Goto("wait")
      <4>1. recreate'.at = "wait" /\ recreate'.removed = recreate.removed
        BY <3>2, <1>3 DEF Goto, Calls
      <4>2. engine'[p] = "fresh" /\ (disk[p] = "none" => disk'[p] = "clean")
        BY <3>2, <1>1, <1>3 DEF Started
      <4> QED BY <4>1, <4>2, <2>4, <1>5 DEF Up, AllTried, At
    <3> QED BY <2>4, <3>1, <3>2 DEF Up
  <2> QED BY <1>1, <2>1, <2>2, <2>3, <2>4 DEF RecreateStep
<1>7. Typed' /\ RecordInv' /\ WrittenInv' /\ IdleInv' /\ ReportedRunIsWhole'
  <2>1. rec \in Records /\ Earned(rec) /\ Honest(rec) /\ open \subseteq Platforms
    <3>1. rec \in Records /\ rec \in AllRecords /\ Nothing \notin Records
      BY DEF IInv, Typed, AllRecords, RunnerAssumption
    <3> QED BY <3>1 DEF IInv, RecordInv, Typed
  <2> QED BY <1>1, <1>4, <2>1, InsideKeeps DEF runnerVars, Steps
<1>8. PlaceInv' /\ PhaseInv' /\ OpenInv'
  BY <1>1, <1>2 DEF IInv, PlaceInv, Inside, PhaseInv, Returned, OpenInv, Opened, runnerVars
<1> QED BY <1>6, <1>7, <1>8 DEF IInv

\* What the parts of the invariant say of the current platform.
LEMMA InsideFacts ==
  ASSUME RunnerAssumption, IInv
  PROVE  /\ rec \in Records /\ Earned(rec) /\ Honest(rec)
         /\ step \in Inside => Current \in todo /\ Current \in Platforms
<1>1. rec \in Records /\ rec \in AllRecords /\ Nothing \notin Records
  BY DEF IInv, Typed, AllRecords, RunnerAssumption
<1>2. Earned(rec) /\ Honest(rec)
  BY <1>1 DEF IInv, RecordInv
<1>3. step \in Inside => Current \in todo /\ Current \in Platforms
  BY CurrentIsNext DEF IInv, PlaceInv
<1> QED BY <1>1, <1>2, <1>3

LEMMA BeginKeepsIInv ==
  ASSUME RunnerAssumption, IInv, BeginPlatform
  PROVE  IInv'
<1>1. /\ step = "platform" /\ todo # {} /\ rec' = NewRecord(run.number)
      /\ step' \in {"reset", "build"}
      /\ UNCHANGED <<run, todo, open, written, files, summary, engine, disk>>
  BY DEF BeginPlatform
<1>2. step' = "reset" => Current \in Local /\ recreate' = [NoCall EXCEPT !.at = "available"]
  BY DEF BeginPlatform
<1>3. recreate' \in {NoCall, [NoCall EXCEPT !.at = "available"]}
  BY DEF BeginPlatform
<1>4. run.number \in 0 .. MaxRuns /\ run \in Runs
  BY DEF IInv, Typed, Runs
<1>5. DockerTypeOK'
  <2>1. recreate' \in {[at |-> "none", left |-> {}, removed |-> {}],
                      [at |-> "available", left |-> {}, removed |-> {}]}
    BY <1>3 DEF NoCall
  <2>2. recreate' \in Calls
    <3>1. CASE recreate' = [at |-> "none", left |-> {}, removed |-> {}]
      BY <3>1 DEF Calls
    <3>2. CASE recreate' = [at |-> "available", left |-> {}, removed |-> {}]
      BY <3>2 DEF Calls
    <3> QED BY <2>1, <3>1, <3>2
  <2>3. DockerTypeOK /\ engine' = engine /\ disk' = disk
    BY <1>1 DEF IInv, Typed
  <2> QED BY <2>2, <2>3 DEF DockerTypeOK
<1>6. Typed' /\ RecordInv' /\ WrittenInv' /\ IdleInv' /\ ReportedRunIsWhole'
  BY <1>1, <1>4, <1>5, NewRecordTyped, InsideKeeps DEF Steps, IInv, Typed
<1>7. Current' = Current
  BY <1>1, SameCurrent
<1>8. PlaceInv' /\ PhaseInv' /\ OpenInv'
  BY <1>1, <1>4, NewRecordTyped DEF IInv, PlaceInv, PhaseInv, Returned, OpenInv, Opened, Inside
<1>9. ResetInv'
  BY <1>1, <1>2, <1>4, <1>7, NewRecordTyped DEF ResetInv, NoCall
<1> QED BY <1>6, <1>8, <1>9 DEF IInv

LEMMA ResetDoneKeepsIInv ==
  ASSUME RunnerAssumption, IInv, ResetDone
  PROVE  IInv'
<1>1. /\ step = "reset" /\ step' = "build" /\ recreate' = NoCall
      /\ UNCHANGED <<run, todo, open, written, files, summary, engine, disk>>
  BY DEF ResetDone
<1>2. \/ At("returned") /\ rec' = [rec EXCEPT !.reset = TRUE, !.removed = recreate.removed]
      \/ rec' = [rec EXCEPT !.errors = TRUE]
  BY DEF ResetDone
<1>3. /\ rec \in Records /\ rec.status = "failed" /\ rec.done = 0 /\ rec.began = "remote"
      /\ ~rec.reset /\ rec.by = run.number /\ recreate.removed \in SUBSET Volumes
      /\ todo # {}
  <2>1. recreate \in Calls
    BY DEF IInv, Typed, DockerTypeOK
  <2>2. recreate.removed \in SUBSET Volumes
    BY <2>1 DEF Calls
  <2> QED BY <1>1, <2>2 DEF IInv, Typed, PhaseInv, Returned, PlaceInv, Inside
<1>4. /\ rec' \in Records /\ rec'.status = "failed" /\ rec'.done = 0 /\ rec'.began = "remote"
      /\ rec'.by = run.number
      /\ rec'.reset => At("returned") /\ rec'.removed = recreate.removed
  <2>1. CASE rec' = [rec EXCEPT !.errors = TRUE]
    BY <2>1, <1>3 DEF Records
  <2>2. CASE At("returned") /\ rec' = [rec EXCEPT !.reset = TRUE, !.removed = recreate.removed]
    <3>1. rec' \in Records /\ rec'.removed = recreate.removed
      BY <2>2, <1>3 DEF Records
    <3>2. rec'.status = "failed" /\ rec'.done = 0 /\ rec'.began = "remote" /\ rec'.by = run.number
      BY <2>2, <1>3 DEF Records
    <3> QED BY <2>2, <3>1, <3>2
  <2> QED BY <1>2, <2>1, <2>2
<1>5. Earned(rec') /\ Honest(rec')
  BY <1>4 DEF Earned, Honest
<1>6. DockerTypeOK'
  BY <1>1, NoCallTyped DEF IInv, Typed, DockerTypeOK
<1>7. Typed' /\ RecordInv' /\ WrittenInv' /\ IdleInv' /\ ReportedRunIsWhole'
  BY <1>1, <1>4, <1>5, <1>6, InsideKeeps DEF Steps, IInv, Typed
<1>8. Current' = Current
  BY <1>1, SameCurrent
<1>9. PlaceInv' /\ PhaseInv' /\ OpenInv'
  BY <1>1, <1>3, <1>4 DEF IInv, PlaceInv, PhaseInv, Returned, OpenInv, Opened, Inside
<1>10. ResetInv'
  BY <1>1, <1>4, <1>8 DEF IInv, ResetInv, At, Virgin
<1> QED BY <1>7, <1>9, <1>10 DEF IInv

LEMMA BuildKeepsIInv ==
  ASSUME RunnerAssumption, IInv, Build
  PROVE  IInv'
<1>1. /\ step = "build" /\ step' = "connect" /\ open' = open \cup {Current}
      /\ UNCHANGED <<run, todo, rec, written, files, summary, engine, disk, recreate>>
  BY DEF Build, dockerVars
<1>2. Current \in Platforms /\ rec \in Records /\ Earned(rec) /\ Honest(rec)
  BY <1>1, InsideFacts DEF Inside
<1>3. Current' = Current
  BY <1>1, SameCurrent
<1>4. Typed' /\ RecordInv' /\ WrittenInv' /\ IdleInv' /\ ReportedRunIsWhole'
  BY <1>1, <1>2, InsideKeeps DEF Steps, IInv, Typed, DockerTypeOK
<1>5. PlaceInv' /\ PhaseInv' /\ OpenInv' /\ ResetInv'
  BY <1>1, <1>3 DEF IInv, PlaceInv, PhaseInv, Returned, OpenInv, Opened, Inside, ResetInv, Virgin
<1> QED BY <1>4, <1>5 DEF IInv

LEMMA CloseKeepsIInv ==
  ASSUME RunnerAssumption, IInv, Close
  PROVE  IInv'
<1>1. /\ step = "close" /\ step' = "write" /\ open' = open \ {Current}
      /\ UNCHANGED <<run, todo, rec, written, files, summary, engine, disk, recreate>>
  BY DEF Close, dockerVars
<1>2. rec \in Records /\ Earned(rec) /\ Honest(rec)
  BY <1>1, InsideFacts
<1>3. Current' = Current
  BY <1>1, SameCurrent
<1>4. Typed' /\ RecordInv' /\ WrittenInv' /\ IdleInv' /\ ReportedRunIsWhole'
  BY <1>1, <1>2, InsideKeeps DEF Steps, IInv, Typed, DockerTypeOK
<1>5. PlaceInv' /\ PhaseInv' /\ OpenInv' /\ ResetInv'
  BY <1>1, <1>3 DEF IInv, PlaceInv, PhaseInv, Returned, OpenInv, Opened, Inside, ResetInv, Virgin
<1> QED BY <1>4, <1>5 DEF IInv

\* The five phases: what they make of the record, and of the local store.
Phases == {"connect", "load", "reads", "mixed", "footprint"}

LEMMA PhaseKeepsIInv ==
  ASSUME RunnerAssumption, IInv, step \in Phases, step' \in Phases \cup {"close"},
         UNCHANGED <<run, todo, open, written, files, summary>>,
         DockerTypeOK',
         rec' \in Records, rec'.by = rec.by, Earned(rec'), Honest(rec'), rec'.status # "torn",
         step' \in Phases => rec'.status = "failed" /\ rec'.done = Returned[step'],
         step' = "connect" => FALSE,
         step' = "load" => rec'.began = "remote",
         ResetInv'
  PROVE  IInv'
<1>1. Current' = Current
  BY SameCurrent
<1>2. Typed' /\ RecordInv' /\ WrittenInv' /\ IdleInv' /\ ReportedRunIsWhole'
  BY InsideKeeps DEF Steps, Phases, IInv, Typed
<1>3. PlaceInv' /\ PhaseInv' /\ OpenInv'
  BY <1>1 DEF IInv, PlaceInv, PhaseInv, Phases, Returned, OpenInv, Opened, Inside
<1> QED BY <1>2, <1>3 DEF IInv

\* One more phase has returned, and that is all.
LEMMA OneMoreDone ==
  ASSUME NEW r \in Records, NEW s, s = [r EXCEPT !.done = @ + 1], r.done \in 0 .. 4
  PROVE  /\ s \in Records /\ s.done = r.done + 1
         /\ s.by = r.by /\ s.status = r.status /\ s.errors = r.errors
         /\ s.abandoned = r.abandoned /\ s.reset = r.reset /\ s.removed = r.removed
         /\ s.began = r.began
BY DEF Records

\* Where the phases leave the containers alone, what is known of the reset stays known.
LEMMA ResetInvStays ==
  ASSUME IInv, step' \notin {"reset", "build", "connect", "load"}
  PROVE  ResetInv'
BY DEF ResetInv

LEMMA ConnectKeepsIInv ==
  ASSUME RunnerAssumption, IInv, Connect
  PROVE  IInv'
<1>1. /\ step = "connect" /\ step' = "load" /\ rec' = [rec EXCEPT !.done = @ + 1]
      /\ UNCHANGED <<run, todo, open, written, files, summary, engine, disk, recreate>>
      /\ Current \in Local => engine[Current] # "absent"
  BY DEF Connect, Returns, dockerVars
<1>2. /\ rec \in Records /\ rec.status = "failed" /\ rec.done = 0 /\ rec.began = "remote"
  BY <1>1 DEF IInv, Typed, PhaseInv, Returned
<1>3. /\ rec' \in Records /\ rec'.status = "failed" /\ rec'.done = 1 /\ rec'.began = "remote"
      /\ rec'.by = rec.by /\ rec'.reset = rec.reset /\ rec'.removed = rec.removed
  BY <1>1, <1>2 DEF Records
<1>4. Current' = Current
  BY <1>1, SameCurrent
<1>5. ResetInv'
  BY <1>1, <1>3, <1>4 DEF IInv, ResetInv
<1>6. DockerTypeOK'
  BY <1>1 DEF IInv, Typed, DockerTypeOK
<1>7. Earned(rec') /\ Honest(rec')
  BY <1>3 DEF Earned, Honest
<1> QED BY <1>1, <1>3, <1>5, <1>6, <1>7, PhaseKeepsIInv DEF Phases, Returned

\* The load meets what the reset has left, and leaves a store that is used.
LEMMA LoadMeets ==
  ASSUME RunnerAssumption, IInv, step = "load"
  PROVE  /\ Began \in {"remote", "virgin", "fresh", "used"}
         /\ rec.reset => Began # "used" /\ (Data \in rec.removed => Began = "virgin")
         /\ Soil => DockerTypeOK'
<1>1. /\ engine \in [Local -> {"absent", "fresh", "used"}]
      /\ disk \in [Local -> {"none", "clean", "dirty"}]
  BY DEF IInv, Typed, DockerTypeOK
<1>2. Current \in Local => engine[Current] # "absent"
  BY DEF IInv, ResetInv
<1>3. rec.reset => /\ Current \in Local /\ engine[Current] = "fresh"
                   /\ Data \in rec.removed => disk[Current] = "clean"
  BY DEF IInv, ResetInv
<1>4. Began \in {"remote", "virgin", "fresh", "used"}
  BY <1>1, <1>2 DEF Began
<1>5. rec.reset => Began # "used" /\ (Data \in rec.removed => Began = "virgin")
  BY <1>3 DEF Began
<1>6. ASSUME Soil PROVE DockerTypeOK'
  <2>1. engine' \in [Local -> {"absent", "fresh", "used"}]
    BY <1>1, <1>6 DEF Soil, dockerVars
  <2>2. disk' \in [Local -> {"none", "clean", "dirty"}]
    BY <1>1, <1>6 DEF Soil, dockerVars
  <2>3. recreate' = recreate
    BY <1>6 DEF Soil, dockerVars
  <2> QED BY <2>1, <2>2, <2>3 DEF DockerTypeOK, IInv, Typed
<1> QED BY <1>4, <1>5, <1>6

LEMMA LoadKeepsIInv ==
  ASSUME RunnerAssumption, IInv, Load
  PROVE  IInv'
<1>1. PICK e \in BOOLEAN : rec' = [[rec EXCEPT !.began = Began, !.errors = @ \/ e] EXCEPT !.done = @ + 1]
  BY DEF Load, Returns
<1>2. /\ step = "load" /\ step' = "reads" /\ Soil
      /\ UNCHANGED <<run, todo, open, written, files, summary>>
  BY DEF Load, Returns
<1>3. rec \in Records /\ rec.status = "failed" /\ rec.done = 1
  BY <1>2 DEF IInv, Typed, PhaseInv, Returned
<1>4. /\ Began \in {"remote", "virgin", "fresh", "used"} /\ DockerTypeOK'
      /\ rec.reset => Began # "used" /\ (Data \in rec.removed => Began = "virgin")
  BY <1>2, LoadMeets
<1> HIDE DEF Began
<1>5. /\ rec' \in Records /\ rec'.status = "failed" /\ rec'.done = 2 /\ rec'.began = Began
      /\ rec'.by = rec.by /\ rec'.reset = rec.reset /\ rec'.removed = rec.removed
  <2> DEFINE r == [rec EXCEPT !.began = Began, !.errors = @ \/ e]
  <2>1. (rec.errors \/ e) \in BOOLEAN
    OBVIOUS
  <2>2. /\ r \in Records /\ r.status = rec.status /\ r.done = rec.done /\ r.began = Began
        /\ r.by = rec.by /\ r.reset = rec.reset /\ r.removed = rec.removed
    BY <1>3, <1>4, <2>1 DEF Records
  <2>3. rec' = [r EXCEPT !.done = @ + 1]
    BY <1>1
  <2> HIDE DEF r
  <2> QED BY <1>3, <2>2, <2>3, OneMoreDone
<1>6. Earned(rec') /\ Honest(rec')
  BY <1>4, <1>5 DEF Earned, Honest
<1>7. ResetInv'
  BY <1>2, ResetInvStays
<1> QED BY <1>2, <1>4, <1>5, <1>6, <1>7, PhaseKeepsIInv DEF Phases, Returned

LEMMA ReadsKeepsIInv ==
  ASSUME RunnerAssumption, IInv, Reads
  PROVE  IInv'
<1>1. PICK c \in BOOLEAN, a \in BOOLEAN :
        rec' = [[rec EXCEPT !.callErrors = c, !.abandoned = a] EXCEPT !.done = @ + 1]
  BY DEF Reads, Returns
<1>2. /\ step = "reads" /\ step' = "mixed"
      /\ UNCHANGED <<run, todo, open, written, files, summary, engine, disk, recreate>>
  BY DEF Reads, Returns, dockerVars
<1>3. rec \in Records /\ rec.status = "failed" /\ rec.done = 2 /\ Honest(rec)
  BY <1>2, InsideFacts DEF IInv, Typed, PhaseInv, Returned
<1>4. /\ rec' \in Records /\ rec'.status = "failed" /\ rec'.done = 3 /\ rec'.by = rec.by
      /\ rec'.reset = rec.reset /\ rec'.removed = rec.removed /\ rec'.began = rec.began
  <2> DEFINE r == [rec EXCEPT !.callErrors = c, !.abandoned = a]
  <2>1. /\ r \in Records /\ r.status = rec.status /\ r.done = rec.done /\ r.began = rec.began
        /\ r.by = rec.by /\ r.reset = rec.reset /\ r.removed = rec.removed
    BY <1>3 DEF Records
  <2>2. rec' = [r EXCEPT !.done = @ + 1]
    BY <1>1
  <2> HIDE DEF r
  <2> QED BY <1>3, <2>1, <2>2, OneMoreDone
<1>5. Earned(rec') /\ Honest(rec')
  BY <1>3, <1>4 DEF Earned, Honest
<1>6. ResetInv' /\ DockerTypeOK'
  BY <1>2, ResetInvStays DEF IInv, Typed, DockerTypeOK
<1> QED BY <1>2, <1>4, <1>5, <1>6, PhaseKeepsIInv DEF Phases, Returned

LEMMA MixedKeepsIInv ==
  ASSUME RunnerAssumption, IInv, Mixed
  PROVE  IInv'
<1>1. PICK c \in BOOLEAN, l \in BOOLEAN :
        rec' = [[rec EXCEPT !.callErrors = @ \/ c, !.errors = @ \/ l] EXCEPT !.done = @ + 1]
  BY DEF Mixed, Returns
<1>2. /\ step = "mixed" /\ step' = "footprint"
      /\ UNCHANGED <<run, todo, open, written, files, summary, engine, disk, recreate>>
  BY DEF Mixed, Returns, dockerVars
<1>3. rec \in Records /\ rec.status = "failed" /\ rec.done = 3 /\ Honest(rec)
  BY <1>2, InsideFacts DEF IInv, Typed, PhaseInv, Returned
<1>4. /\ rec' \in Records /\ rec'.status = "failed" /\ rec'.done = 4 /\ rec'.by = rec.by
      /\ rec'.reset = rec.reset /\ rec'.removed = rec.removed /\ rec'.began = rec.began
  <2> DEFINE r == [rec EXCEPT !.callErrors = @ \/ c, !.errors = @ \/ l]
  <2>1. /\ r \in Records /\ r.status = rec.status /\ r.done = rec.done /\ r.began = rec.began
        /\ r.by = rec.by /\ r.reset = rec.reset /\ r.removed = rec.removed
    BY <1>3 DEF Records
  <2>2. rec' = [r EXCEPT !.done = @ + 1]
    BY <1>1
  <2> HIDE DEF r
  <2> QED BY <1>3, <2>1, <2>2, OneMoreDone
<1>5. Earned(rec') /\ Honest(rec')
  BY <1>3, <1>4 DEF Earned, Honest
<1>6. ResetInv' /\ DockerTypeOK'
  BY <1>2, ResetInvStays DEF IInv, Typed, DockerTypeOK
<1> QED BY <1>2, <1>4, <1>5, <1>6, PhaseKeepsIInv DEF Phases, Returned

LEMMA FootprintKeepsIInv ==
  ASSUME RunnerAssumption, IInv, Footprint
  PROVE  IInv'
<1>1. rec' = [[rec EXCEPT !.status = Status(rec)] EXCEPT !.done = @ + 1]
  BY DEF Footprint, Returns
<1>2. /\ step = "footprint" /\ step' = "close"
      /\ UNCHANGED <<run, todo, open, written, files, summary, engine, disk, recreate>>
  BY DEF Footprint, Returns, dockerVars
<1>3. rec \in Records /\ rec.done = 4 /\ Honest(rec)
  BY <1>2, InsideFacts DEF IInv, Typed, PhaseInv, Returned
<1>4. Status(rec) \in {"ok", "partial"} /\ (Status(rec) = "ok" => ~rec.errors /\ ~rec.abandoned)
  BY DEF Status
<1>5. /\ rec' \in Records /\ rec'.status = Status(rec) /\ rec'.done = 5 /\ rec'.by = rec.by
      /\ rec'.reset = rec.reset /\ rec'.removed = rec.removed /\ rec'.began = rec.began
      /\ rec'.errors = rec.errors /\ rec'.abandoned = rec.abandoned
  <2> DEFINE r == [rec EXCEPT !.status = Status(rec)]
  <2>1. /\ r \in Records /\ r.status = Status(rec) /\ r.done = rec.done /\ r.began = rec.began
        /\ r.by = rec.by /\ r.reset = rec.reset /\ r.removed = rec.removed
        /\ r.errors = rec.errors /\ r.abandoned = rec.abandoned
    BY <1>3, <1>4 DEF Records
  <2>2. rec' = [r EXCEPT !.done = @ + 1]
    BY <1>1
  <2> HIDE DEF r
  <2> QED BY <1>3, <2>1, <2>2, OneMoreDone
<1>6. Earned(rec') /\ Honest(rec')
  BY <1>3, <1>4, <1>5 DEF Earned, Honest
<1>7. ResetInv' /\ DockerTypeOK'
  BY <1>2, ResetInvStays DEF IInv, Typed, DockerTypeOK
<1> QED BY <1>2, <1>4, <1>5, <1>6, <1>7, PhaseKeepsIInv DEF Phases, Returned

LEMMA RaisesKeepsIInv ==
  ASSUME RunnerAssumption, IInv, Raises
  PROVE  IInv'
<1>1. /\ step \in Phases /\ step' = "close"
      /\ rec' = [rec EXCEPT !.errors = TRUE, !.began = IF step = "load" THEN Began ELSE @]
      /\ UNCHANGED <<run, todo, open, written, files, summary>>
      /\ IF step = "load" THEN Soil ELSE UNCHANGED dockerVars
  BY DEF Raises, Phases
<1>2. rec \in Records /\ rec.status = "failed" /\ Honest(rec)
  BY <1>1, InsideFacts DEF IInv, Typed, PhaseInv, Returned, Phases
<1>3. /\ step = "load" => Began \in {"remote", "virgin", "fresh", "used"}
      /\ step = "load" /\ rec.reset => Began # "used" /\ (Data \in rec.removed => Began = "virgin")
  BY LoadMeets
<1>4. DockerTypeOK'
  BY <1>1, LoadMeets DEF IInv, Typed, DockerTypeOK, dockerVars
<1> HIDE DEF Began
<1>5. /\ rec' \in Records /\ rec'.status = "failed" /\ rec'.by = rec.by
      /\ rec'.reset = rec.reset /\ rec'.removed = rec.removed
      /\ rec'.began = IF step = "load" THEN Began ELSE rec.began
  BY <1>1, <1>2, <1>3 DEF Records
<1>6. Earned(rec') /\ Honest(rec')
  BY <1>2, <1>3, <1>5 DEF Earned, Honest
<1>7. ResetInv'
  BY <1>1, ResetInvStays
<1> QED BY <1>1, <1>4, <1>5, <1>6, <1>7, PhaseKeepsIInv DEF Phases

---------------------------------------------------------------------------
(* Files: a run begins, writes a record, and is over                       *)

\* A run with a new number: none of the files has it.
LEMMA StartKeepsIInv ==
  ASSUME RunnerAssumption, IInv, Start
  PROVE  IInv'
<1>0. run.number + 1 \in 1 .. MaxRuns
  BY DEF Start, IInv, Typed, Runs, RunnerAssumption
<1>1. PICK o \in Options[run.number + 1], id \in RunIds :
        /\ run' = [number |-> run.number + 1, id |-> id, restart |-> o.restart,
                   mixed |-> o.mixed, usable |-> o.usable]
        /\ todo' = o.usable
  BY DEF Start
<1>2. /\ step = "idle" /\ step' = "platform" /\ run.number < MaxRuns
      /\ UNCHANGED <<rec, open, written, files, summary, engine, disk, recreate>>
  BY DEF Start, dockerVars
<1>3. o.usable \in SUBSET Platforms /\ o.restart \in BOOLEAN /\ o.mixed \in BOOLEAN
  <2>1. Options[run.number + 1] \in
          SUBSET [usable : (SUBSET Platforms) \ {{}}, restart : BOOLEAN, mixed : BOOLEAN]
    BY <1>0 DEF RunnerAssumption
  <2> QED BY <1>1, <2>1
<1>4. run.number \in Nat /\ run.number + 1 \in 0 .. MaxRuns
  BY <1>2 DEF IInv, Typed, Runs, RunnerAssumption
<1>5. /\ run' \in Runs /\ run'.number = run.number + 1 /\ run'.id \in RunIds
      /\ run'.usable = todo'
  BY <1>1, <1>3, <1>4 DEF Runs
<1>6. Typed'
  BY <1>2, <1>5 DEF IInv, Typed, Steps, DockerTypeOK, Runs
<1>7. RecordInv'
  <2>1. AllRecords' = AllRecords
    BY <1>2 DEF AllRecords
  <2> QED BY <2>1 DEF IInv, RecordInv
<1>8. PlaceInv' /\ PhaseInv' /\ OpenInv' /\ ResetInv' /\ IdleInv'
  BY <1>2, <1>5 DEF IInv, PlaceInv, Inside, PhaseInv, Returned, OpenInv, Opened, ResetInv, IdleInv
<1>9. WrittenInv'
  <2>1. written' = {}
    BY <1>2 DEF IInv, IdleInv
  <2>2. \A i \in RunIds, p \in Platforms : File(i, p)' = File(i, p)
    BY <1>2 DEF File
  <2>3. \A i \in RunIds, p \in Platforms :
          File(i, p) # Nothing => File(i, p).by \in Nat /\ File(i, p).by <= run.number
    <3>1. \A r \in Records : r.by \in Nat
      BY DEF Records
    <3>2. files \in [RunIds -> [Platforms -> Records \cup {Nothing}]]
      BY DEF IInv, Typed
    <3>3. \A i \in RunIds, p \in Platforms : File(i, p) \in Records \cup {Nothing}
      BY <3>2 DEF File
    <3> QED BY <3>1, <3>3 DEF IInv, WrittenInv
  <2>4. \A i \in RunIds : summary[i] # Nothing => summary[i].by \in Nat /\ summary[i].by <= run.number
    BY DEF IInv, Typed, WrittenInv, Summaries
  <2>5. \A i \in RunIds, p \in Platforms :
          File(i, p)' # Nothing => File(i, p)'.by < run'.number
    BY <1>4, <1>5, <2>2, <2>3
  <2>6. \A i \in RunIds : summary'[i] # Nothing => summary'[i].by < run'.number
    BY <1>2, <1>4, <1>5, <2>4
  <2>7. /\ run'.number \in Nat /\ written' = run'.usable \ todo'
        /\ \A i \in RunIds, p \in Platforms : File(i, p)' # Nothing => File(i, p)'.by \in Nat
        /\ \A i \in RunIds : summary'[i] # Nothing => summary'[i].by \in Nat
    BY <1>2, <1>4, <1>5, <2>1, <2>2, <2>3, <2>4
  <2>8. (\A p \in written : File(run.id, p) # Nothing /\ File(run.id, p).by = run.number)'
    BY <2>1
  <2>9. \A i \in RunIds, p \in Platforms :
          File(i, p)' # Nothing /\ File(i, p)'.by = run'.number =>
            i = run'.id /\ p \in written' /\ File(i, p)'.status # "torn"
    BY <2>5, <2>7
  <2>10. \A i \in RunIds, p \in Platforms : File(i, p)' # Nothing => File(i, p)'.by <= run'.number
    BY <2>5, <2>7
  <2>11. \A i \in RunIds : summary'[i] # Nothing => summary'[i].by <= run'.number
    BY <2>6, <2>7
  <2> QED BY <2>6, <2>7, <2>8, <2>9, <2>10, <2>11 DEF WrittenInv
<1>10. ReportedRunIsWhole'
  <2>1. \A i \in RunIds : Users(i)' = Users(i)
    BY <1>2 DEF Users
  <2>2. ReportedRunIsWhole
    BY DEF IInv
  <2> QED BY <1>2, <2>1, <2>2 DEF ReportedRunIsWhole
<1> QED BY <1>6, <1>7, <1>8, <1>9, <1>10 DEF IInv

\* A file that the run going on has written under its id, over whatever was there, keeps
\* an earlier run of that id from passing for one that was used once.
LEMMA NewFileKeepsWhole ==
  ASSUME RunnerAssumption, IInv, step # "idle", NEW p \in Platforms, NEW r \in Records,
         r.by = run.number, files' = [files EXCEPT ![run.id][p] = r], summary' = summary
  PROVE  ReportedRunIsWhole'
<1>1. run.id \in RunIds /\ run.number \in Nat
  BY DEF IInv, Typed, Runs, PlaceInv
<1>2. files \in [RunIds -> [Platforms -> Records \cup {Nothing}]] /\ Nothing \notin Records
  BY DEF IInv, Typed, RunnerAssumption
<1>3. SUFFICES ASSUME NEW i \in RunIds, summary[i] # Nothing, Users(i)' \subseteq {summary[i].by},
                      NEW q \in Platforms
               PROVE  IF q \notin summary[i].skipped
                      THEN /\ q \in summary[i].platforms
                           /\ files'[i][q] # Nothing
                           /\ files'[i][q].status # "torn"
                      ELSE files'[i][q] = Nothing
  BY DEF ReportedRunIsWhole
<1>4. i # run.id
  <2> SUFFICES ASSUME i = run.id PROVE FALSE
    OBVIOUS
  <2>1. files'[i][p] = r /\ r # Nothing
    BY <1>1, <1>2
  <2>2. run.number \in Users(i)'
    BY <2>1 DEF Users
  <2>3. summary[i].by \in Nat /\ summary[i].by < run.number
    BY <1>3 DEF IInv, Typed, WrittenInv, Summaries
  <2> QED BY <1>1, <1>3, <2>2, <2>3
<1>5. files'[i] = files[i]
  BY <1>1, <1>2, <1>4
<1>6. Users(i)' = Users(i)
  BY <1>5 DEF Users
<1> QED BY <1>3, <1>5, <1>6 DEF IInv, ReportedRunIsWhole

LEMMA WriteKeepsIInv ==
  ASSUME RunnerAssumption, IInv, WriteRecord
  PROVE  IInv'
<1> DEFINE p == Current
<1>1. /\ step = "write" /\ step' = "platform"
      /\ files' = [files EXCEPT ![run.id][p] = rec]
      /\ written' = written \cup {p} /\ todo' = todo \ {p}
      /\ UNCHANGED <<run, rec, open, summary, engine, disk, recreate>>
  BY DEF WriteRecord, dockerVars
<1>2. /\ rec \in Records /\ Earned(rec) /\ Honest(rec) /\ rec.by = run.number
      /\ rec.status # "torn" /\ Nothing \notin Records
      /\ p \in todo /\ p \in Platforms /\ run.id \in RunIds /\ run.number \in Nat
      /\ todo \subseteq run.usable
  BY <1>1, InsideFacts DEF IInv, Typed, Runs, PlaceInv, PhaseInv, Inside, RunnerAssumption
<1> HIDE DEF p
<1>3. /\ files \in [RunIds -> [Platforms -> Records \cup {Nothing}]]
      /\ files'[run.id][p] = rec
      /\ \A i \in RunIds, q \in Platforms : i # run.id \/ q # p => files'[i][q] = files[i][q]
  BY <1>1, <1>2 DEF IInv, Typed
<1>4. Typed'
  <2>1. files' \in [RunIds -> [Platforms -> Records \cup {Nothing}]]
    BY <1>1, <1>2, <1>3
  <2> QED BY <1>1, <1>2, <2>1 DEF IInv, Typed, Steps, DockerTypeOK
<1>5. RecordInv'
  <2>1. rec' = rec
    BY <1>1
  <2>2. \A r \in AllRecords' : r \in AllRecords
    <3>1. \A i \in RunIds, q \in Platforms : files'[i][q] \in {rec, files[i][q]}
      BY <1>3
    <3> QED BY <2>1, <3>1 DEF AllRecords
  <2> QED BY <2>2 DEF IInv, RecordInv
<1>6. PlaceInv' /\ PhaseInv' /\ OpenInv' /\ ResetInv' /\ IdleInv'
  BY <1>1, <1>2 DEF IInv, PlaceInv, Inside, PhaseInv, Returned, OpenInv, Opened, ResetInv, IdleInv
<1>7. WrittenInv'
  <2>1. /\ written = run.usable \ todo
        /\ \A q \in written : File(run.id, q) # Nothing /\ File(run.id, q).by = run.number
        /\ \A i \in RunIds, q \in Platforms :
             File(i, q) # Nothing /\ File(i, q).by = run.number =>
               i = run.id /\ q \in written /\ File(i, q).status # "torn"
        /\ \A i \in RunIds : summary[i] # Nothing => summary[i].by < run.number
        /\ \A i \in RunIds, q \in Platforms : File(i, q) # Nothing => File(i, q).by <= run.number
        /\ \A i \in RunIds : summary[i] # Nothing => summary[i].by <= run.number
    BY <1>1 DEF IInv, WrittenInv
  <2>2. written \subseteq Platforms
    BY DEF IInv, Typed
  <2>3. written' = run.usable \ todo'
    BY <1>1, <1>2, <2>1
  <2>4. \A q \in written' : File(run.id, q)' # Nothing /\ File(run.id, q)'.by = run.number
    BY <1>1, <1>2, <1>3, <2>1, <2>2 DEF File
  <2>5. \A i \in RunIds, q \in Platforms :
          File(i, q)' # Nothing /\ File(i, q)'.by = run.number =>
            i = run.id /\ q \in written' /\ File(i, q)'.status # "torn"
    BY <1>1, <1>2, <1>3, <2>1 DEF File
  <2>6. \A i \in RunIds, q \in Platforms : File(i, q)' # Nothing => File(i, q)'.by <= run.number
    BY <1>2, <1>3, <2>1 DEF File
  <2> QED BY <1>1, <2>1, <2>3, <2>4, <2>5, <2>6 DEF WrittenInv
<1>8. ReportedRunIsWhole'
  BY <1>1, <1>2, NewFileKeepsWhole
<1> QED BY <1>4, <1>5, <1>6, <1>7, <1>8 DEF IInv

\* A process that ends leaves nothing but files.
LEMMA ExitKeepsIInv ==
  ASSUME RunnerAssumption, IInv, step # "idle", Exit,
         files' \in [RunIds -> [Platforms -> Records \cup {Nothing}]],
         summary' \in [RunIds -> Summaries \cup {Nothing}],
         \A i \in RunIds, p \in Platforms : files'[i][p] # Nothing =>
           files'[i][p].by <= run.number /\ Earned(files'[i][p]) /\ Honest(files'[i][p]),
         \A i \in RunIds : summary'[i] # Nothing => summary'[i].by <= run.number,
         ReportedRunIsWhole'
  PROVE  IInv'
<1>1. /\ step' = "idle" /\ todo' = {} /\ written' = {} /\ open' = {} /\ rec' = NewRecord(0)
      /\ recreate' = NoCall /\ engine' = engine /\ disk' = disk
      /\ run' = [NoRun EXCEPT !.number = run.number]
  BY DEF Exit
<1>2. run.number \in 0 .. MaxRuns /\ 0 \in 0 .. MaxRuns
  BY DEF IInv, Typed, Runs, RunnerAssumption
<1>3. run' \in Runs /\ run'.number = run.number /\ run'.usable = {}
  BY <1>1, <1>2 DEF NoRun, Runs
<1>4. DockerTypeOK'
  BY <1>1, NoCallTyped DEF IInv, Typed, DockerTypeOK
<1>5. Typed'
  BY <1>1, <1>2, <1>3, <1>4, NewRecordTyped DEF Typed, Steps
<1>6. RecordInv'
  <2> SUFFICES ASSUME NEW r \in AllRecords', r # Nothing PROVE Earned(r) /\ Honest(r)
    BY DEF RecordInv
  <2>1. CASE r = rec'
    BY <1>1, <1>2, <2>1, NewRecordTyped
  <2>2. CASE \E i \in RunIds, p \in Platforms : r = files'[i][p]
    BY <2>2
  <2> QED BY <2>1, <2>2 DEF AllRecords
<1>7. PlaceInv' /\ PhaseInv' /\ OpenInv' /\ ResetInv' /\ IdleInv'
  BY <1>1 DEF PlaceInv, Inside, PhaseInv, Returned, OpenInv, Opened, ResetInv, IdleInv
<1>8. WrittenInv'
  BY <1>1, <1>3 DEF WrittenInv, File
<1> QED BY <1>5, <1>6, <1>7, <1>8 DEF IInv

\* What is known of the files there are.
LEMMA FileFacts ==
  ASSUME RunnerAssumption, IInv
  PROVE  /\ files \in [RunIds -> [Platforms -> Records \cup {Nothing}]]
         /\ summary \in [RunIds -> Summaries \cup {Nothing}]
         /\ Nothing \notin Records /\ Nothing \notin Summaries
         /\ run.number \in 0 .. MaxRuns /\ run.number \in Nat
         /\ step # "idle" => run.id \in RunIds
         /\ \A i \in RunIds, p \in Platforms : files[i][p] # Nothing =>
              files[i][p].by <= run.number /\ Earned(files[i][p]) /\ Honest(files[i][p])
         /\ \A i \in RunIds : summary[i] # Nothing => summary[i].by <= run.number
<1>1. \A i \in RunIds, p \in Platforms : files[i][p] \in AllRecords
  BY DEF AllRecords
<1>2. \A i \in RunIds, p \in Platforms : files[i][p] # Nothing =>
        Earned(files[i][p]) /\ Honest(files[i][p])
  BY <1>1 DEF IInv, RecordInv
<1> QED BY <1>2 DEF IInv, Typed, Runs, PlaceInv, WrittenInv, File, RunnerAssumption, Summaries

LEMMA AbortKeepsIInv ==
  ASSUME RunnerAssumption, IInv, Abort
  PROVE  IInv'
<1>1. step # "idle" /\ Exit /\ files' = files /\ summary' = summary
  BY DEF Abort
<1>2. ReportedRunIsWhole'
  <2>1. \A i \in RunIds : Users(i)' = Users(i)
    BY <1>1 DEF Users
  <2>2. ReportedRunIsWhole
    BY DEF IInv
  <2> QED BY <1>1, <2>1, <2>2 DEF ReportedRunIsWhole
<1> QED BY <1>1, <1>2, FileFacts, ExitKeepsIInv

\* run.json is written when every usable platform has its record, and no other platform
\* has one of this run.
LEMMA SummaryKeepsIInv ==
  ASSUME RunnerAssumption, IInv, WriteSummary
  PROVE  IInv'
<1>1. /\ step = "platform" /\ todo = {} /\ Exit /\ files' = files
      /\ summary' = [summary EXCEPT ![run.id] = Summary(written)]
  BY DEF WriteSummary
<1>2. /\ run.id \in RunIds /\ run.number \in Nat
      /\ summary \in [RunIds -> Summaries \cup {Nothing}]
  BY <1>1, FileFacts
<1> DEFINE new == Summary(written)
<1>3. /\ new \in Summaries /\ new.by = run.number /\ new.platforms = written
      /\ new.skipped = Platforms \ run.usable
  BY <1>2 DEF Summary, Summaries, IInv, Typed
<1> HIDE DEF new
<1>4. /\ summary' \in [RunIds -> Summaries \cup {Nothing}]
      /\ summary'[run.id] = new
      /\ \A i \in RunIds : i # run.id => summary'[i] = summary[i]
  BY <1>1, <1>2, <1>3 DEF new
<1>5. \A i \in RunIds : summary'[i] # Nothing => summary'[i].by <= run.number
  BY <1>2, <1>3, <1>4, FileFacts
<1>6. written = run.usable
  BY <1>1 DEF IInv, WrittenInv
<1>7. ReportedRunIsWhole'
  <2> SUFFICES ASSUME NEW i \in RunIds, summary'[i] # Nothing,
                      Users(i)' \subseteq {summary'[i].by}, NEW q \in Platforms
               PROVE  IF q \notin summary'[i].skipped
                      THEN /\ q \in summary'[i].platforms
                           /\ files[i][q] # Nothing
                           /\ files[i][q].status # "torn"
                      ELSE files[i][q] = Nothing
    BY <1>1 DEF ReportedRunIsWhole
  <2>1. Users(i)' = Users(i)
    BY <1>1 DEF Users
  <2>2. CASE i # run.id
    <3>1. ReportedRunIsWhole
      BY DEF IInv
    <3> QED BY <2>1, <2>2, <3>1, <1>4 DEF ReportedRunIsWhole
  <2>3. CASE i = run.id
    <3>1. \A p \in Platforms : files[i][p] # Nothing => files[i][p].by = run.number
      <4> SUFFICES ASSUME NEW p \in Platforms, files[i][p] # Nothing
                   PROVE  files[i][p].by = run.number
        OBVIOUS
      <4>1. files[i][p].by \in Users(i)
        BY DEF Users
      <4> QED BY <2>1, <2>3, <4>1, <1>3, <1>4
    <3>2. \A p \in Platforms : files[i][p] # Nothing => p \in written /\ files[i][p].status # "torn"
      BY <1>1, <3>1 DEF IInv, WrittenInv, File
    <3>3. \A p \in written : files[i][p] # Nothing
      BY <1>1, <2>3 DEF IInv, WrittenInv, File
    <3> QED BY <2>3, <3>2, <3>3, <1>3, <1>4, <1>6
  <2> QED BY <2>2, <2>3
<1> QED BY <1>1, <1>4, <1>5, <1>7, FileFacts, ExitKeepsIInv

\* The kill may tear the file that is being written.
LEMMA CrashKeepsIInv ==
  ASSUME RunnerAssumption, IInv, Crash
  PROVE  IInv'
<1>1. step # "idle" /\ Exit
  BY DEF Crash
<1>2. CASE files' = files /\ summary' = summary
  <2>1. ReportedRunIsWhole'
    <3>1. \A i \in RunIds : Users(i)' = Users(i)
      BY <1>2 DEF Users
    <3>2. ReportedRunIsWhole
      BY DEF IInv
    <3> QED BY <1>2, <3>1, <3>2 DEF ReportedRunIsWhole
  <2> QED BY <1>1, <1>2, <2>1, FileFacts, ExitKeepsIInv
<1>3. CASE step = "write" /\ files' = [files EXCEPT ![run.id][Current] = Torn] /\ summary' = summary
  <2>1. Current \in Platforms /\ run.id \in RunIds /\ run.number \in 0 .. MaxRuns
    BY <1>1, <1>3, InsideFacts, FileFacts DEF Inside
  <2>2. Torn \in Records /\ Torn.by = run.number /\ Earned(Torn) /\ Honest(Torn)
    BY <2>1 DEF Torn, Records, Earned, Honest
  <2> HIDE DEF Torn
  <2>3. \A i \in RunIds, p \in Platforms : files'[i][p] \in {files[i][p], Torn}
    BY <1>3, <2>1, FileFacts
  <2>4. files' \in [RunIds -> [Platforms -> Records \cup {Nothing}]]
    BY <1>3, <2>1, <2>2, FileFacts
  <2>5. \A i \in RunIds, p \in Platforms : files'[i][p] # Nothing =>
          files'[i][p].by <= run.number /\ Earned(files'[i][p]) /\ Honest(files'[i][p])
    <3> SUFFICES ASSUME NEW i \in RunIds, NEW p \in Platforms, files'[i][p] # Nothing
                 PROVE  /\ files'[i][p].by <= run.number
                        /\ Earned(files'[i][p]) /\ Honest(files'[i][p])
      OBVIOUS
    <3>1. CASE files'[i][p] = files[i][p]
      BY <3>1, FileFacts
    <3>2. CASE files'[i][p] = Torn
      <4>1. Torn.by <= run.number
        BY <2>1, <2>2, FileFacts
      <4> QED BY <3>2, <4>1, <2>2
    <3> QED BY <2>3, <3>1, <3>2
  <2>6. ReportedRunIsWhole'
    BY <1>1, <1>3, <2>1, <2>2, NewFileKeepsWhole
  <2> QED BY <1>1, <1>3, <2>4, <2>5, <2>6, FileFacts, ExitKeepsIInv
<1>4. CASE files' = files /\ summary' = [summary EXCEPT ![run.id] = Nothing]
  <2>1. \A i \in RunIds : summary'[i] \in {summary[i], Nothing}
    BY <1>1, <1>4, FileFacts
  <2>2. summary' \in [RunIds -> Summaries \cup {Nothing}]
    BY <1>1, <1>4, FileFacts
  <2>3. ReportedRunIsWhole'
    <3>1. \A i \in RunIds : Users(i)' = Users(i)
      BY <1>4 DEF Users
    <3>2. ReportedRunIsWhole
      BY DEF IInv
    <3> QED BY <1>4, <2>1, <3>1, <3>2 DEF ReportedRunIsWhole
  <2> QED BY <1>1, <1>4, <2>1, <2>2, <2>3, FileFacts, ExitKeepsIInv
<1> QED BY <1>2, <1>3, <1>4 DEF Crash

---------------------------------------------------------------------------
(* The theorems                                                            *)

LEMMA StepKeepsIInv == ASSUME RunnerAssumption, IInv, [Next]_vars PROVE IInv'
<1>1. CASE Start
  BY <1>1, StartKeepsIInv
<1>2. CASE BeginPlatform \/ Reset \/ ResetDone \/ Build
  BY <1>2, BeginKeepsIInv, ResetKeepsIInv, ResetDoneKeepsIInv, BuildKeepsIInv
<1>3. CASE Connect \/ Load \/ Reads \/ Mixed \/ Footprint \/ Raises \/ Close
  BY <1>3, ConnectKeepsIInv, LoadKeepsIInv, ReadsKeepsIInv, MixedKeepsIInv, FootprintKeepsIInv,
     RaisesKeepsIInv, CloseKeepsIInv
<1>4. CASE WriteRecord \/ WriteSummary \/ Abort \/ Crash
  BY <1>4, WriteKeepsIInv, SummaryKeepsIInv, AbortKeepsIInv, CrashKeepsIInv
<1>5. CASE UNCHANGED vars
  <2>1. UNCHANGED <<step, run, todo, rec, open, written, files, summary, engine, disk, recreate>>
    BY <1>5 DEF vars, runnerVars, dockerVars
  <2>2. Typed' /\ PlaceInv' /\ PhaseInv' /\ IdleInv'
    BY <2>1 DEF IInv, Typed, DockerTypeOK, PlaceInv, PhaseInv, IdleInv
  <2>3. OpenInv' /\ ResetInv'
    BY <2>1, SameCurrent DEF IInv, OpenInv, ResetInv, Virgin
  <2>4. RecordInv' /\ WrittenInv'
    BY <2>1 DEF IInv, RecordInv, AllRecords, WrittenInv, File
  <2>5. ReportedRunIsWhole'
    <3>1. \A i \in RunIds : Users(i)' = Users(i)
      BY <2>1 DEF Users
    <3>2. ReportedRunIsWhole
      BY DEF IInv
    <3> QED BY <2>1, <3>1, <3>2 DEF ReportedRunIsWhole
  <2> QED BY <2>2, <2>3, <2>4, <2>5 DEF IInv
<1>6. CASE Finished
  BY <1>5, <1>6 DEF Finished
<1> QED BY <1>1, <1>2, <1>3, <1>4, <1>5, <1>6 DEF Next, Work

\* Whatever fails, hangs or is killed, in any number of runs, the bookkeeping of
\* run_all and run_platform is in order.
THEOREM RunnerInvariant == Spec => []IInv
<1>1. Init => IInv
  BY InitIInv, RunnerAssumption
<1>2. IInv /\ [Next]_vars => IInv'
  BY StepKeepsIInv, RunnerAssumption
<1> QED BY <1>1, <1>2, PTL DEF Spec

\* The variables of the runner and of docker have their types (runner.py, dockerctl.py).
THEOREM TypeCorrect == Spec => []TypeOK
<1>1. IInv => TypeOK
  BY RunnerAssumption DEF IInv, Typed, TypeOK, Runs, Steps, Summaries
<1> QED BY <1>1, RunnerInvariant, PTL

\* The reset a record tells of has been had; and if the volume with the store is among
\* those it lists as removed, whatever became of the others, it was gone before the
\* service came up and the load began on a new one (dockerctl.recreate, record["reset"]).
THEOREM ResetHonestHolds == Spec => []ResetHonest
<1>1. IInv => ResetHonest
  BY DEF IInv, RecordInv, ResetHonest, Honest
<1> QED BY <1>1, RunnerInvariant, PTL

\* The status of a record is the one its phases have earned (run_platform).
THEOREM StatusIsEarnedHolds == Spec => []StatusIsEarned
<1>1. IInv => StatusIsEarned
  BY DEF IInv, RecordInv, StatusIsEarned, Earned
<1> QED BY <1>1, RunnerInvariant, PTL

\* What a report is made of under a run id used once is whole, whenever the run before
\* was killed (run_all, load_run).
THEOREM ReportedRunIsWholeHolds == Spec => []ReportedRunIsWhole
<1>1. IInv => ReportedRunIsWhole
  BY DEF IInv
<1> QED BY <1>1, RunnerInvariant, PTL

\* The adapter of a platform is closed before the next one is built (the finally of
\* run_platform).
THEOREM OneAdapterOpenHolds == Spec => []OneAdapterOpen
<1>1. IInv => OneAdapterOpen
  <2> SUFFICES ASSUME IInv PROVE OneAdapterOpen
    OBVIOUS
  <2>1. open = {} \/ open = {Current}
    BY DEF IInv, OpenInv
  <2>2. Cardinality(open) <= 1
    <3>1. Cardinality({}) = 0
      BY FS_EmptySet
    <3>2. Cardinality({Current}) = 1
      BY FS_Singleton
    <3>3. Cardinality(open) = 0 \/ Cardinality(open) = 1
      BY <2>1, <3>1, <3>2
    <3> QED BY <3>3
  <2>3. step \in {"platform", "reset", "build", "write"} => open = {}
    BY DEF IInv, OpenInv, Opened
  <2> QED BY <2>2, <2>3 DEF OneAdapterOpen
<1> QED BY <1>1, RunnerInvariant, PTL

---------------------------------------------------------------------------
(* Progress                                                                *)

\* The order of the steps of run_platform and of recreate.
StepOrder == [platform |-> 0, reset |-> 1, build |-> 2, connect |-> 3, load |-> 4, reads |-> 5,
              mixed |-> 6, footprint |-> 7, close |-> 8, write |-> 9]
CallOrder == [available |-> 1, rm |-> 2, volumes |-> 3, wait |-> 4,
              returned |-> 5, unavailable |-> 5, expired |-> 5]

\* A platform is finished, or run_platform has got further with it, or recreate has, or its
\* loop over the volumes.
PlatformDone == todo' = todo \ {Current} /\ Cardinality(todo') = Cardinality(todo) - 1
StepsOn == todo' = todo /\ StepOrder[step'] > StepOrder[step]
CallsOn == /\ todo' = todo /\ step = "reset" /\ step' = step
           /\ \/ CallOrder[recreate.at'] > CallOrder[recreate.at]
              \/ /\ recreate.at' = recreate.at
                 /\ Cardinality(recreate.left') = Cardinality(recreate.left) - 1

RunGoesOn ==
  [][step # "idle" /\ step' # "idle" => run' = run /\ (PlatformDone \/ StepsOn \/ CallsOn)]_vars

\* Every step of a run, also one in which a phase raises or docker hangs, brings it closer to
\* its end: no platform is begun twice, no phase, docker command or volume repeated.  It is what
\* RunEnds rests on; that a step can be taken is what no deadlock means.
THEOREM RunGoesOnHolds == Spec => RunGoesOn
<1>1. IInv /\ [Next]_vars =>
        [step # "idle" /\ step' # "idle" =>
           run' = run /\ (PlatformDone \/ StepsOn \/ CallsOn)]_vars
  <2> SUFFICES ASSUME IInv, Next, step # "idle", step' # "idle"
               PROVE  run' = run /\ (PlatformDone \/ StepsOn \/ CallsOn)
    OBVIOUS
  <2>0. Work /\ run' = run
    BY DEF Next, Start, Finished, Crash, Exit, Work, BeginPlatform, WriteRecord, WriteSummary,
           Reset, ResetDone, Abort, Build, Connect, Load, Reads, Mixed, Footprint, Raises, Close,
           Returns, runnerVars
  <2>1. CASE WriteRecord
    <3>1. Current \in todo
      BY <2>1, InsideFacts, RunnerAssumption DEF WriteRecord, Inside
    <3>2. IsFiniteSet(todo)
      BY RunnerAssumption, FS_Subset DEF IInv, Typed, Runs
    <3>3. todo' = todo \ {Current}
      BY <2>1 DEF WriteRecord
    <3>4. Cardinality(todo') = Cardinality(todo) - 1
      BY <3>1, <3>2, <3>3, FS_RemoveElement
    <3> QED BY <2>0, <3>3, <3>4 DEF PlatformDone
  <2>2. CASE Reset
    <3>1. step = "reset" /\ UNCHANGED <<step, todo>> /\ recreate.at \notin Ended
          /\ RecreateStep(Current) /\ recreate \in Calls
      BY <2>2 DEF Reset, runnerVars, IInv, Typed, DockerTypeOK
    <3>2. CASE RemoveVolume(Current)
      <4>1. PICK v \in recreate.left : Tried(v, {v}) \/ Tried(v, {})
        BY <3>2 DEF RemoveVolume
      <4>2. recreate.at' = recreate.at /\ recreate.left' = recreate.left \ {v}
        BY <3>1, <4>1 DEF Tried, Calls
      <4>3. IsFiniteSet(recreate.left)
        BY <3>1, DockerAssumption, FS_Subset DEF Calls
      <4>4. Cardinality(recreate.left') = Cardinality(recreate.left) - 1
        BY <4>1, <4>2, <4>3, FS_RemoveElement
      <4> QED BY <2>0, <3>1, <4>2, <4>4 DEF CallsOn
    <3>3. CASE ~ RemoveVolume(Current)
      <4>1. recreate.at \in {"available", "rm", "volumes", "wait"}
        BY <3>1, <3>3 DEF RecreateStep, Unavailable, Expire, ListVolumes, RemoveContainer,
                    Up, AllTried, Wait, At, Calls
      <4>2. \/ recreate.at' \in Ended
            \/ recreate.at = "available" /\ recreate.at' = "rm"
            \/ recreate.at = "rm" /\ recreate.at' = "volumes"
            \/ recreate.at = "volumes" /\ recreate.at' = "wait"
        BY <3>1, <3>3 DEF RecreateStep, Unavailable, Expire, ListVolumes, RemoveContainer,
                    Up, AllTried, Wait, At, Goto, Ended, Calls
      <4>3. CallOrder[recreate.at'] > CallOrder[recreate.at]
        BY <4>1, <4>2 DEF CallOrder, Ended
      <4> QED BY <2>0, <3>1, <4>3 DEF CallsOn
    <3> QED BY <3>2, <3>3
  <2>3. CASE Work /\ ~ (WriteRecord \/ Reset)
    <3>1. /\ todo' = todo
          /\ \/ step = "platform" /\ step' \in {"reset", "build"}
             \/ step = "reset" /\ step' = "build"
             \/ step = "build" /\ step' = "connect"
             \/ step = "connect" /\ step' \in {"load", "close"}
             \/ step = "load" /\ step' \in {"reads", "close"}
             \/ step = "reads" /\ step' \in {"mixed", "close"}
             \/ step = "mixed" /\ step' \in {"footprint", "close"}
             \/ step = "footprint" /\ step' = "close"
             \/ step = "close" /\ step' = "write"
      BY <2>3 DEF Work, BeginPlatform, WriteSummary, Exit, ResetDone, Abort, Build, Connect,
           Load, Reads, Mixed, Footprint, Raises, Close, Returns
    <3> QED BY <2>0, <3>1 DEF StepsOn, StepOrder
  <2> QED BY <2>0, <2>1, <2>2, <2>3
<1> QED BY <1>1, RunnerInvariant, PTL DEF Spec, RunGoesOn

\* A platform's container, volume and records, under all run ids, are as they were.
Untouched(q) ==
  /\ q \in Local => engine'[q] = engine[q] /\ disk'[q] = disk[q]
  /\ \A i \in RunIds : files'[i][q] = files[i][q]

OthersKept == [][(step \in Inside) => \A q \in Platforms \ {Current} : Untouched(q)]_vars

\* Whatever is done for a platform, resetting it, loading it, writing its record, being
\* killed half way, no other platform's container, volume or record is touched: a reset
\* cannot cost a platform the data it is about to be measured on (recreate, run_all).
THEOREM OthersKeptHolds == Spec => OthersKept
<1>1. IInv /\ [Next]_vars =>
        [(step \in Inside) => \A q \in Platforms \ {Current} : Untouched(q)]_vars
  <2> SUFFICES ASSUME IInv, Next, step \in Inside, NEW q \in Platforms \ {Current}
               PROVE  Untouched(q)
    OBVIOUS
  <2>1. /\ engine \in [Local -> {"absent", "fresh", "used"}]
        /\ disk \in [Local -> {"none", "clean", "dirty"}]
        /\ files \in [RunIds -> [Platforms -> Records \cup {Nothing}]]
        /\ run.id \in RunIds /\ Current \in Platforms
    BY InsideFacts, RunnerAssumption DEF IInv, Typed, DockerTypeOK, PlaceInv, Inside
  <2>2. ASSUME q \in Local PROVE engine'[q] = engine[q] /\ disk'[q] = disk[q]
    <3>1. CASE Reset
      <4>1. \/ UNCHANGED <<engine, disk>>
            \/ engine' = Removed(Current) /\ disk' = disk
            \/ (\E v \in recreate.left : disk' = Wiped(Current, v)) /\ engine' = engine
            \/ Started(Current)
        BY <3>1 DEF Reset, RecreateStep, Unavailable, Expire, ListVolumes, RemoveContainer,
                    RemoveVolume, Up, Wait
      <4> QED BY <2>1, <2>2, <4>1 DEF Removed, Wiped, Started
    <3>2. CASE Load \/ Raises
      <4>1. Soil \/ UNCHANGED dockerVars
        BY <3>2 DEF Load, Raises
      <4> QED BY <2>1, <2>2, <4>1 DEF Soil, dockerVars
    <3>3. CASE UNCHANGED <<engine, disk>>
      BY <3>3
    <3> QED BY <3>1, <3>2, <3>3 DEF Next, Start, Work, BeginPlatform, WriteRecord, WriteSummary,
           Exit, ResetDone, Abort, Build, Connect, Reads, Mixed, Footprint, Close, Crash,
           Finished, vars, dockerVars, Inside
  <2>3. ASSUME NEW i \in RunIds PROVE files'[i][q] = files[i][q]
    <3>1. CASE WriteRecord \/ Crash
      <4>1. files' \in {files, [files EXCEPT ![run.id][Current] = rec],
                        [files EXCEPT ![run.id][Current] = Torn]}
        BY <3>1 DEF WriteRecord, Crash
      <4> QED BY <2>1, <4>1
    <3>2. CASE files' = files
      BY <3>2
    <3> QED BY <3>1, <3>2 DEF Next, Start, Work, BeginPlatform, WriteSummary, Reset, ResetDone,
           Abort, Build, Connect, Load, Reads, Mixed, Footprint, Raises, Close, Returns, Finished,
           vars, runnerVars
  <2> QED BY <2>2, <2>3 DEF Untouched
<1> QED BY <1>1, RunnerInvariant, PTL DEF Spec, OthersKept
=============================================================================
