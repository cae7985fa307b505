------------------------------- MODULE Runner -------------------------------
(***************************************************************************)
(* `graphbench run`: run_all takes the usable platforms one after another; *)
(* run_platform resets the container, builds the adapter, connects, loads, *)
(* runs the read and the mixed workloads, takes the footprint and derives  *)
(* the status; run_all writes each platform's record as it comes, and      *)
(* run.json at the end.  A run may be killed anywhere, and a later one may *)
(* use the same run id.                                                    *)
(***************************************************************************)
EXTENDS Dockerctl, FiniteSets, FiniteSetsExt

CONSTANTS Platforms,  \* the platforms, numbered in the order they are run
          RunIds,     \* values of --run-id
          Options,    \* the command lines, by run: usable platforms, restart, mixed
          MaxRuns,    \* bound: runs started
          Nothing     \* a file that does not exist

\* What a record holds, see NewRecord.
Records ==
  [by : 0 .. MaxRuns, status : {"failed", "partial", "ok", "torn"}, errors : BOOLEAN,
   abandoned : BOOLEAN, callErrors : BOOLEAN, reset : BOOLEAN, removed : SUBSET Volumes,
   began : {"remote", "virgin", "fresh", "used"}, done : 0 .. 5]

ASSUME RunnerAssumption ==
  /\ Platforms \subseteq Nat
  /\ IsFiniteSet(Platforms)
  /\ Local \subseteq Platforms
  /\ Options \in [1 .. MaxRuns ->
                  SUBSET [usable : (SUBSET Platforms) \ {{}}, restart : BOOLEAN, mixed : BOOLEAN]]
  /\ MaxRuns \in Nat
  /\ Nothing \notin Records \cup [by : Nat, platforms : SUBSET Platforms,
                                  skipped : SUBSET Platforms]

VARIABLES
  step,     \* where run_platform or run_all is; "idle" when no run is going on
  run,      \* the run going on: its number, id, platforms and options
  todo,     \* the platforms it has yet to finish
  rec,      \* the record of the current platform
  open,     \* the platforms whose adapter is connected and not closed
  written,  \* the platforms in summary["platforms"]
  files,    \* per run id and platform: the record in results/<id>/<platform>.json
  summary   \* per run id: run.json

runnerVars == <<step, run, todo, rec, open, written, files, summary>>
vars == <<dockerVars, runnerVars>>

\* Definitions whose name begins with Slip are the next definition (or the one after)
\* with a mistake in it, as in ReadWorkload.

\* errors is record["errors"], callErrors the errors in the results of the workloads;
\* removed is volumes_removed; began is what the local store was when load() began; done
\* counts the phases connect, load, reads, mixed, footprint that have returned.
NewRecord(n) ==
  [by |-> n, status |-> "failed", errors |-> FALSE, abandoned |-> FALSE,
   callErrors |-> FALSE, reset |-> FALSE, removed |-> {}, began |-> "remote", done |-> 0]

NoRun == [number |-> 0, id |-> Nothing, restart |-> FALSE, mixed |-> FALSE, usable |-> {}]

\* The process is gone, and its variables with it.
Exit ==
  /\ step' = "idle"
  /\ run' = [NoRun EXCEPT !.number = run.number]
  /\ todo' = {} /\ written' = {} /\ open' = {}
  /\ rec' = NewRecord(0)
  /\ recreate' = NoCall
  /\ UNCHANGED <<engine, disk>>

Current == CHOOSE p \in todo : \A q \in todo : p <= q

Init ==
  /\ DockerInit
  /\ step = "idle"
  /\ run = NoRun
  /\ todo = {}
  /\ rec = NewRecord(0)
  /\ open = {}
  /\ written = {}
  /\ files = [i \in RunIds |-> [p \in Platforms |-> Nothing]]
  /\ summary = [i \in RunIds |-> Nothing]

---------------------------------------------------------------------------
(* run_all                                                                 *)

\* A new process: usable platforms, --run-id, --no-reset and --skip-mixed.
Start ==
  /\ step = "idle"
  /\ run.number < MaxRuns
  /\ \E o \in Options[run.number + 1], id \in RunIds :
       /\ run' = [number |-> run.number + 1, id |-> id, restart |-> o.restart,
                  mixed |-> o.mixed, usable |-> o.usable]
       /\ todo' = o.usable
  /\ step' = "platform"
  /\ UNCHANGED <<rec, open, written, files, summary, dockerVars>>

SlipBeginPlatform ==  \* one record, made when the run begins
  /\ step = "platform"
  /\ todo # {}
  /\ rec' = [rec EXCEPT !.by = run.number]
  /\ IF run.restart /\ Current \in Local
     THEN step' = "reset" /\ recreate' = [NoCall EXCEPT !.at = "available"]
     ELSE step' = "build" /\ recreate' = NoCall
  /\ UNCHANGED <<run, todo, open, written, files, summary, engine, disk>>

\* run_platform begins: with a reset, or straight with the adapter.
BeginPlatform ==
  /\ step = "platform"
  /\ todo # {}
  /\ rec' = NewRecord(run.number)
  /\ IF run.restart /\ Current \in Local
     THEN step' = "reset" /\ recreate' = [NoCall EXCEPT !.at = "available"]
     ELSE step' = "build" /\ recreate' = NoCall
  /\ UNCHANGED <<run, todo, open, written, files, summary, engine, disk>>

\* The record is written as soon as run_platform has returned it.
WriteRecord ==
  /\ step = "write"
  /\ files' = [files EXCEPT ![run.id][Current] = rec]
  /\ written' = written \cup {Current}
  /\ todo' = todo \ {Current}
  /\ step' = "platform"
  /\ UNCHANGED <<run, rec, open, summary, dockerVars>>

\* run.json: the platforms run, and those skipped because they are not usable.
Summary(platforms) ==
  [by |-> run.number, platforms |-> platforms, skipped |-> Platforms \ run.usable]

SlipWriteSummary ==  \* run.json is written first, to be filled in by the end
  /\ step = "platform"
  /\ summary' = [summary EXCEPT ![run.id] = Summary(run.usable)]
  /\ IF todo = {} THEN Exit
     ELSE step' = "platform" /\ UNCHANGED <<run, todo, rec, open, written, dockerVars>>
  /\ UNCHANGED files

\* verify.compare reads the records, and run.json is written last.
WriteSummary ==
  /\ step = "platform"
  /\ todo = {}
  /\ summary' = [summary EXCEPT ![run.id] = Summary(written)]
  /\ Exit
  /\ UNCHANGED files

---------------------------------------------------------------------------
(* run_platform                                                            *)

Reset ==
  /\ step = "reset"
  /\ recreate.at \notin Ended
  /\ RecreateStep(Current)
  /\ UNCHANGED runnerVars

SlipResetDone ==  \* DockerUnavailable is left to whoever catches it
  /\ step = "reset"
  /\ At("returned")
  /\ rec' = [rec EXCEPT !.reset = TRUE, !.removed = recreate.removed]
  /\ step' = "build"
  /\ recreate' = NoCall
  /\ UNCHANGED <<run, todo, open, written, files, summary, engine, disk>>

\* The outcome of recreate: a reset, or an error that does not stop the platform.
ResetDone ==
  /\ step = "reset"
  /\ recreate.at \in {"returned", "unavailable"}
  /\ rec' = IF At("returned") THEN [rec EXCEPT !.reset = TRUE, !.removed = recreate.removed]
            ELSE [rec EXCEPT !.errors = TRUE]
  /\ step' = "build"
  /\ recreate' = NoCall
  /\ UNCHANGED <<run, todo, open, written, files, summary, engine, disk>>

\* TimeoutExpired from docker, or an exception of adapters.build, ends the run.
Abort ==
  /\ \/ step = "reset" /\ At("expired")
     \/ step = "build"
  /\ Exit
  /\ UNCHANGED <<files, summary>>

Build ==
  /\ step = "build"
  /\ step' = "connect"
  /\ open' = open \cup {Current}
  /\ UNCHANGED <<run, todo, rec, written, files, summary, dockerVars>>

\* A phase inside the try block returns, and the next one begins.
Returns(phase, next, r) ==
  /\ step = phase
  /\ rec' = [r EXCEPT !.done = @ + 1]
  /\ step' = next
  /\ UNCHANGED <<run, todo, open, written, files, summary>>

Connect ==
  /\ step = "connect"
  /\ Current \in Local => engine[Current] # "absent"
  /\ Returns("connect", "load", rec)
  /\ UNCHANGED dockerVars

\* From the first statement of load() on, the store is no longer what it was.
Began == IF Current \notin Local THEN "remote"
         ELSE IF engine[Current] = "fresh" /\ disk[Current] = "clean" THEN "virgin"
         ELSE engine[Current]

Soil == IF Current \in Local
        THEN /\ engine' = [engine EXCEPT ![Current] = "used"]
             /\ disk' = [disk EXCEPT ![Current] = "dirty"]
             /\ UNCHANGED recreate
        ELSE UNCHANGED dockerVars

Load ==
  /\ \E errors \in BOOLEAN :
       Returns("load", "reads", [rec EXCEPT !.began = Began, !.errors = @ \/ errors])
  /\ Soil

\* Errors of the read workloads stay in their results; so do those of the clients
\* of the mixed workload, unlike the levels that raised.
Reads ==
  /\ \E callErrors, abandoned \in BOOLEAN :
       /\ abandoned => callErrors
       /\ Returns("reads", "mixed",
                  [rec EXCEPT !.callErrors = callErrors, !.abandoned = abandoned])
  /\ UNCHANGED dockerVars

Mixed ==
  /\ \E callErrors, levelErrors \in IF run.mixed THEN BOOLEAN ELSE {FALSE} :
       Returns("mixed", "footprint",
               [rec EXCEPT !.callErrors = @ \/ callErrors, !.errors = @ \/ levelErrors])
  /\ UNCHANGED dockerVars

SlipStatus(r) == IF r.abandoned THEN "partial" ELSE "ok"  \* load errors forgotten

Status(r) == IF r.abandoned \/ r.errors THEN "partial" ELSE "ok"

Footprint ==
  /\ Returns("footprint", "close", [rec EXCEPT !.status = Status(rec)])
  /\ UNCHANGED dockerVars

SlipRaises ==  \* the exception passes the close by
  /\ step \in {"connect", "load", "reads", "mixed", "footprint"}
  /\ rec' = [rec EXCEPT !.errors = TRUE]
  /\ IF step = "load" THEN Soil ELSE UNCHANGED dockerVars
  /\ step' = "write"
  /\ UNCHANGED <<run, todo, open, written, files, summary>>

\* Any of them raises: the record keeps its status "failed" and the adapter is
\* closed like in the other case.
Raises ==
  /\ step \in {"connect", "load", "reads", "mixed", "footprint"}
  /\ rec' = [rec EXCEPT !.errors = TRUE, !.began = IF step = "load" THEN Began ELSE @]
  /\ IF step = "load" THEN Soil ELSE UNCHANGED dockerVars
  /\ step' = "close"
  /\ UNCHANGED <<run, todo, open, written, files, summary>>

Close ==
  /\ step = "close"
  /\ open' = open \ {Current}
  /\ step' = "write"
  /\ UNCHANGED <<run, todo, rec, written, files, summary, dockerVars>>

---------------------------------------------------------------------------
\* The process dies: nothing of it remains but files, containers and volumes.  A
\* record being written may be left torn, and so may run.json, which no report can
\* then be made from.
Torn == [by |-> run.number, status |-> "torn", errors |-> TRUE, abandoned |-> TRUE,
         callErrors |-> TRUE, reset |-> FALSE, removed |-> {},
         began |-> "remote", done |-> 0]

Crash ==
  /\ step # "idle"
  /\ files' \in {files} \cup (IF step = "write"
                              THEN {[files EXCEPT ![run.id][Current] = Torn]} ELSE {})
  /\ summary' \in {summary} \cup (IF step = "platform" /\ todo = {}
                                  THEN {[summary EXCEPT ![run.id] = Nothing]} ELSE {})
  /\ Exit

Work == \/ BeginPlatform \/ WriteRecord \/ WriteSummary
        \/ Reset \/ ResetDone \/ Abort \/ Build
        \/ Connect \/ Load \/ Reads \/ Mixed \/ Footprint \/ Raises \/ Close

Finished == step = "idle" /\ run.number = MaxRuns /\ UNCHANGED vars

Next == Start \/ Work \/ Crash \/ Finished

\* Every phase returns or raises: the read workloads by their ceilings (see
\* ReadWorkload), docker by its timeouts, load as in Load; the rest is trusted to.
Spec == Init /\ [][Next]_vars /\ WF_vars(Work)

---------------------------------------------------------------------------
(* Properties.                                                             *)

TypeOK ==
  /\ DockerTypeOK
  /\ step \in {"idle", "platform", "reset", "build", "connect", "load", "reads", "mixed",
               "footprint", "close", "write"}
  /\ run.number \in 0 .. MaxRuns /\ run.id \in RunIds \cup {Nothing}
  /\ todo \subseteq run.usable /\ run.usable \subseteq Platforms
  /\ rec \in Records
  /\ open \subseteq Platforms
  /\ written \subseteq Platforms
  /\ \A i \in RunIds, p \in Platforms : files[i][p] = Nothing \/ files[i][p] \in Records
  /\ \A i \in RunIds : summary[i] = Nothing \/ summary[i].platforms \subseteq Platforms

AllRecords == {rec} \cup {files[i][p] : i \in RunIds, p \in Platforms}

\* What a reset that succeeded guarantees: the load met a newly started engine; and a
\* virgin store, if the volume with the store is among those listed as removed, as it is
\* when the list was complete and each of it was removed.  That a volume was removed, or
\* two of three, promises nothing (dockerctl.recreate).
ResetHonest ==
  \A r \in AllRecords \ {Nothing} :
    r.reset /\ r.began # "remote" =>
      /\ r.began # "used"
      /\ Data \in r.removed => r.began = "virgin"

\* A status other than "failed" is only given to a platform whose phases all returned,
\* and "ok" to none whose reset, load or mixed levels recorded an error or that
\* abandoned a workload.
StatusIsEarned ==
  \A r \in AllRecords \ {Nothing} :
    /\ r.status \in {"ok", "partial"} => r.done = 5
    /\ r.status = "ok" => ~ r.errors /\ ~ r.abandoned

\* What the report reads under a run id that was used once: run.json is there only
\* if every usable platform has its record, whole and written by that run; a run that
\* was killed or that raised is not reported.
Users(i) == {files[i][p].by : p \in {q \in Platforms : files[i][q] # Nothing}}

ReportedRunIsWhole ==
  \A i \in RunIds : summary[i] # Nothing /\ Users(i) \subseteq {summary[i].by} =>
    \A p \in Platforms :
      IF p \notin summary[i].skipped
      THEN p \in summary[i].platforms /\ files[i][p] # Nothing /\ files[i][p].status # "torn"
      ELSE files[i][p] = Nothing

\* Two adapters are never open at the same time, whatever failed: an embedded engine
\* holds a lock on its store, and the others hold memory on the client.
OneAdapterOpen ==
  /\ Cardinality(open) <= 1
  /\ step \in {"platform", "reset", "build", "write"} => open = {}

\* A run comes to its end: one platform's failure never blocks the rest.
RunEnds == step # "idle" ~> step = "idle"

---------------------------------------------------------------------------
(* What comments say, and the code does not do.                            *)

\* '"partial" rather than "ok" whenever anything was abandoned or errored'
\* (runner.py): errors of single calls count as well.
OkMeansNothingErrored ==
  \A r \in AllRecords \ {Nothing} : r.status = "ok" => ~ r.callErrors

\* "Every engine then begins its load against a genuinely empty store" (dockerctl.py).
ResetMeansVirgin ==
  \A r \in AllRecords \ {Nothing} : r.reset => r.began \in {"remote", "virgin"}
===========================================================================
