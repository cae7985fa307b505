------------------------------ MODULE Calibrate ------------------------------
(***************************************************************************)
(* graphbench calibrate on one platform: a load at every batch size, each  *)
(* repeated, every one after a reset if the platform is a container; the   *)
(* report is written when all are done, and lost with the sweep if not.    *)
(***************************************************************************)
EXTENDS Load

CONSTANTS Sizes,    \* --batch-sizes, in the order they are tried
          Repeats   \* --repeats

ASSUME CalibrateAssumption ==
  /\ Sizes \in Seq(BatchSizes)
  /\ Repeats \in Nat \ {0}

VARIABLES
  contained,  \* the platform has a container and a service
  done,       \* the attempts so far
  sweep       \* running; then json, and written; or lost

sweepVars == <<contained, done, sweep>>
vars == <<loadVars, sweepVars>>

Attempts == Len(Sizes) * Repeats
SizeOf(n) == Sizes[((n - 1) \div Repeats) + 1]

Init ==
  /\ LoadInit
  /\ contained \in BOOLEAN /\ (kind = "kuzu" => ~contained)
  /\ done = <<>>
  /\ sweep = "running"

\* An attempt as the report has it.  whole, which it has not: whether the graph was
\* in the store.  A rate is None, and not a number, if the phase counted no row.
Attempt(verdict) ==
  [size |-> SizeOf(Len(done) + 1), verdict |-> verdict, whole |-> Whole,
   rates |-> rows.nodes > 0 /\ rows.edges > 0]

Ready == sweep = "running" /\ phase = "idle" /\ Len(done) < Attempts

\* recreate: the store is a virgin one, or on the volume that could not be removed.
Recreated == \/ contained /\ Emptied /\ indexes' = {}
             \/ UNCHANGED store

BeginAttempt ==
  /\ Ready
  /\ Recreated
  /\ Begin(SizeOf(Len(done) + 1))
  /\ UNCHANGED sweepVars

\* Docker is not available, or connect raises.
AttemptFails ==
  /\ Ready
  /\ Recreated
  /\ done' = Append(done, Attempt("error"))
  /\ UNCHANGED <<given, phase, session, batch, sent, form, counts, contained, sweep>>

LoadStep == sweep = "running" /\ Step /\ UNCHANGED sweepVars

SlipVerdict ==  \* no batch failed outright
  IF phase = "raised" THEN "error"
  ELSE IF errors.edges = 0 THEN "complete" ELSE "partial"

Verdict ==
  IF phase = "raised" THEN "error" ELSE IF Complete THEN "complete" ELSE "partial"

\* Whatever load() raised is the error of this attempt; the adapter is closed.
AttemptEnds ==
  /\ sweep = "running" /\ phase \in {"loaded", "raised"}
  /\ done' = Append(done, Attempt(Verdict))
  /\ phase' = "idle"
  /\ UNCHANGED <<given, session, batch, store, sent, form, counts, contained, sweep>>

\* A docker command that expires, an adapter that cannot be built, or Ctrl-C: the
\* attempts are only in memory.
SweepLost ==
  /\ Ready
  /\ sweep' = "lost"
  /\ UNCHANGED <<loadVars, contained, done>>

WriteJson ==
  /\ sweep = "running" /\ phase = "idle" /\ Len(done) = Attempts
  /\ sweep' = "json"
  /\ UNCHANGED <<loadVars, contained, done>>

\* CALIBRATION.md formats both rates of every attempt that is not an error: None
\* raises, after the JSON was written.
WriteMarkdown ==
  /\ sweep = "json"
  /\ sweep' = IF \E n \in 1 .. Len(done) : done[n].verdict # "error" /\ ~done[n].rates
              THEN "lost" ELSE "written"
  /\ UNCHANGED <<loadVars, contained, done>>

SweepStep == \/ BeginAttempt \/ AttemptFails \/ LoadStep \/ AttemptEnds
             \/ WriteJson \/ WriteMarkdown

Finished == sweep \in {"written", "lost"} /\ UNCHANGED vars

Next == SweepStep \/ SweepLost \/ Finished

\* Every statement is answered or raises: the driver notices a dead connection.
Spec == Init /\ [][Next]_vars /\ WF_vars(SweepStep)

---------------------------------------------------------------------------
(* Properties.                                                             *)

\* The report has one attempt for each batch size and repeat, in their order, and one
\* that it calls complete had the whole graph in the store, whatever the attempts
\* before it left there.
SweepReported ==
  sweep \in {"json", "written"} =>
    /\ Len(done) = Attempts
    /\ \A n \in 1 .. Attempts :
         /\ done[n].size = SizeOf(n)
         /\ done[n].verdict = "complete" => done[n].whole

\* The adaptive wipe cannot go on for ever: an engine that keeps running out of
\* memory is given up at the floor, and every other failure at once; so the sweep ends.
SweepEnds == <>(sweep \in {"written", "lost"})
==============================================================================
