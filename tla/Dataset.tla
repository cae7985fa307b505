------------------------------- MODULE Dataset -------------------------------
(***************************************************************************)
(* graphbench dataset fetch and prepare for one dataset: the raw file is   *)
(* cached, its digest compared with the registry's, and the four prepared  *)
(* files are written one after another over those of an earlier command.   *)
(* A command may be killed anywhere; the dataset may be published again.   *)
(***************************************************************************)
EXTENDS Naturals, Sequences

CONSTANTS Versions,    \* what has been or will be published at the url
          Pins,        \* versions whose digest the registry may hold; NoPin for ""
          NoPin,
          Blank,       \* the version that a download of nothing passes for: no edges
          Seeds,       \* values of --seed
          MaxCommands, \* bound: dataset commands
          Nothing      \* a file that does not exist

Preparations == [version : Versions \cup {Blank}, seed : Seeds]
RawFiles == [version : Versions \cup {Blank}, whole : BOOLEAN]
PreparedFiles == [of : Preparations, whole : BOOLEAN]

ASSUME DatasetAssumption ==
  /\ Pins \subseteq Versions \cup {NoPin}
  /\ NoPin \notin Versions
  /\ Blank \notin Versions \cup {NoPin}
  /\ Nothing \notin RawFiles
  /\ Nothing \notin PreparedFiles
  /\ Nothing \notin Preparations
  /\ MaxCommands \in Nat

VARIABLES
  pinned,   \* ds.sha256, as the version it is the digest of
  remote,   \* the version published now
  raw,      \* the file in data/raw: its version, and whether the download was whole
  files,    \* the files in data/prepared: the preparation each is of, and whether it is whole
  command,  \* the command going on: where it is, what it was asked for, what it writes
  issued,   \* commands so far
  complete, \* the last preparation that wrote all of its files
  cut       \* whether a preparation has died among its files since

datasetVars == <<pinned, remote, raw, files, command, issued, complete, cut>>

\* Definitions whose name begins with Slip are the next definition with a mistake in
\* it, as in ReadWorkload.

SlipWritten == <<"manifest", "starts", "nodes", "edges">>  \* the summary first
Written == <<"nodes", "edges", "starts", "manifest">>
FileNames == {"nodes", "edges", "starts", "manifest"}

NoCommand == [at |-> "idle", prepare |-> FALSE, force |-> FALSE, seed |-> Nothing,
              of |-> Nothing, next |-> 1]

DatasetInit ==
  /\ pinned \in Pins
  /\ remote \in Versions /\ \A v \in Versions : remote <= v
  /\ raw = Nothing
  /\ files = [f \in FileNames |-> Nothing]
  /\ command = NoCommand
  /\ issued = 0
  /\ complete = Nothing
  /\ cut = FALSE

\* The command returns, or an exception ends it.
Stops == command' = NoCommand
At(place) == command.at = place
Goes(place) == command' = [command EXCEPT !.at = place]

\* dataset fetch, or dataset prepare, with or without --force.
Issue ==
  /\ At("idle")
  /\ issued < MaxCommands
  /\ issued' = issued + 1
  /\ \E prepare, force \in BOOLEAN, seed \in Seeds :
       command' = [NoCommand EXCEPT !.at = "fetch", !.prepare = prepare,
                                    !.force = force, !.seed = seed]
  /\ UNCHANGED <<pinned, remote, raw, files, complete, cut>>

UseCached ==
  /\ At("fetch")
  /\ raw # Nothing /\ ~command.force
  /\ Goes("digest")
  /\ UNCHANGED <<pinned, remote, raw, files, issued, complete, cut>>

\* To a .part file, renamed when it is there.  A connection that closes early ends the
\* copy like the end of the file does; if nothing has come yet, the file is empty, which
\* decompresses to no lines at all.
Download ==
  /\ At("fetch")
  /\ raw = Nothing \/ command.force
  /\ raw' \in [version : {remote}, whole : BOOLEAN] \cup [version : {Blank}, whole : {TRUE}]
  /\ Goes("digest")
  /\ UNCHANGED <<pinned, remote, files, issued, complete, cut>>

DownloadFails ==
  /\ At("fetch")
  /\ raw = Nothing \/ command.force
  /\ Stops
  /\ UNCHANGED <<pinned, remote, raw, files, issued, complete, cut>>

SlipVerified == command.force => raw = [version |-> pinned, whole |-> TRUE]  \* new ones only
Verified == pinned = NoPin \/ raw = [version |-> pinned, whole |-> TRUE]

\* A digest that does not match raises, and leaves the file in the cache.
Digest ==
  /\ At("digest")
  /\ IF Verified /\ command.prepare THEN Goes("parse") ELSE Stops
  /\ UNCHANGED <<pinned, remote, raw, files, issued, complete, cut>>

\* read_edges: a compressed file that was cut short raises at its end.
Parse ==
  /\ At("parse")
  /\ IF raw.whole
     THEN command' = [command EXCEPT !.at = "open",
                        !.of = [version |-> raw.version, seed |-> command.seed]]
     ELSE Stops
  /\ UNCHANGED <<pinned, remote, raw, files, issued, complete, cut>>

\* The manifest has the smallest degree in it, and of no degrees min() raises: the other
\* files are written by then.
NoDegrees == Written[command.next] = "manifest" /\ command.of.version = Blank

Summarise ==
  /\ At("open")
  /\ NoDegrees
  /\ Stops
  /\ cut' = TRUE
  /\ UNCHANGED <<pinned, remote, raw, files, issued, complete>>

\* Each file is truncated when it is opened, and whole when it is closed.
OpenFile ==
  /\ At("open")
  /\ ~NoDegrees
  /\ files' = [files EXCEPT ![Written[command.next]] = [of |-> command.of, whole |-> FALSE]]
  /\ Goes("close")
  /\ UNCHANGED <<pinned, remote, raw, issued, complete, cut>>

CloseFile ==
  /\ At("close")
  /\ files' = [files EXCEPT ![Written[command.next]] = [of |-> command.of, whole |-> TRUE]]
  /\ IF command.next < Len(Written)
     THEN /\ command' = [command EXCEPT !.at = "open", !.next = @ + 1]
          /\ UNCHANGED <<complete, cut>>
     ELSE Stops /\ complete' = command.of /\ cut' = FALSE
  /\ UNCHANGED <<pinned, remote, raw, issued>>

Writing == At("close") \/ (At("open") /\ command.next > 1)

\* Ctrl-C, a full disk, or the machine goes down.
Killed ==
  /\ ~At("idle")
  /\ Stops
  /\ cut' = (cut \/ Writing)
  /\ UNCHANGED <<pinned, remote, raw, files, issued, complete>>

Republish ==
  /\ \E v \in Versions : v > remote /\ remote' = v
  /\ UNCHANGED <<pinned, raw, files, command, issued, complete, cut>>

CommandStep == \/ UseCached \/ Download \/ DownloadFails \/ Digest \/ Parse
               \/ OpenFile \/ CloseFile \/ Summarise

DatasetNext == Issue \/ CommandStep \/ Killed \/ Republish

DatasetSpec == DatasetInit /\ [][DatasetNext]_datasetVars

---------------------------------------------------------------------------
(* loader.load: the manifest has to be there, and both documents to parse. *)

Readable(f) == files[f] # Nothing /\ files[f].whole
Loadable == Readable("manifest") /\ Readable("starts")

---------------------------------------------------------------------------
(* Properties.                                                             *)

\* What the loader accepts is the whole of one preparation, unless one is being written
\* or has died among its files since: the loader only looks for the manifest, which is
\* written last, and a first preparation that dies is not accepted.
PreparedIsOneGraph ==
  Loadable =>
    /\ complete # Nothing
    /\ ~cut /\ ~Writing => \A f \in FileNames : files[f] = [of |-> complete, whole |-> TRUE]

\* A republished dataset is a loud failure where the checksum is pinned: no file is ever
\* prepared from anything but the pinned version, whatever is in the cache.
PinnedIsLoud ==
  pinned # NoPin => \A f \in FileNames : files[f] # Nothing => files[f].of.version = pinned
==============================================================================
