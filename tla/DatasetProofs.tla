---------------------------- MODULE DatasetProofs ----------------------------
(***************************************************************************)
(* Proofs about Dataset: whatever commands are issued, killed and repeated,*)
(* what the loader accepts is one preparation unless one died on top of it,*)
(* and a pinned dataset is prepared from the pinned version only.          *)
(***************************************************************************)
EXTENDS Dataset, TLAPS

Places == {"idle", "fetch", "digest", "parse", "open", "close"}

Commands == [at : Places, prepare : BOOLEAN, force : BOOLEAN, seed : Seeds \cup {Nothing},
             of : Preparations \cup {Nothing}, next : 1 .. 4]

Typed ==
  /\ pinned \in Pins
  /\ raw \in RawFiles \cup {Nothing}
  /\ files \in [FileNames -> PreparedFiles \cup {Nothing}]
  /\ command \in Commands
  /\ remote \in Versions
  /\ complete \in Preparations \cup {Nothing}
  /\ cut \in BOOLEAN

\* Where the command is tells what it has: a seed until it is done, a raw file since the
\* download, one that passed the digest since then, and what it writes since parsing.
CommandInv ==
  /\ command.at # "idle" => command.seed \in Seeds
  /\ command.at \in {"idle", "fetch", "digest", "parse"} => command.next = 1
  /\ command.at \in {"digest", "parse"} => raw \in RawFiles
  /\ command.at = "parse" => Verified
  /\ command.at \in {"open", "close"} => command.of \in Preparations

\* The files that the command has written, and the one it is writing.
WritingInv ==
  /\ Writing => \A i \in 1 .. 4 :
       i < command.next => files[Written[i]] = [of |-> command.of, whole |-> TRUE]
  /\ command.at = "close" => files[Written[command.next]] = [of |-> command.of, whole |-> FALSE]

\* Without a complete preparation there is no whole manifest; with one, the files are
\* those of the last, unless it is being overwritten or was cut short since.
CompleteInv ==
  /\ complete = Nothing => ~Readable("manifest")
  /\ complete # Nothing /\ ~cut /\ ~Writing =>
       \A f \in FileNames : files[f] = [of |-> complete, whole |-> TRUE]

\* A version that is not the pinned one never gets past the digest.
PinnedInv ==
  pinned # NoPin =>
    /\ command.at \in {"open", "close"} => command.of.version = pinned
    /\ \A f \in FileNames : files[f] # Nothing => files[f].of.version = pinned

IInv == Typed /\ CommandInv /\ WritingInv /\ CompleteInv /\ PinnedInv

---------------------------------------------------------------------------

\* Every file has its turn, the manifest the last.
LEMMA WrittenOnce ==
  /\ Len(Written) = 4
  /\ \A i \in 1 .. 4 : Written[i] \in FileNames /\ (i < 4 => Written[i] # "manifest")
  /\ \A f \in FileNames : \E i \in 1 .. 4 : f = Written[i]
  /\ \A i, j \in 1 .. 4 : Written[i] = Written[j] => i = j
<1>1. /\ Len(Written) = 4
      /\ Written[1] = "nodes" /\ Written[2] = "edges"
      /\ Written[3] = "starts" /\ Written[4] = "manifest"
  BY DEF Written
<1>2. \A i \in 1 .. 4 : i = 1 \/ i = 2 \/ i = 3 \/ i = 4
  OBVIOUS
<1>3. 1 \in 1 .. 4 /\ 2 \in 1 .. 4 /\ 3 \in 1 .. 4 /\ 4 \in 1 .. 4
  OBVIOUS
<1>4. \A f \in FileNames : \E i \in 1 .. 4 : f = Written[i]
  BY <1>1, <1>3 DEF FileNames
<1>5. \A i \in 1 .. 4 : Written[i] \in FileNames /\ (i < 4 => Written[i] # "manifest")
  BY <1>1, <1>2 DEF FileNames
<1>6. \A i, j \in 1 .. 4 : Written[i] = Written[j] => i = j
  BY <1>1, <1>2
<1> QED BY <1>1, <1>4, <1>5, <1>6

LEMMA NoCommandTyped == NoCommand \in Commands
<1>1. "idle" \in Places /\ 1 \in 1 .. 4
  BY DEF Places
<1> QED BY <1>1 DEF NoCommand, Commands

LEMMA InitIInv == DatasetInit => IInv
<1> SUFFICES ASSUME DatasetInit PROVE IInv
  OBVIOUS
<1>1. Typed
  BY NoCommandTyped DEF DatasetInit, Typed
<1>2. CommandInv /\ WritingInv /\ CompleteInv /\ PinnedInv
  BY DEF DatasetInit, CommandInv, WritingInv, CompleteInv, PinnedInv, NoCommand,
         Writing, At, Readable, FileNames
<1> QED BY <1>1, <1>2 DEF IInv

\* What a command that stops leaves is good, if it leaves the files alone and does not
\* stop among them unnoticed.
LEMMA StopKeepsIInv ==
  ASSUME IInv, Stops,
         pinned' = pinned, remote' \in Versions, raw' = raw, files' = files,
         complete' = complete, cut' \in BOOLEAN, Writing \/ cut => cut'
  PROVE  IInv'
<1>1. command' = NoCommand
  BY DEF Stops
<1>2. Typed'
  BY <1>1, NoCommandTyped DEF IInv, Typed
<1>3. CommandInv' /\ WritingInv' /\ PinnedInv'
  BY <1>1 DEF IInv, CommandInv, WritingInv, PinnedInv, NoCommand, Writing, At
<1>4. CompleteInv'
  BY <1>1 DEF IInv, CompleteInv, NoCommand, Writing, At, Readable
<1> QED BY <1>2, <1>3, <1>4 DEF IInv

\* So does one that goes on before it writes.
LEMMA GoKeepsIInv ==
  ASSUME IInv, command.at \in {"idle", "fetch", "digest", "parse"},
         command'.at \in {"fetch", "digest", "parse", "open"}, command'.next = 1,
         pinned' = pinned, remote' = remote, files' = files, complete' = complete, cut' = cut,
         Typed', CommandInv',
         command'.at = "open" /\ pinned # NoPin => command'.of.version = pinned
  PROVE  IInv'
<1>1. ~Writing /\ ~Writing'
  BY DEF Writing, At, IInv, CommandInv
<1>2. WritingInv'
  BY <1>1 DEF WritingInv
<1>3. CompleteInv'
  BY <1>1 DEF IInv, CompleteInv, Readable
<1>4. PinnedInv'
  BY DEF IInv, PinnedInv
<1> QED BY <1>2, <1>3, <1>4 DEF IInv

\* The steps before the files are written.
LEMMA BeforeKeepsIInv ==
  ASSUME DatasetAssumption, IInv, Issue \/ UseCached \/ Download \/ DownloadFails \/ Digest \/ Parse
  PROVE  IInv'
<1> USE DEF IInv
<1>1. CASE Issue
  <2>1. PICK prepare \in BOOLEAN, force \in BOOLEAN, seed \in Seeds :
          command' = [NoCommand EXCEPT !.at = "fetch", !.prepare = prepare,
                                       !.force = force, !.seed = seed]
    BY <1>1 DEF Issue
  <2>2. command' = [at |-> "fetch", prepare |-> prepare, force |-> force, seed |-> seed,
                    of |-> Nothing, next |-> 1]
    BY <2>1 DEF NoCommand
  <2>3. command' \in Commands
    <3>1. "fetch" \in Places /\ 1 \in 1 .. 4
      BY DEF Places
    <3> QED BY <2>2, <3>1 DEF Commands
  <2>4. Typed' /\ CommandInv'
    BY <1>1, <2>2, <2>3 DEF Issue, Typed, CommandInv
  <2> QED BY <1>1, <2>2, <2>4, GoKeepsIInv DEF Issue, At
<1>2. CASE UseCached
  <2>1. command' = [command EXCEPT !.at = "digest"]
    BY <1>2 DEF UseCached, Goes
  <2>2. command' \in Commands
    BY <2>1 DEF Typed, Commands, Places
  <2>3. Typed' /\ CommandInv'
    BY <1>2, <2>1, <2>2 DEF UseCached, At, Typed, CommandInv, Commands
  <2> QED BY <1>2, <2>1, <2>3, GoKeepsIInv DEF UseCached, At, Typed, CommandInv, Commands
<1>3. CASE Download
  <2>1. command' = [command EXCEPT !.at = "digest"] /\ raw' \in RawFiles
    <3>1. raw'.version \in {remote, Blank} /\ raw'.whole \in BOOLEAN
          /\ raw' = [version |-> raw'.version, whole |-> raw'.whole]
      BY <1>3 DEF Download
    <3> QED BY <1>3, <3>1 DEF Download, Goes, RawFiles, Typed
  <2>2. command' \in Commands
    BY <2>1 DEF Typed, Commands, Places
  <2>3. Typed' /\ CommandInv'
    BY <1>3, <2>1, <2>2 DEF Download, At, Typed, CommandInv, Commands
  <2> QED BY <1>3, <2>1, <2>3, GoKeepsIInv DEF Download, At, Typed, CommandInv, Commands
<1>4. CASE DownloadFails
  BY <1>4, StopKeepsIInv DEF DownloadFails, At, Typed, Writing
<1>5. CASE Digest
  <2>1. CASE Goes("parse") /\ Verified
    <3>1. command' = [command EXCEPT !.at = "parse"]
      BY <2>1 DEF Goes
    <3>2. command' \in Commands
      BY <3>1 DEF Typed, Commands, Places
    <3>3. Typed' /\ CommandInv'
      BY <1>5, <2>1, <3>1, <3>2 DEF Digest, At, Typed, CommandInv, Commands, Verified
    <3> QED BY <1>5, <3>1, <3>3, GoKeepsIInv DEF Digest, At, Typed, CommandInv, Commands
  <2>2. CASE Stops
    BY <1>5, <2>2, StopKeepsIInv DEF Digest, At, Typed, Writing
  <2> QED BY <1>5, <2>1, <2>2 DEF Digest
<1>6. CASE Parse
  <2>1. CASE raw.whole
    <3> DEFINE of == [version |-> raw.version, seed |-> command.seed]
    <3>1. of \in Preparations
      BY <1>6 DEF Parse, At, CommandInv, RawFiles, Preparations
    <3>2. command' = [command EXCEPT !.at = "open", !.of = of]
      BY <1>6, <2>1 DEF Parse
    <3>3. command' \in Commands
      <4>1. "open" \in Places
        BY DEF Places
      <4> QED BY <3>1, <3>2, <4>1 DEF Typed, Commands
    <3>4. /\ command'.at = "open" /\ command'.of = of /\ command'.next = command.next
          /\ command'.seed = command.seed
      BY <3>2 DEF Typed, Commands
    <3>5. Typed'
      BY <1>6, <3>3 DEF Parse, Typed
    <3>6. CommandInv'
      BY <1>6, <3>1, <3>4 DEF Parse, At, CommandInv
    <3>7. pinned # NoPin => of.version = pinned
      BY <1>6 DEF Parse, At, CommandInv, Verified
    <3> QED BY <1>6, <3>4, <3>5, <3>6, <3>7, GoKeepsIInv DEF Parse, At, CommandInv
  <2>2. CASE ~raw.whole
    BY <1>6, <2>2, StopKeepsIInv DEF Parse, At, Typed, Writing
  <2> QED BY <2>1, <2>2
<1> QED BY <1>1, <1>2, <1>3, <1>4, <1>5, <1>6

\* Opening a file makes it unreadable, and the ones before it stay.
LEMMA OpenKeepsIInv ==
  ASSUME IInv, OpenFile
  PROVE  IInv'
<1> USE DEF IInv
<1> DEFINE k == command.next
           f == Written[k]
<1>1. k \in 1 .. 4 /\ command.of \in Preparations /\ command.at = "open"
  BY DEF OpenFile, At, Typed, Commands, CommandInv
<1>2. f \in FileNames
  BY <1>1, WrittenOnce
<1>3. command' = [command EXCEPT !.at = "close"]
  BY DEF OpenFile, Goes
<1>4. /\ command'.at = "close" /\ command'.of = command.of /\ command'.next = k
      /\ command'.seed = command.seed
  BY <1>3 DEF Typed, Commands
<1>5. files' = [files EXCEPT ![f] = [of |-> command.of, whole |-> FALSE]]
  BY DEF OpenFile
<1>6. [of |-> command.of, whole |-> FALSE] \in PreparedFiles
  BY <1>1 DEF PreparedFiles
<1>7. Typed'
  <2>1. command' \in Commands
    BY <1>3 DEF Typed, Commands, Places
  <2>2. files' \in [FileNames -> PreparedFiles \cup {Nothing}]
    BY <1>5, <1>6 DEF Typed
  <2> QED BY <2>1, <2>2 DEF OpenFile, Typed
<1>8. CommandInv'
  BY <1>1, <1>4 DEF OpenFile, CommandInv
<1>9. WritingInv'
  <2>1. files'[f] = [of |-> command.of, whole |-> FALSE]
    BY <1>2, <1>5 DEF Typed
  <2>2. ASSUME NEW i \in 1 .. 4, i < k
        PROVE  files'[Written[i]] = [of |-> command.of, whole |-> TRUE]
    <3>1. Writing
      BY <1>1, <2>2 DEF Writing, At
    <3>2. files[Written[i]] = [of |-> command.of, whole |-> TRUE]
      BY <2>2, <3>1 DEF WritingInv
    <3>3. Written[i] # f /\ Written[i] \in FileNames
      BY <1>1, <2>2, WrittenOnce
    <3> QED BY <1>5, <3>2, <3>3 DEF Typed
  <2> QED BY <1>4, <2>1, <2>2 DEF WritingInv, Written
<1>10. CompleteInv'
  <2>1. Writing'
    BY <1>4 DEF Writing, At
  <2>2. complete = Nothing => ~Readable("manifest")'
    BY <1>5 DEF CompleteInv, Readable, Typed, FileNames
  <2> QED BY <2>1, <2>2 DEF CompleteInv, OpenFile
<1>11. PinnedInv'
  BY <1>1, <1>4, <1>5 DEF PinnedInv, OpenFile, Typed
<1> QED BY <1>7, <1>8, <1>9, <1>10, <1>11

\* Closing one makes it whole, and the fourth completes the preparation.
LEMMA CloseKeepsIInv ==
  ASSUME DatasetAssumption, IInv, CloseFile
  PROVE  IInv'
<1> USE DEF IInv
<1> DEFINE k == command.next
           f == Written[k]
<1>1. k \in 1 .. 4 /\ command.of \in Preparations /\ command.at = "close"
  BY DEF CloseFile, At, Typed, Commands, CommandInv
<1>2. f \in FileNames /\ files[f] = [of |-> command.of, whole |-> FALSE]
  BY <1>1, WrittenOnce DEF WritingInv
<1>3. files' = [files EXCEPT ![f] = [of |-> command.of, whole |-> TRUE]]
  BY DEF CloseFile
<1>4. [of |-> command.of, whole |-> TRUE] \in PreparedFiles
  BY <1>1 DEF PreparedFiles
<1>5. files' \in [FileNames -> PreparedFiles \cup {Nothing}]
  BY <1>3, <1>4 DEF Typed
<1>6. \A i \in 1 .. 4 : i <= k => files'[Written[i]] = [of |-> command.of, whole |-> TRUE]
  <2> SUFFICES ASSUME NEW i \in 1 .. 4, i <= k
               PROVE  files'[Written[i]] = [of |-> command.of, whole |-> TRUE]
    OBVIOUS
  <2>1. Written[i] \in FileNames
    BY WrittenOnce
  <2>2. CASE i = k
    BY <1>2, <1>3, <2>2 DEF Typed
  <2>3. CASE i < k
    <3>1. files[Written[i]] = [of |-> command.of, whole |-> TRUE]
      BY <1>1, <2>3 DEF WritingInv, Writing, At
    <3>2. Written[i] # f
      BY <1>1, <2>3, WrittenOnce
    <3> QED BY <1>3, <2>1, <3>1, <3>2 DEF Typed
  <2> QED BY <1>1, <2>2, <2>3
<1>7. pinned # NoPin => \A g \in FileNames : files'[g] # Nothing => files'[g].of.version = pinned
  BY <1>1, <1>3 DEF PinnedInv, Typed
<1>8. CASE k < 4
  <2>1. command' = [command EXCEPT !.at = "open", !.next = k + 1]
    BY <1>1, <1>8, WrittenOnce DEF CloseFile
  <2>2. /\ command'.at = "open" /\ command'.of = command.of /\ command'.next = k + 1
        /\ command'.seed = command.seed
    BY <2>1 DEF Typed, Commands
  <2>3. complete' = complete /\ cut' = cut
    BY <1>1, <1>8, WrittenOnce DEF CloseFile
  <2>4. Typed'
    <3>1. command' \in Commands
      <4>1. "open" \in Places /\ k + 1 \in 1 .. 4
        BY <1>1, <1>8 DEF Places
      <4> QED BY <2>1, <4>1 DEF Typed, Commands
    <3> QED BY <1>5, <2>3, <3>1 DEF CloseFile, Typed
  <2>5. CommandInv'
    BY <1>1, <2>2 DEF CloseFile, CommandInv
  <2>6. WritingInv'
    BY <1>1, <1>6, <2>2 DEF WritingInv, Written
  <2>7. CompleteInv'
    <3>1. Writing'
      BY <1>1, <2>2 DEF Writing, At
    <3>2. f # "manifest"
      BY <1>1, <1>8, WrittenOnce
    <3>3. files'["manifest"] = files["manifest"]
      BY <1>3, <3>2 DEF Typed, FileNames
    <3> QED BY <2>3, <3>1, <3>3 DEF CompleteInv, Readable
  <2>8. PinnedInv'
    BY <1>1, <1>7, <2>2 DEF PinnedInv, CloseFile
  <2> QED BY <2>4, <2>5, <2>6, <2>7, <2>8
<1>9. CASE k = 4
  <2>1. command' = NoCommand /\ complete' = command.of /\ cut' = FALSE
    BY <1>9, WrittenOnce DEF CloseFile, Stops
  <2>2. \A g \in FileNames : files'[g] = [of |-> command.of, whole |-> TRUE]
    BY <1>6, <1>9, WrittenOnce
  <2>3. Typed'
    BY <1>1, <1>5, <2>1, NoCommandTyped DEF CloseFile, Typed
  <2>4. CommandInv' /\ WritingInv'
    BY <2>1 DEF CommandInv, WritingInv, NoCommand, Writing, At
  <2>5. CompleteInv'
    <3>1. command.of # Nothing
      BY <1>1 DEF DatasetAssumption
    <3> QED BY <2>1, <2>2, <3>1 DEF CompleteInv
  <2>6. PinnedInv'
    BY <1>7, <2>1 DEF PinnedInv, NoCommand, CloseFile
  <2> QED BY <2>3, <2>4, <2>5, <2>6
<1> QED BY <1>1, <1>8, <1>9

LEMMA StepKeepsIInv ==
  ASSUME DatasetAssumption, IInv, [DatasetNext]_datasetVars
  PROVE  IInv'
<1>1. CASE Issue \/ UseCached \/ Download \/ DownloadFails \/ Digest \/ Parse
  BY <1>1, BeforeKeepsIInv
<1>2. CASE OpenFile
  BY <1>2, OpenKeepsIInv
<1>3. CASE CloseFile
  BY <1>3, CloseKeepsIInv
<1>4. CASE Killed
  BY <1>4, StopKeepsIInv DEF Killed, IInv, Typed, Writing
<1>5. CASE Summarise
  BY <1>5, StopKeepsIInv DEF Summarise, IInv, Typed
<1>6. CASE Republish
  <2>1. remote' \in Versions
    BY <1>6 DEF Republish
  <2> QED BY <1>6, <2>1 DEF Republish, IInv, Typed, CommandInv, WritingInv, CompleteInv,
             PinnedInv, Verified, Writing, At, Readable
<1>7. CASE UNCHANGED datasetVars
  BY <1>7 DEF datasetVars, IInv, Typed, CommandInv, WritingInv, CompleteInv,
              PinnedInv, Verified, Writing, At, Readable
<1> QED BY <1>1, <1>2, <1>3, <1>4, <1>5, <1>6, <1>7 DEF DatasetNext, CommandStep

THEOREM DatasetInvariant == DatasetSpec => []IInv
<1>1. DatasetInit => IInv
  BY InitIInv
<1>2. IInv /\ [DatasetNext]_datasetVars => IInv'
  BY StepKeepsIInv, DatasetAssumption
<1> QED BY <1>1, <1>2, PTL DEF DatasetSpec

\* What the loader accepts is one preparation (prepare.py writes the manifest last, and
\* loader.load asks for it), for every number of commands and of versions.
THEOREM PreparedIsOneGraphHolds == DatasetSpec => []PreparedIsOneGraph
<1>1. IInv => PreparedIsOneGraph
  BY DEF IInv, CompleteInv, PreparedIsOneGraph, Loadable
<1> QED BY <1>1, DatasetInvariant, PTL

\* With a pinned checksum (fetch.py) no file is prepared from another version.
THEOREM PinnedIsLoudHolds == DatasetSpec => []PinnedIsLoud
<1>1. IInv => PinnedIsLoud
  BY DEF IInv, PinnedInv, PinnedIsLoud
<1> QED BY <1>1, DatasetInvariant, PTL
=============================================================================
