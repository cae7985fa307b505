----------------------------- MODULE Dockerctl -----------------------------
(***************************************************************************)
(* dockerctl.recreate: list the volumes of a container, remove the         *)
(* container, remove the volumes one by one, bring the service up, wait    *)
(* until it is healthy.  Every step is a docker command that can fail, or  *)
(* hang until subprocess raises TimeoutExpired, which recreate does not    *)
(* catch.                                                                  *)
(***************************************************************************)
EXTENDS Naturals, FiniteSets

CONSTANTS
  Local,   \* the platforms that run in a local container
  Volumes, \* what their containers mount
  Data,    \* the named volume with the store; the others are anonymous
  Mounts   \* per local platform, the volumes of its container

ASSUME DockerAssumption ==
  /\ Mounts \in [Local -> SUBSET Volumes]
  /\ IsFiniteSet(Volumes)
  /\ Data \in Volumes

VARIABLES
  engine,   \* per local platform, its container: absent, fresh (started, no load yet), used
  disk,     \* per local platform, its named volume: none, clean or dirty with old data
  recreate  \* the call in progress: where it is, the listed volumes it has yet to try to
            \* remove, and the ones it has removed

dockerVars == <<engine, disk, recreate>>

NoCall == [at |-> "none", left |-> {}, removed |-> {}]

\* How a call ends: with a result, with DockerUnavailable, or with TimeoutExpired.
Ended == {"returned", "unavailable", "expired"}
At(step) == recreate.at = step
Goto(step) == recreate' = [recreate EXCEPT !.at = step]

\* Before the first run a platform has no container and no volume, or those of an
\* earlier day.
DockerInit ==
  /\ engine \in [Local -> {"absent", "used"}]
  /\ disk \in [Local -> {"none", "dirty"}]
  /\ \A p \in Local : engine[p] = "used" => disk[p] = "dirty"
  /\ recreate = NoCall

\* docker info does not answer.
Unavailable == At("available") /\ Goto("unavailable") /\ UNCHANGED <<engine, disk>>

Removed(p) == [engine EXCEPT ![p] = "absent"]

\* An anonymous volume is one container's, and no store is in it: whether it is removed
\* or left behind, a new container has a new one.
Wiped(p, v) == IF v = Data THEN [disk EXCEPT ![p] = "none"] ELSE disk

\* docker compose up creates the named volume, or attaches the one there is.
Started(p) ==
  /\ engine' = [engine EXCEPT ![p] = "fresh"]
  /\ disk' = [disk EXCEPT ![p] = IF @ = "none" THEN "clean" ELSE @]

\* The loop over the volumes is over.
AllTried == At("volumes") /\ recreate.left = {}

\* A command times out: the client is killed, the daemon may have done the work.  The
\* volumes before the one that hung are gone.
Expire(p) ==
  /\ ~ At("none") /\ recreate.at \notin Ended
  /\ Goto("expired")
  /\ \/ UNCHANGED <<engine, disk>>
     \/ At("rm") /\ engine' = Removed(p) /\ UNCHANGED disk
     \/ /\ At("volumes")
        /\ \E v \in recreate.left : disk' = Wiped(p, v)
        /\ UNCHANGED engine
     \/ AllTried /\ Started(p)

\* volumes_of: every volume mounted, but nothing if there is no container to inspect, or
\* the inspection fails.
ListVolumes(p) ==
  /\ At("available")
  /\ \E listed \in {{}} \cup {Mounts[p] : x \in {engine[p]} \ {"absent"}} :
       recreate' = [recreate EXCEPT !.at = "rm", !.left = listed]
  /\ UNCHANGED <<engine, disk>>

\* docker compose rm -sf leaves volumes alone.  It may fail half way.
RemoveContainer(p) ==
  /\ At("rm")
  /\ \/ engine' = Removed(p) /\ Goto("volumes")
     \/ engine' \in {engine, Removed(p)} /\ Goto("unavailable")
  /\ UNCHANGED disk

\* One docker volume rm has been tried.
Tried(v, removed) ==
  recreate' = [recreate EXCEPT !.left = @ \ {v}, !.removed = @ \cup removed]

SlipRemoveVolume(p) ==  \* listed as removed, whatever docker said
  /\ At("volumes")
  /\ \E v \in recreate.left : disk' \in {disk, Wiped(p, v)} /\ Tried(v, {v})
  /\ UNCHANGED engine

\* docker volume rm of the next one; one that cannot be removed is left out of
\* volumes_removed, and that is all.
RemoveVolume(p) ==
  /\ At("volumes")
  /\ \E v \in recreate.left :
       \/ disk' = Wiped(p, v) /\ Tried(v, {v})
       \/ UNCHANGED disk /\ Tried(v, {})
  /\ UNCHANGED engine

\* A docker compose up that fails may have started the container all the same, which is
\* then not healthy in time, or has exited.
Up(p) ==
  /\ AllTried
  /\ \/ Started(p) /\ (Goto("wait") \/ Goto("unavailable"))
     \/ Goto("unavailable") /\ UNCHANGED <<engine, disk>>

\* wait_healthy: its verdict is reported, not acted upon.
Wait == At("wait") /\ Goto("returned") /\ UNCHANGED <<engine, disk>>

RecreateStep(p) ==
  \/ Unavailable \/ Expire(p)
  \/ ListVolumes(p) \/ RemoveContainer(p) \/ RemoveVolume(p) \/ Up(p)
  \/ Wait

Calls == [at : {"none", "available", "rm", "volumes", "wait"} \cup Ended,
          left : SUBSET Volumes, removed : SUBSET Volumes]

DockerTypeOK ==
  /\ engine \in [Local -> {"absent", "fresh", "used"}]
  /\ disk \in [Local -> {"none", "clean", "dirty"}]
  /\ recreate \in Calls
===========================================================================
