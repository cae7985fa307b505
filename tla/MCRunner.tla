------------------------------ MODULE MCRunner ------------------------------
(***************************************************************************)
(* One local and one remote platform.  Two runs, the second of which meets *)
(* what the first left behind: containers, volumes and, under the same run *)
(* id, files.  The local container mounts three volumes, as Memgraph's.    *)
(***************************************************************************)
EXTENDS Runner

MCMounts == [p \in Local |-> Volumes]

\* The local platform alone with a reset and the mixed workload, or both without either;
\* then both with a reset, the local one without, or the remote one alone.
MCOptions ==
  <<{[usable |-> {1}, restart |-> TRUE, mixed |-> TRUE],
     [usable |-> {1, 2}, restart |-> FALSE, mixed |-> FALSE]},
    {[usable |-> {1, 2}, restart |-> TRUE, mixed |-> TRUE],
     [usable |-> {1}, restart |-> FALSE, mixed |-> FALSE],
     [usable |-> {2}, restart |-> TRUE, mixed |-> FALSE]}>>
===========================================================================
