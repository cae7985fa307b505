-------------------------- MODULE MCReadWorkload --------------------------
(***************************************************************************)
(* Two workloads, so that the first can leave a query behind while the     *)
(* second is measured; one warm-up and two measured calls, so that a       *)
(* failure can hit the first, a middle or the last call of a workload;     *)
(* the code's three attempts, and three reconnects where it has 25, so     *)
(* that either limit can be the one that is reached; one start key and two *)
(* answers, so that a question asked again can get a different answer.     *)
(***************************************************************************)
EXTENDS ReadWorkload
===========================================================================
