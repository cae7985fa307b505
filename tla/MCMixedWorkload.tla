-------------------------- MODULE MCMixedWorkload --------------------------
(***************************************************************************)
(* A level of one client and a level of two: the client of the first can   *)
(* still be at work while the second is measured, and two clients of one   *)
(* level can merge at the same time.  The first client makes two            *)
(* operations, so that it may fail once and go on, or fail twice and give  *)
(* up.                                                                     *)
(***************************************************************************)
EXTENDS MixedWorkload

MCClients == <<1, 2>>
MCMaxOps == <<2, 1>>
===========================================================================
