------------------------------- MODULE MCLoad -------------------------------
(***************************************************************************)
(* Three nodes in batches of two, so that the last batch is a short one;   *)
(* two edges, of which each can lose an endpoint with either node batch; a *)
(* wipe batch that is halved twice before the floor, the second time to    *)
(* less than the floor (7, 3, 2; the code's 2000 ends 125, 100), and more  *)
(* left over than one wipe batch deletes.  What is left over may have the  *)
(* ids of this graph.  Two attempts, so that the second finds the store of *)
(* the first.  The first two indexes of each engine, of the four or five   *)
(* the code makes: for Kuzu the tables of the graph, for CognoDB indexes   *)
(* with two forms each.                                                    *)
(***************************************************************************)
EXTENDS Calibrate

MCKinds == Bolt \cup {"falkordb", "arangodb", "kuzu"}
MCEdges == <<<<1, 2>>, <<2, 3>>>>
MCLeftovers == {{}, {1, 11}, 1 .. 8}
MCSizes == <<2>>
===========================================================================
