----------------------------- MODULE MCEvidence -----------------------------
(***************************************************************************)
(* Two platforms, so that there is an answer to compare, the second one in *)
(* need of a variable; and an id that no platform has.  Two versions of    *)
(* the dataset, one node apart, of which the first may be pinned, and      *)
(* downloads of nothing, which has neither nodes nor edges; two commands,  *)
(* so that a preparation can overwrite another, before the run or during   *)
(* it.  Three depths, so that one can be missing between two. A platform   *)
(* may agree with another, differ from it, shrink from one depth to the    *)
(* next, or not answer; lists of failures are cut after two (the code cuts *)
(* them after fifteen), of the four there can be.                          *)
(***************************************************************************)
EXTENDS Evidence

MCVersions == {1, 2}
MCPins == {1, NoPin}
MCRequired == [p \in 1 .. 2 |-> {p}]
MCEnvs == {{}, {2}, {1, 2}}
MCCommandLines == {{1, 2}, {1, 9}}
Answers(one, two, three, group, rel) ==
  [hops |-> <<one, two, three>>, groupby |-> group, relcount |-> rel]
MCDialects ==
  {Answers({1}, {1}, {2}, TRUE, TRUE),
   Answers({1}, {2}, {1}, TRUE, TRUE),
   Answers({2}, {}, {1}, FALSE, TRUE),
   Answers({}, {1}, {2}, TRUE, FALSE)}
MCOrder == [p \in Preparations |-> IF p.version = Blank THEN 0 ELSE p.version]
MCSize == [p \in Preparations |-> IF p.version = Blank THEN 0 ELSE 1]
=============================================================================
