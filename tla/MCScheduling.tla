---------------------------- MODULE MCScheduling ----------------------------
(***************************************************************************)
(* Two cases, two works, and one crew whose name is written in two ways.   *)
(***************************************************************************)
EXTENDS Scheduling, TLC
CONSTANTS w1, w2, c1, c2, n1, n2, site

MCCrewKey == [name \in CrewNames |-> "crew"]
MCScopes == {Unassessed}
Symmetric ==
  Permutations({w1, w2}) \cup Permutations({c1, c2}) \cup Permutations({n1, n2})
=============================================================================
