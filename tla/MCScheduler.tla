---------------------------- MODULE MCScheduler -----------------------------
(* A cluster of four nodes for TLC: three healthy ones with a tie between   *)
(* the last two, so that selecting two exercises the order of the map, and  *)
(* a suspect one with the best score.                                       *)
EXTENDS Scheduler, TLC
CONSTANTS n1, n2, n3, n4

MCHealthy == {n1, n2, n3}
MCScore == n1 :> 2 @@ n2 :> 1 @@ n3 :> 1 @@ n4 :> 3
MCOrder == n1 :> 4 @@ n2 :> 3 @@ n3 :> 2 @@ n4 :> 1
MCSymmetry == Permutations(Tasks) \cup Permutations(Sessions)
=============================================================================
