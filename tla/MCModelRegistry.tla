-------------------------- MODULE MCModelRegistry --------------------------
(* Model values for TLC.  Clients are alike, and models are. *)
EXTENDS ModelRegistry, TLC

Symmetry == Permutations(Clients) \cup Permutations(Models)
=============================================================================
