------------------------- MODULE MCTensorDirectory --------------------------
(* Model values for TLC; tensors and tasks are interchangeable, and so are  *)
(* nodes.                                                                   *)
EXTENDS TensorDirectory, TLC
MCSymmetry ==
  Permutations(Tensors) \cup Permutations(Nodes) \cup Permutations(Tasks)
=============================================================================
