--------------------------- MODULE MCTensorStorage ---------------------------
(***************************************************************************)
(* TensorStorage for TLC: tensors and blocks are interchangeable.          *)
(***************************************************************************)
EXTENDS TensorStorage, TLC

MCSymmetry == Permutations(Tensors) \cup Permutations(Blocks)
=============================================================================
