---------------------------- MODULE MCTensorData ----------------------------
(***************************************************************************)
(* TensorData for TLC: shapes of one and two cells, so that views may be   *)
(* shorter than what they view, and one of unknown size.  Numbers are the  *)
(* zero, told apart from cells nobody has written.                         *)
(***************************************************************************)
EXTENDS TensorData

Shape(dims) == [dtype |-> "FLOAT32", dims |-> dims]

MCShapes == {Shape(<<1>>), Shape(<<2, 1>>), Shape(<<-1>>)}

MCSymmetry == Permutations(Tensors) \cup Permutations(Blocks)
=============================================================================
