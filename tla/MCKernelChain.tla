--------------------------- MODULE MCKernelChain ---------------------------
(***************************************************************************)
(* KernelChain for TLC: tensors of all small shapes, the empty ones        *)
(* included, whose entries are numbered in row-major order.                *)
(***************************************************************************)
EXTENDS KernelChain

Numbered(rows, cols) == Matrix(rows, cols, LAMBDA i, j : i * cols + j)

MCInputs ==
  {Numbered(d[1], d[2]) : d \in {e \in (0 .. 3) \X (0 .. 3) : e[1] * e[2] <= 4}}

(* The shapes an operand may take, against those of the tensor. *)
MCOperands == {Numbered(d[1], d[2]) : d \in (0 .. 3) \X (0 .. 2)}

(* Single indices in and out of every range, and matrices of indices whose *)
(* traversals by row and by column differ.                                 *)
MCIndexMatrices ==
  {Matrix(1, 1, LAMBDA i, j : n) : n \in -4 .. 4}
    \cup {Matrix(0, 1, LAMBDA i, j : 0)}
    \cup {Matrix(2, 2, LAMBDA i, j : m * i + j - 2) : m \in {-1, 0, 1, 2}}

MCAxes == -3 .. 2

MCNewDims == -2 .. 5

MCValues == -1 .. 3
=============================================================================
