------------------------------- MODULE Kernels -------------------------------
(***************************************************************************)
(* The kernels that exported graphs use and Qwen3Model::forward does not,  *)
(* and reshape, as operators on matrices.  A matrix is its dimensions and  *)
(* its entries, indexed from 0 as in the code; a kernel that throws        *)
(* std::invalid_argument returns Rejected.  Products of dimensions stay    *)
(* below the width of int.                                                 *)
(***************************************************************************)
EXTENDS Integers, Sequences, FiniteSets, Functions

Entries(rows, cols) == (0 .. rows - 1) \X (0 .. cols - 1)

Matrix(rows, cols, Entry(_, _)) ==
  [rows |-> rows, cols |-> cols,
   at |-> [p \in Entries(rows, cols) |-> Entry(p[1], p[2])]]

(* A(i, j) in the code. *)
At(A, i, j) == A.at[<<i, j>>]

Rejected == [rows |-> -1, cols |-> -1, at |-> <<>>]

NoDims == [rows |-> -1, cols |-> -1]

Size(A) == A.rows * A.cols

(* Where entry k of a matrix with cols columns stands, in row-major order. *)
RowMajor(k, cols) == <<k \div cols, k % cols>>

(* mutation: column-major order, in which Eigen stores a matrix. *)
ColumnMajor(k, cols) == <<k % cols, k \div cols>>

(* The guard that all kernels with an axis share, and what follows it. *)
BadAxis(axis) == axis \notin -2 .. 1

(* mutation: the rank is taken as 1. *)
AxisOfRank1(axis) == IF axis < 0 THEN axis + 1 ELSE axis

Axis(axis) == IF axis < 0 THEN axis + 2 ELSE axis

-----------------------------------------------------------------------------
(* mutation: the entries change places, the dimensions do not. *)
TransposeInPlace(A) ==
  [A EXCEPT !.at = [p \in Entries(A.cols, A.rows) |-> At(A, p[2], p[1])]]

Transpose(A) == Matrix(A.cols, A.rows, LAMBDA i, j : At(A, j, i))

Shape(A) == Matrix(2, 1, LAMBDA i, j : IF i = 0 THEN A.rows ELSE A.cols)

-----------------------------------------------------------------------------
(* mutation: 0 is taken as a size. *)
CopiedDimNever(asked, own) == asked

(* A dimension of 0 copies the input's, before any -1 is inferred. *)
CopiedDim(asked, own) == IF asked = 0 THEN own ELSE asked

CannotInfer(dim, other, total) == dim = -1 /\ (other = 0 \/ total % other # 0)

Inferred(dim, other, total) == IF dim = -1 THEN total \div other ELSE dim

(* The dimensions reshape computes for an input of rows by cols. *)
ReshapedDims(rows, cols, new_rows, new_cols) ==
  LET total == rows * cols
      asked_rows == CopiedDim(new_rows, rows)
      asked_cols == CopiedDim(new_cols, cols)
      to_rows == Inferred(asked_rows, asked_cols, total)
      to_cols == Inferred(asked_cols, asked_rows, total)
  IN  IF \/ new_rows < -1 \/ new_cols < -1
         \/ asked_rows = -1 /\ asked_cols = -1
         \/ CannotInfer(asked_rows, asked_cols, total)
         \/ CannotInfer(asked_cols, asked_rows, total)
         \/ to_rows * to_cols # total
      THEN NoDims
      ELSE [rows |-> to_rows, cols |-> to_cols]

Reshape(A, new_rows, new_cols) ==
  LET dims == ReshapedDims(A.rows, A.cols, new_rows, new_cols)
  IN  IF dims = NoDims
      THEN Rejected
      ELSE Matrix(dims.rows, dims.cols,
             LAMBDA i, j : A.at[RowMajor(i * dims.cols + j, A.cols)])

Unsqueeze(A, axis) ==
  LET Entry(i, j) == A.at[RowMajor(i + j, A.cols)]
  IN  IF BadAxis(axis) \/ (A.rows # 1 /\ A.cols # 1)
      THEN Rejected
      ELSE IF Axis(axis) = 0
           THEN Matrix(1, Size(A), Entry)
           ELSE Matrix(Size(A), 1, Entry)

-----------------------------------------------------------------------------
Extent(A, axis) == IF axis = 0 THEN A.rows ELSE A.cols

(* mutation: rows and columns of the indices in the other order. *)
IndexByColumn(indices, k) == indices.at[ColumnMajor(k, indices.rows)]

(* The k-th index in the order in which gather's two loops visit them. *)
Index(indices, k) == indices.at[RowMajor(k, indices.cols)]

(* mutation: -1 stands for the last but one. *)
FromLastButOne(index, extent) ==
  IF index < 0 THEN index + extent - 1 ELSE index

(* Negative indices count from the end. *)
FromEnd(index, extent) == IF index < 0 THEN index + extent ELSE index

Gather(A, indices, axis) ==
  LET Picked(k) == FromEnd(Index(indices, k), Extent(A, Axis(axis)))
      out_of_range ==
        \E k \in 0 .. Size(indices) - 1 :
          Picked(k) \notin 0 .. Extent(A, Axis(axis)) - 1
  IN  IF BadAxis(axis) \/ out_of_range
      THEN Rejected
      ELSE IF Axis(axis) = 0
           THEN Matrix(Size(indices), A.cols, LAMBDA i, j : At(A, Picked(i), j))
           ELSE Matrix(A.rows, Size(indices), LAMBDA i, j : At(A, i, Picked(j)))

Concat(A, B, axis) ==
  IF BadAxis(axis) \/ Extent(A, 1 - Axis(axis)) # Extent(B, 1 - Axis(axis))
  THEN Rejected
  ELSE IF Axis(axis) = 0
       THEN Matrix(A.rows + B.rows, A.cols,
                   LAMBDA i, j : IF i < A.rows THEN At(A, i, j)
                                 ELSE At(B, i - A.rows, j))
       ELSE Matrix(A.rows, A.cols + B.cols,
                   LAMBDA i, j : IF j < A.cols THEN At(A, i, j)
                                 ELSE At(B, i, j - A.cols))

-----------------------------------------------------------------------------
Larger(m, n) == IF m > n THEN m ELSE n

(* mutation: no operand is broadcast. *)
BroadcastableNever(own, common) == own = common

Broadcastable(own, common) == own = common \/ own = 1

(* The index a broadcast operand is read at. *)
Operand(i, own) == IF own = 1 THEN 0 ELSE i

Sub(A, B) ==
  LET rows == Larger(A.rows, B.rows)
      cols == Larger(A.cols, B.cols)
  IN  IF \A X \in {A, B} :
           Broadcastable(X.rows, rows) /\ Broadcastable(X.cols, cols)
      THEN Matrix(rows, cols,
             LAMBDA i, j : At(A, Operand(i, A.rows), Operand(j, A.cols))
                           - At(B, Operand(i, B.rows), Operand(j, B.cols)))
      ELSE Rejected

(* mutation: -1 and 1 are two axes. *)
UniqueAxesAsGiven(axes) == Range(axes)

(* axes is the std::vector of axes; unique_axes the std::set they fill. *)
UniqueAxes(axes) == {Axis(a) : a \in Range(axes)}

SumOver(A, places) == SumFunctionOnSet(A.at, places)

ReduceSum(A, axes) ==
  IF axes = <<>> \/ \E a \in Range(axes) : BadAxis(a)
  THEN Rejected
  ELSE LET unique_axes == UniqueAxes(axes)
           rows == 0 .. A.rows - 1
           cols == 0 .. A.cols - 1
       IN  IF Cardinality(unique_axes) = 2
           THEN Matrix(1, 1, LAMBDA i, j : SumOver(A, rows \X cols))
           ELSE IF unique_axes = {0}
                THEN Matrix(1, A.cols, LAMBDA i, j : SumOver(A, rows \X {j}))
                ELSE Matrix(A.rows, 1, LAMBDA i, j : SumOver(A, {i} \X cols))
=============================================================================
