----------------------------- MODULE KernelChain -----------------------------
(***************************************************************************)
(* A value on its way through the kernels of a graph: each step applies    *)
(* one kernel to the tensor the last one returned.  A call that throws     *)
(* leaves the tensor as it was.  What the kernels must return is stated    *)
(* for every tensor that such a chain may produce.                         *)
(***************************************************************************)
EXTENDS Kernels

CONSTANTS
  Inputs,        \* the tensors a chain starts from
  Operands,      \* second operands of concat and sub
  IndexMatrices, \* indices of gather
  Axes,          \* axis arguments, those out of range included
  NewDims,       \* arguments of reshape, those out of range included
  MaxSize,       \* bound: a tensor with more entries is not used again
  Values         \* bound: nor one with an entry outside Values

IsMatrix(A) ==
  /\ A.rows \in Nat /\ A.cols \in Nat
  /\ A.at \in [Entries(A.rows, A.cols) -> Int]
  /\ A = [rows |-> A.rows, cols |-> A.cols, at |-> A.at]

ASSUME MatrixAssumption ==
  \A A \in Inputs \cup Operands \cup IndexMatrices : IsMatrix(A)

ASSUME ArgumentAssumption ==
  /\ Axes \subseteq Int /\ NewDims \subseteq Int
  /\ MaxSize \in Nat /\ Values \subseteq Int

VARIABLE tensor  \* the value the last kernel returned

Init == tensor \in Inputs

Returned(answer) ==
  /\ answer # Rejected
  /\ Size(answer) <= MaxSize
  /\ answer.rows <= MaxSize /\ answer.cols <= MaxSize
  /\ Range(answer.at) \subseteq Values
  /\ tensor' = answer

(* The arguments of reduce_sum: up to two axes. *)
AxisLists == {<<>>} \cup {<<a>> : a \in Axes} \cup (Axes \X Axes)

CallTranspose == Returned(Transpose(tensor))

CallShape == Returned(Shape(tensor))

CallReshape ==
  \E new_rows, new_cols \in NewDims :
    Returned(Reshape(tensor, new_rows, new_cols))

CallUnsqueeze == \E axis \in Axes : Returned(Unsqueeze(tensor, axis))

CallGather ==
  \E indices \in IndexMatrices, axis \in Axes :
    Returned(Gather(tensor, indices, axis))

CallConcat ==
  \E other \in Operands, axis \in Axes : Returned(Concat(tensor, other, axis))

CallSub == \E other \in Operands : Returned(Sub(tensor, other))

CallReduceSum == \E axes \in AxisLists : Returned(ReduceSum(tensor, axes))

Next ==
  \/ CallTranspose
  \/ CallShape
  \/ CallReshape
  \/ CallUnsqueeze
  \/ CallGather
  \/ CallConcat
  \/ CallSub
  \/ CallReduceSum

Spec == Init /\ [][Next]_tensor

-----------------------------------------------------------------------------
(* The entries of a matrix exist exactly within its dimensions, which are  *)
(* those the kernel announced.                                             *)
TypeOK ==
  /\ tensor.rows \in Nat /\ tensor.cols \in Nat
  /\ DOMAIN tensor.at = Entries(tensor.rows, tensor.cols)
  /\ Range(tensor.at) \subseteq Int

(* The entries in row-major order: what ONNX calls the data of a tensor. *)
Data(A) == [k \in 0 .. Size(A) - 1 |-> At(A, k \div A.cols, k % A.cols)]

(* The shapes of A's size that the arguments of reshape leave open: 0      *)
(* stands for A's own dimension, -1 for any, all else for itself.          *)
ShapesAsked(A, new_rows, new_cols) ==
  LET Fits(dim, asked, own) ==
        asked = -1 \/ dim = (IF asked = 0 THEN own ELSE asked)
      dims == (0 .. Size(A) + A.rows + A.cols + 1)
              \cup ({new_rows, new_cols} \cap Nat)
  IN  {s \in dims \X dims : /\ s[1] * s[2] = Size(A)
                            /\ Fits(s[1], new_rows, A.rows)
                            /\ Fits(s[2], new_cols, A.cols)}

(* reshape accepts exactly the arguments, at most one of them -1, that     *)
(* leave a single shape open, empty tensors included; it returns that      *)
(* shape and never changes the order of the data (reshape.h:9-14).         *)
ReshapeFollowsOnnx ==
  \A new_rows, new_cols \in NewDims :
    LET answer == Reshape(tensor, new_rows, new_cols)
        shapes == ShapesAsked(tensor, new_rows, new_cols)
    IN  IF Cardinality(shapes) = 1 /\ ~ (new_rows = -1 /\ new_cols = -1)
        THEN <<answer.rows, answer.cols>> \in shapes /\ Data(answer) = Data(tensor)
        ELSE answer = Rejected

(* unsqueeze, whose loops and sizes are written out once more, agrees with *)
(* reshape to a row or a column wherever it accepts its input: it is the   *)
(* "flattened representation consistent with the rest of the kernels"      *)
(* (unsqueeze.h:12-14), and it accepts scalars and vectors only.           *)
UnsqueezeIsReshape ==
  \A axis \in Axes :
    Unsqueeze(tensor, axis) =
      IF BadAxis(axis) \/ 1 \notin {tensor.rows, tensor.cols} THEN Rejected
      ELSE IF axis \in {0, -2} THEN Reshape(tensor, 1, -1)
           ELSE Reshape(tensor, -1, 1)

(* Rows of A at the indices, in row-major order, negative ones from the    *)
(* end: Gather as ONNX defines it, for axis 0.                             *)
RowsAt(A, indices) ==
  Matrix(Size(indices), A.cols,
         LAMBDA k, j : At(A, Data(indices)[k] % A.rows, j))

(* gather returns the rows (columns) that ONNX's definition names, for     *)
(* indices of any shape, and rejects an index outside [-extent, extent).   *)
GatherFollowsOnnx ==
  \A indices \in IndexMatrices :
    LET InRange(extent) == Range(indices.at) \subseteq -extent .. extent - 1
    IN  \A axis \in Axes :
          Gather(tensor, indices, axis) =
            CASE axis \in {0, -2} /\ InRange(tensor.rows) ->
                   RowsAt(tensor, indices)
              [] axis \in {1, -1} /\ InRange(tensor.cols) ->
                   Transpose(RowsAt(Transpose(tensor), indices))
              [] OTHER -> Rejected

(* The vector <<first, first + 1, ..., first + count - 1>> of indices.     *)
Indices(first, count) == Matrix(count, 1, LAMBDA i, j : first + i)

(* What concat joins, gather takes apart again: the first part by indices  *)
(* from the start, the second by negative ones from the end, along the     *)
(* same axis however it is given.  The two fit exactly when their extents  *)
(* along the other axis agree.                                             *)
GatherUndoesConcat ==
  \A other \in Operands, axis \in -2 .. 1 :
    LET both == Concat(tensor, other, axis)
        Length(A) == Extent(A, Axis(axis))
    IN  IF Extent(tensor, 1 - Axis(axis)) = Extent(other, 1 - Axis(axis))
        THEN /\ Gather(both, Indices(0, Length(tensor)), axis) = tensor
             /\ Gather(both, Indices(- Length(other), Length(other)), axis) = other
        ELSE both = Rejected

(* The sum over both axes may be taken in two calls in either order, and   *)
(* neither the order nor the spelling of the axes in the vector matters:   *)
(* an axis named twice, as 1 and -1 too, is reduced once.                  *)
ReduceSumComposes ==
  LET both == ReduceSum(tensor, <<0, 1>>)
  IN  \A a, b \in -2 .. 1 :
        /\ ReduceSum(ReduceSum(tensor, <<a>>), <<b>>) =
             IF Axis(a) = Axis(b) THEN ReduceSum(tensor, <<a>>) ELSE both
        /\ ReduceSum(tensor, <<a, b>>) =
             IF Axis(a) = Axis(b) THEN ReduceSum(tensor, <<b>>) ELSE both

(* Broadcasting as Numpy defines it: dimensions agree or one of them is 1, *)
(* which then takes the size of the other.                                 *)
Common(m, n) == IF m = 1 THEN n ELSE m

Compatible(A, B) ==
  /\ A.rows = B.rows \/ 1 \in {A.rows, B.rows}
  /\ A.cols = B.cols \/ 1 \in {A.cols, B.cols}

BroadcastDifference(A, B) ==
  IF Compatible(A, B)
  THEN Matrix(Common(A.rows, B.rows), Common(A.cols, B.cols),
         LAMBDA i, j : At(A, i % A.rows, j % A.cols) - At(B, i % B.rows, j % B.cols))
  ELSE Rejected

(* sub broadcasts either operand, along either axis, and both at once, as  *)
(* Numpy does, and rejects all other shapes, whenever both operands have   *)
(* entries.                                                                *)
SubBroadcasts ==
  \A other \in Operands :
    Size(tensor) > 0 /\ Size(other) > 0 =>
      /\ Sub(tensor, other) = BroadcastDifference(tensor, other)
      /\ Sub(other, tensor) = BroadcastDifference(other, tensor)

(* "A dimension of size 1 is broadcast to the other operand's size,        *)
(* matching ONNX Sub for 2-D tensors" (sub.h:13-14), 0 being such a size.  *)
SubBroadcastsToAnySize ==
  \A other \in Operands :
    Sub(tensor, other) = BroadcastDifference(tensor, other)
=============================================================================
