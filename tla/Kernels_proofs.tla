--------------------------- MODULE Kernels_proofs ---------------------------
(***************************************************************************)
(* Proofs about KernelChain, for matrices of any size and all arguments:   *)
(* what each kernel returns is what its ONNX definition says.              *)
(***************************************************************************)
EXTENDS KernelChain, DataInduction

(* A record of dimensions and of something for each place.                 *)
IsArray(A) ==
  /\ A.rows \in Nat /\ A.cols \in Nat
  /\ A.at = [p \in Entries(A.rows, A.cols) |-> A.at[p]]
  /\ A = [rows |-> A.rows, cols |-> A.cols, at |-> A.at]

LEMMA MatrixParts ==
  ASSUME NEW A, IsMatrix(A)
  PROVE  /\ A.rows \in Nat /\ A.cols \in Nat
         /\ A.at \in [Entries(A.rows, A.cols) -> Int]
         /\ \A i \in 0 .. A.rows - 1, j \in 0 .. A.cols - 1 : At(A, i, j) \in Int
BY DEF At, IsMatrix, Entries

(* Matrices are equal when their dimensions and entries are.               *)
LEMMA SameMatrix ==
  ASSUME NEW A, IsMatrix(A), NEW B, IsMatrix(B), A.rows = B.rows, A.cols = B.cols,
         \A i \in 0 .. A.rows - 1, j \in 0 .. A.cols - 1 : At(A, i, j) = At(B, i, j)
  PROVE  A = B
<1>1. \A p \in Entries(A.rows, A.cols) : A.at[p] = B.at[p]
  BY DEF Entries, At
<1>2. A.at = B.at
  BY <1>1 DEF IsMatrix
<1>. QED
  BY <1>2 DEF IsMatrix

LEMMA TransposeIs ==
  ASSUME NEW A, IsMatrix(A)
  PROVE  /\ IsMatrix(Transpose(A))
         /\ Transpose(A).rows = A.cols /\ Transpose(A).cols = A.rows
         /\ \A i \in 0 .. A.cols - 1, j \in 0 .. A.rows - 1 : At(Transpose(A), i, j) = At(A, j, i)
BY DEF At, IsMatrix, Transpose, Matrix, Entries

LEMMA ShapeIs ==
  ASSUME NEW A, IsMatrix(A)
  PROVE  IsMatrix(Shape(A))
BY DEF At, IsMatrix, Shape, Matrix, Entries

(* Places in row-major order. *)
LEMMA DivMod ==
  ASSUME NEW n \in Nat \ {0}, NEW k \in Nat
  PROVE  /\ k \div n \in Nat /\ k % n \in 0 .. n - 1
         /\ k = (k \div n) * n + (k % n)
OBVIOUS

LEMMA PlaceOf ==
  ASSUME NEW rows \in Nat, NEW cols \in Nat, NEW k \in 0 .. rows * cols - 1
  PROVE  /\ cols > 0
         /\ k \div cols \in 0 .. rows - 1 /\ k % cols \in 0 .. cols - 1
         /\ k = (k \div cols) * cols + (k % cols)
         /\ RowMajor(k, cols) = <<k \div cols, k % cols>>
<1>1. cols > 0
  OBVIOUS
<1>2. /\ k \div cols \in Nat /\ k % cols \in 0 .. cols - 1
      /\ k = (k \div cols) * cols + (k % cols)
  BY <1>1, DivMod
<1>3. k \div cols < rows
  <2>1. SUFFICES ASSUME k \div cols >= rows PROVE FALSE
    BY <1>2
  <2>2. (k \div cols) * cols >= rows * cols
    BY <1>1, <1>2, <2>1
  <2>. QED
    BY <1>2, <2>2
<1>. QED
  BY <1>1, <1>2, <1>3 DEF RowMajor

LEMMA PlaceAt ==
  ASSUME NEW rows \in Nat, NEW cols \in Nat, NEW i \in 0 .. rows - 1, NEW j \in 0 .. cols - 1
  PROVE  /\ i * cols + j \in 0 .. rows * cols - 1
         /\ (i * cols + j) \div cols = i /\ (i * cols + j) % cols = j
<1>1. cols > 0 /\ i * cols + j \in Nat
  OBVIOUS
<1>2. i * cols + j < rows * cols
  <2>1. (i + 1) * cols <= rows * cols
    OBVIOUS
  <2>2. (i + 1) * cols = i * cols + cols
    OBVIOUS
  <2>. QED
    BY <2>1, <2>2
<1>3. (i * cols + j) \div cols = i /\ (i * cols + j) % cols = j
  OBVIOUS
<1>. QED
  BY <1>1, <1>2, <1>3
-----------------------------------------------------------------------------
(* Whatever a kernel is given, it returns an array or rejects.             *)

LEMMA TransposeArray ==
  ASSUME NEW A, IsMatrix(A) PROVE IsArray(Transpose(A))
BY DEF IsMatrix, IsArray, Transpose, Matrix

LEMMA ShapeArray ==
  ASSUME NEW A, IsMatrix(A) PROVE IsArray(Shape(A))
BY DEF IsMatrix, IsArray, Shape, Matrix

LEMMA ReshapedDimsAre ==
  ASSUME NEW rows \in Nat, NEW cols \in Nat, NEW new_rows \in Int, NEW new_cols \in Int,
         ReshapedDims(rows, cols, new_rows, new_cols) # NoDims
  PROVE  LET dims == ReshapedDims(rows, cols, new_rows, new_cols)
         IN  /\ dims.rows \in Nat /\ dims.cols \in Nat
             /\ dims.rows * dims.cols = rows * cols
<1> DEFINE total == rows * cols
           ar == CopiedDim(new_rows, rows)
           ac == CopiedDim(new_cols, cols)
           tr == Inferred(ar, ac, total)
           tc == Inferred(ac, ar, total)
<1>1. /\ ReshapedDims(rows, cols, new_rows, new_cols) = [rows |-> tr, cols |-> tc]
      /\ new_rows >= -1 /\ new_cols >= -1 /\ ~(ar = -1 /\ ac = -1)
      /\ ~CannotInfer(ar, ac, total) /\ ~CannotInfer(ac, ar, total)
      /\ tr * tc = total
  BY DEF ReshapedDims
<1>2. total \in Nat
  OBVIOUS
<1>3. /\ ar \in Nat \cup {-1} /\ ac \in Nat \cup {-1}
  BY <1>1 DEF CopiedDim
<1>. HIDE DEF total, ar, ac
<1>4. tr \in Nat
  <2>1. CASE ar = -1
    <3>1. ac \in Nat \ {0}
      BY <1>1, <1>3, <2>1 DEF CannotInfer
    <3>. QED
      BY <1>2, <2>1, <3>1, DivMod DEF Inferred
  <2>2. CASE ar # -1
    BY <1>3, <2>2 DEF Inferred
  <2>. QED
    BY <2>1, <2>2
<1>5. tc \in Nat
  <2>1. CASE ac = -1
    <3>1. ar \in Nat \ {0}
      BY <1>1, <1>3, <2>1 DEF CannotInfer
    <3>. QED
      BY <1>2, <2>1, <3>1, DivMod DEF Inferred
  <2>2. CASE ac # -1
    BY <1>3, <2>2 DEF Inferred
  <2>. QED
    BY <2>1, <2>2
<1>. HIDE DEF tr, tc
<1>. QED
  BY <1>1, <1>4, <1>5 DEF total

LEMMA ReshapeArray ==
  ASSUME NEW A, IsMatrix(A), NEW new_rows \in Int, NEW new_cols \in Int,
         Reshape(A, new_rows, new_cols) # Rejected
  PROVE  IsArray(Reshape(A, new_rows, new_cols))
<1> DEFINE dims == ReshapedDims(A.rows, A.cols, new_rows, new_cols)
<1>1. dims # NoDims
  BY DEF Reshape
<1>2. dims.rows \in Nat /\ dims.cols \in Nat
  BY <1>1, ReshapedDimsAre DEF IsMatrix
<1>. HIDE DEF dims
<1>3. Reshape(A, new_rows, new_cols) =
        Matrix(dims.rows, dims.cols, LAMBDA i, j : A.at[RowMajor(i * dims.cols + j, A.cols)])
  BY <1>1 DEF Reshape, dims
<1>. QED
  BY <1>2, <1>3 DEF Matrix, IsArray

LEMMA SizeNatural ==
  ASSUME NEW A, IsMatrix(A) PROVE Size(A) \in Nat
BY DEF IsMatrix, Size

LEMMA UnsqueezeArray ==
  ASSUME NEW A, IsMatrix(A), NEW axis \in Int, Unsqueeze(A, axis) # Rejected
  PROVE  IsArray(Unsqueeze(A, axis))
<1>1. Size(A) \in Nat
  BY SizeNatural
<1>. QED
  BY <1>1 DEF Unsqueeze, Matrix, IsArray

LEMMA GatherArray ==
  ASSUME NEW A, IsMatrix(A), NEW indices, IsMatrix(indices), NEW axis \in Int,
         Gather(A, indices, axis) # Rejected
  PROVE  IsArray(Gather(A, indices, axis))
<1>1. Size(indices) \in Nat /\ A.rows \in Nat /\ A.cols \in Nat
  BY SizeNatural DEF IsMatrix
<1>. QED
  BY <1>1 DEF Gather, Matrix, IsArray

LEMMA ConcatArray ==
  ASSUME NEW A, IsMatrix(A), NEW B, IsMatrix(B), NEW axis \in Int,
         Concat(A, B, axis) # Rejected
  PROVE  IsArray(Concat(A, B, axis))
<1>1. A.rows \in Nat /\ A.cols \in Nat /\ B.rows \in Nat /\ B.cols \in Nat
  BY DEF IsMatrix
<1>2. A.rows + B.rows \in Nat /\ A.cols + B.cols \in Nat
  BY <1>1
<1>. QED
  BY <1>1, <1>2 DEF Concat, Matrix, IsArray

LEMMA SubArray ==
  ASSUME NEW A, IsMatrix(A), NEW B, IsMatrix(B), Sub(A, B) # Rejected
  PROVE  IsArray(Sub(A, B))
<1>1. Larger(A.rows, B.rows) \in Nat /\ Larger(A.cols, B.cols) \in Nat
  BY DEF IsMatrix, Larger
<1>. QED
  BY <1>1 DEF Sub, Matrix, IsArray

LEMMA ReduceSumArray ==
  ASSUME NEW A, IsMatrix(A), NEW axes, ReduceSum(A, axes) # Rejected
  PROVE  IsArray(ReduceSum(A, axes))
<1>1. A.rows \in Nat /\ A.cols \in Nat
  BY DEF IsMatrix
<1>. QED
  BY <1>1 DEF ReduceSum, Matrix, IsArray

-----------------------------------------------------------------------------
(* The chain. *)

LEMMA ReturnedMatrix ==
  ASSUME NEW answer, answer # Rejected => IsArray(answer), Returned(answer)
  PROVE  IsMatrix(tensor)'
<1>1. tensor' = answer /\ IsArray(answer) /\ \A p \in DOMAIN answer.at : answer.at[p] \in Values
  BY DEF Returned, Range
<1>2. answer.at \in [Entries(answer.rows, answer.cols) -> Int]
  BY <1>1, ArgumentAssumption DEF IsArray
<1>. QED
  BY <1>1, <1>2 DEF IsArray, IsMatrix

(* Every tensor of a chain is a matrix: entries for the places within its  *)
(* dimensions and no others.                                               *)
THEOREM ChainInvariance == Spec => []IsMatrix(tensor)
<1>1. Init => IsMatrix(tensor)
  BY MatrixAssumption DEF Init
<1>2. IsMatrix(tensor) /\ [Next]_tensor => IsMatrix(tensor)'
  <2>1. SUFFICES ASSUME IsMatrix(tensor), [Next]_tensor PROVE IsMatrix(tensor)'
    OBVIOUS
  <2>2. CASE CallTranspose
    BY <2>1, <2>2, TransposeArray, ReturnedMatrix DEF CallTranspose
  <2>3. CASE CallShape
    BY <2>1, <2>3, ShapeArray, ReturnedMatrix DEF CallShape
  <2>4. CASE CallReshape
    BY <2>1, <2>4, ReshapeArray, ReturnedMatrix, ArgumentAssumption DEF CallReshape
  <2>5. CASE CallUnsqueeze
    BY <2>1, <2>5, UnsqueezeArray, ReturnedMatrix, ArgumentAssumption DEF CallUnsqueeze
  <2>6. CASE CallGather
    BY <2>1, <2>6, GatherArray, ReturnedMatrix, ArgumentAssumption, MatrixAssumption DEF CallGather
  <2>7. CASE CallConcat
    BY <2>1, <2>7, ConcatArray, ReturnedMatrix, ArgumentAssumption, MatrixAssumption DEF CallConcat
  <2>8. CASE CallSub
    BY <2>1, <2>8, SubArray, ReturnedMatrix, MatrixAssumption DEF CallSub
  <2>9. CASE CallReduceSum
    BY <2>1, <2>9, ReduceSumArray, ReturnedMatrix DEF CallReduceSum
  <2>10. CASE UNCHANGED tensor
    BY <2>1, <2>10 DEF IsMatrix
  <2>. QED
    BY <2>1, <2>2, <2>3, <2>4, <2>5, <2>6, <2>7, <2>8, <2>9, <2>10 DEF Next
<1>. QED
  BY <1>1, <1>2, PTL DEF Spec

(* The entries of every tensor exist exactly within its dimensions.        *)
THEOREM KernelTypes == Spec => []TypeOK
<1>1. IsMatrix(tensor) => TypeOK
  BY DEF IsMatrix, TypeOK, Range
<1>. QED
  BY <1>1, ChainInvariance, PTL

-----------------------------------------------------------------------------
(* sub. *)

LEMMA Broadcast ==
  ASSUME NEW m \in Nat \ {0}, NEW n \in Nat \ {0}
  PROVE  /\ Broadcastable(m, Larger(m, n)) /\ Broadcastable(n, Larger(m, n))
              <=> (m = n \/ 1 \in {m, n})
         /\ (m = n \/ 1 \in {m, n}) =>
              /\ Larger(m, n) = Common(m, n)
              /\ \A i \in 0 .. Common(m, n) - 1 : i % m = Operand(i, m) /\ i % n = Operand(i, n)
<1>1. \A i \in Nat : i % 1 = 0
  OBVIOUS
<1>2. \A i \in Nat, k \in Nat \ {0} : i < k => i % k = i
  OBVIOUS
<1>. QED
  BY <1>1, <1>2 DEF Broadcastable, Larger, Common, Operand

LEMMA NotEmpty ==
  ASSUME NEW A, IsMatrix(A), Size(A) > 0
  PROVE  A.rows \in Nat \ {0} /\ A.cols \in Nat \ {0}
<1>1. A.rows \in Nat /\ A.cols \in Nat /\ A.rows * A.cols > 0
  BY DEF IsMatrix, Size
<1>. QED
  BY <1>1

LEMMA SubIs ==
  ASSUME NEW A, IsMatrix(A), Size(A) > 0, NEW B, IsMatrix(B), Size(B) > 0
  PROVE  Sub(A, B) = BroadcastDifference(A, B)
<1> DEFINE rows == Common(A.rows, B.rows)
           cols == Common(A.cols, B.cols)
<1>1. /\ A.rows \in Nat \ {0} /\ A.cols \in Nat \ {0}
      /\ B.rows \in Nat \ {0} /\ B.cols \in Nat \ {0}
  BY NotEmpty
<1>2. Compatible(A, B) <=>
        \A X \in {A, B} : /\ Broadcastable(X.rows, Larger(A.rows, B.rows))
                          /\ Broadcastable(X.cols, Larger(A.cols, B.cols))
  BY <1>1, Broadcast DEF Compatible
<1>3. CASE ~Compatible(A, B)
  BY <1>2, <1>3 DEF Sub, BroadcastDifference
<1>4. CASE Compatible(A, B)
  <2>1. /\ Larger(A.rows, B.rows) = rows /\ Larger(A.cols, B.cols) = cols
        /\ \A i \in 0 .. rows - 1 : i % A.rows = Operand(i, A.rows) /\ i % B.rows = Operand(i, B.rows)
        /\ \A j \in 0 .. cols - 1 : j % A.cols = Operand(j, A.cols) /\ j % B.cols = Operand(j, B.cols)
    BY <1>1, <1>4, Broadcast DEF Compatible
  <2>. HIDE DEF rows, cols
  <2>2. Sub(A, B) = Matrix(rows, cols,
                      LAMBDA i, j : At(A, Operand(i, A.rows), Operand(j, A.cols))
                                    - At(B, Operand(i, B.rows), Operand(j, B.cols)))
    BY <1>2, <1>4, <2>1 DEF Sub
  <2>3. BroadcastDifference(A, B) = Matrix(rows, cols,
                      LAMBDA i, j : At(A, i % A.rows, j % A.cols) - At(B, i % B.rows, j % B.cols))
    BY <1>4 DEF BroadcastDifference, rows, cols
  <2>4. \A p \in Entries(rows, cols) :
          /\ p[1] % A.rows = Operand(p[1], A.rows) /\ p[1] % B.rows = Operand(p[1], B.rows)
          /\ p[2] % A.cols = Operand(p[2], A.cols) /\ p[2] % B.cols = Operand(p[2], B.cols)
    BY <2>1 DEF Entries
  <2>. QED
    BY <2>2, <2>3, <2>4 DEF Matrix
<1>. QED
  BY <1>3, <1>4

(* sub broadcasts operands of any sizes as Numpy does and rejects all      *)
(* others, if both have entries.                                           *)
THEOREM SubFollowsNumpy == Spec => []SubBroadcasts
<1>1. IsMatrix(tensor) => SubBroadcasts
  BY MatrixAssumption, SubIs DEF SubBroadcasts
<1>. QED
  BY <1>1, ChainInvariance, PTL

-----------------------------------------------------------------------------
(* unsqueeze. *)

LEMMA FlattenedDims ==
  ASSUME NEW rows \in Nat, NEW cols \in Nat
  PROVE  /\ ReshapedDims(rows, cols, 1, -1) = [rows |-> 1, cols |-> rows * cols]
         /\ ReshapedDims(rows, cols, -1, 1) = [rows |-> rows * cols, cols |-> 1]
<1> DEFINE total == rows * cols
<1>1. total \in Nat
  OBVIOUS
<1>. HIDE DEF total
<1>2. total % 1 = 0 /\ total \div 1 = total /\ 1 * total = total /\ total * 1 = total
  BY <1>1
<1>3. CopiedDim(1, rows) = 1 /\ CopiedDim(-1, cols) = -1 /\ CopiedDim(-1, rows) = -1 /\ CopiedDim(1, cols) = 1
  BY DEF CopiedDim
<1>4. ~CannotInfer(-1, 1, total) /\ ~CannotInfer(1, -1, total)
  BY <1>2 DEF CannotInfer
<1>5. Inferred(-1, 1, total) = total /\ Inferred(1, -1, total) = 1
  BY <1>2 DEF Inferred
<1>. QED
  BY <1>2, <1>3, <1>4, <1>5 DEF ReshapedDims, total

LEMMA UnsqueezeIs ==
  ASSUME NEW A, IsMatrix(A), NEW axis \in Int
  PROVE  Unsqueeze(A, axis) =
           IF BadAxis(axis) \/ 1 \notin {A.rows, A.cols} THEN Rejected
           ELSE IF axis \in {0, -2} THEN Reshape(A, 1, -1)
                ELSE Reshape(A, -1, 1)
<1> DEFINE n == Size(A)
<1>1. n \in Nat /\ n = A.rows * A.cols /\ A.rows \in Nat /\ A.cols \in Nat
  BY SizeNatural DEF Size, IsMatrix
<1>. HIDE DEF n
<1>2. Reshape(A, 1, -1) = Matrix(1, n, LAMBDA i, j : A.at[RowMajor(i + j, A.cols)])
  <2> DEFINE dims == ReshapedDims(A.rows, A.cols, 1, -1)
  <2>1. dims.rows = 1 /\ dims.cols = n /\ dims # NoDims
    <3>1. dims = [rows |-> 1, cols |-> n]
      BY <1>1, FlattenedDims
    <3>. HIDE DEF dims
    <3>. QED
      BY <1>1, <3>1 DEF NoDims
  <2>. HIDE DEF dims
  <2>2. Reshape(A, 1, -1) =
          [rows |-> dims.rows, cols |-> dims.cols,
           at |-> [p \in Entries(dims.rows, dims.cols) |-> A.at[RowMajor(p[1] * dims.cols + p[2], A.cols)]]]
    BY <2>1 DEF Reshape, Matrix, dims
  <2>3. \A p \in Entries(1, n) : p[1] * n + p[2] = p[1] + p[2]
    BY <1>1 DEF Entries
  <2>. QED
    BY <2>1, <2>2, <2>3 DEF Matrix
<1>3. Reshape(A, -1, 1) = Matrix(n, 1, LAMBDA i, j : A.at[RowMajor(i + j, A.cols)])
  <2> DEFINE dims == ReshapedDims(A.rows, A.cols, -1, 1)
  <2>1. dims.rows = n /\ dims.cols = 1 /\ dims # NoDims
    <3>1. dims = [rows |-> n, cols |-> 1]
      BY <1>1, FlattenedDims
    <3>. HIDE DEF dims
    <3>. QED
      BY <1>1, <3>1 DEF NoDims
  <2>. HIDE DEF dims
  <2>2. Reshape(A, -1, 1) =
          [rows |-> dims.rows, cols |-> dims.cols,
           at |-> [p \in Entries(dims.rows, dims.cols) |-> A.at[RowMajor(p[1] * dims.cols + p[2], A.cols)]]]
    BY <2>1 DEF Reshape, Matrix, dims
  <2>3. \A p \in Entries(n, 1) : p[1] * 1 + p[2] = p[1] + p[2]
    BY <1>1 DEF Entries
  <2>. QED
    BY <2>1, <2>2, <2>3 DEF Matrix
<1>4. ~BadAxis(axis) => (Axis(axis) = 0 <=> axis \in {0, -2})
  BY DEF BadAxis, Axis
<1>5. Unsqueeze(A, axis) =
        IF BadAxis(axis) \/ 1 \notin {A.rows, A.cols} THEN Rejected
        ELSE IF Axis(axis) = 0
             THEN Matrix(1, n, LAMBDA i, j : A.at[RowMajor(i + j, A.cols)])
             ELSE Matrix(n, 1, LAMBDA i, j : A.at[RowMajor(i + j, A.cols)])
  BY DEF Unsqueeze, n
<1>. QED
  BY <1>2, <1>3, <1>4, <1>5

(* unsqueeze is reshape to a row or a column, of vectors of any length.    *)
THEOREM UnsqueezeFlattens == Spec => []UnsqueezeIsReshape
<1>1. IsMatrix(tensor) => UnsqueezeIsReshape
  BY ArgumentAssumption, UnsqueezeIs DEF UnsqueezeIsReshape
<1>. QED
  BY <1>1, ChainInvariance, PTL

-----------------------------------------------------------------------------
(* gather. *)

LEMMA FromEndIs ==
  ASSUME NEW e \in Nat, NEW x \in Int
  PROVE  /\ FromEnd(x, e) \in 0 .. e - 1 <=> x \in -e .. e - 1
         /\ x \in -e .. e - 1 => e > 0 /\ FromEnd(x, e) = x % e
<1>1. FromEnd(x, e) \in 0 .. e - 1 <=> x \in -e .. e - 1
  BY DEF FromEnd
<1>2. CASE x \in 0 .. e - 1
  BY <1>1, <1>2 DEF FromEnd
<1>3. CASE x \in -e .. -1
  <2>1. e > 0 /\ x + e \in 0 .. e - 1
    BY <1>3
  <2>2. (x + e) % e = x + e /\ (x + e) % e = x % e
    BY <2>1
  <2>. QED
    BY <1>1, <1>3, <2>1, <2>2 DEF FromEnd
<1>. QED
  BY <1>1, <1>2, <1>3

(* The loops of gather visit every index, and no place outside.            *)
LEMMA IndexIs ==
  ASSUME NEW indices, IsMatrix(indices), NEW k \in 0 .. Size(indices) - 1
  PROVE  /\ Index(indices, k) \in Range(indices.at)
         /\ Index(indices, k) \in Int
         /\ Data(indices)[k] = Index(indices, k)
<1>1. /\ k \div indices.cols \in 0 .. indices.rows - 1 /\ k % indices.cols \in 0 .. indices.cols - 1
      /\ RowMajor(k, indices.cols) = <<k \div indices.cols, k % indices.cols>>
  BY PlaceOf DEF IsMatrix, Size
<1>2. RowMajor(k, indices.cols) \in Entries(indices.rows, indices.cols)
  BY <1>1 DEF Entries
<1>3. Data(indices)[k] = indices.at[RowMajor(k, indices.cols)]
  BY <1>1 DEF Data, At
<1>. QED
  BY <1>2, <1>3 DEF IsMatrix, Index, Range

LEMMA IndicesVisited ==
  ASSUME NEW indices, IsMatrix(indices), NEW x \in Range(indices.at)
  PROVE  x \in Int /\ \E k \in 0 .. Size(indices) - 1 : x = Index(indices, k)
<1>1. PICK p \in Entries(indices.rows, indices.cols) : x = indices.at[p]
  BY DEF Range, IsMatrix
<1>2. PICK i \in 0 .. indices.rows - 1, j \in 0 .. indices.cols - 1 : p = <<i, j>>
  BY DEF Entries
<1> DEFINE k == i * indices.cols + j
<1>3. k \in 0 .. Size(indices) - 1 /\ k \div indices.cols = i /\ k % indices.cols = j
  BY PlaceAt DEF IsMatrix, Size
<1>. HIDE DEF k
<1>4. x = Index(indices, k)
  BY <1>1, <1>2, <1>3 DEF Index, RowMajor
<1>. QED
  BY <1>1, <1>3, <1>4 DEF IsMatrix

InRange(indices, extent) == Range(indices.at) \subseteq -extent .. extent - 1

LEMMA OutOfRange ==
  ASSUME NEW indices, IsMatrix(indices), NEW extent \in Nat
  PROVE  InRange(indices, extent) <=>
           \A k \in 0 .. Size(indices) - 1 : FromEnd(Index(indices, k), extent) \in 0 .. extent - 1
<1>1. ASSUME InRange(indices, extent), NEW k \in 0 .. Size(indices) - 1
      PROVE  FromEnd(Index(indices, k), extent) \in 0 .. extent - 1
  <2>1. Index(indices, k) \in Int /\ Index(indices, k) \in -extent .. extent - 1
    BY <1>1, IndexIs DEF InRange
  <2>. QED
    BY <2>1, FromEndIs
<1>2. ASSUME \A k \in 0 .. Size(indices) - 1 : FromEnd(Index(indices, k), extent) \in 0 .. extent - 1,
             NEW x \in Range(indices.at)
      PROVE  x \in -extent .. extent - 1
  <2>1. PICK k \in 0 .. Size(indices) - 1 : x = Index(indices, k)
    BY IndicesVisited
  <2>. QED
    BY <1>2, <2>1, IndicesVisited, FromEndIs
<1>. QED
  BY <1>1, <1>2 DEF InRange

(* What an index in range picks. *)
LEMMA Picks ==
  ASSUME NEW indices, IsMatrix(indices), NEW extent \in Nat, InRange(indices, extent),
         NEW k \in 0 .. Size(indices) - 1
  PROVE  /\ FromEnd(Index(indices, k), extent) \in 0 .. extent - 1
         /\ FromEnd(Index(indices, k), extent) = Data(indices)[k] % extent
<1>1. Index(indices, k) \in Int /\ Index(indices, k) \in -extent .. extent - 1
      /\ Data(indices)[k] = Index(indices, k)
  BY IndexIs DEF InRange
<1>. QED
  BY <1>1, FromEndIs

LEMMA GatheredRows ==
  ASSUME NEW A, IsMatrix(A), NEW indices, IsMatrix(indices), InRange(indices, A.rows)
  PROVE  RowsAt(A, indices) =
           [rows |-> Size(indices), cols |-> A.cols,
            at |-> [p \in Entries(Size(indices), A.cols) |->
                      At(A, FromEnd(Index(indices, p[1]), A.rows), p[2])]]
<1>1. \A k \in 0 .. Size(indices) - 1 : FromEnd(Index(indices, k), A.rows) = Data(indices)[k] % A.rows
  BY Picks DEF IsMatrix
<1>2. \A p \in Entries(Size(indices), A.cols) :
        FromEnd(Index(indices, p[1]), A.rows) = Data(indices)[p[1]] % A.rows
  BY <1>1 DEF Entries
<1>. QED
  BY <1>2 DEF Matrix, RowsAt

LEMMA GatheredColumns ==
  ASSUME NEW A, IsMatrix(A), NEW indices, IsMatrix(indices), InRange(indices, A.cols)
  PROVE  Transpose(RowsAt(Transpose(A), indices)) =
           [rows |-> A.rows, cols |-> Size(indices),
            at |-> [p \in Entries(A.rows, Size(indices)) |->
                      At(A, p[1], FromEnd(Index(indices, p[2]), A.cols))]]
<1> DEFINE T == Transpose(A)
           R == RowsAt(T, indices)
           n == Size(indices)
<1>1. /\ IsMatrix(T) /\ T.rows = A.cols /\ T.cols = A.rows
      /\ \A i \in 0 .. A.cols - 1, j \in 0 .. A.rows - 1 : At(T, i, j) = At(A, j, i)
  BY TransposeIs
<1>2. n \in Nat /\ A.rows \in Nat /\ A.cols \in Nat
  BY SizeNatural DEF IsMatrix
<1>. HIDE DEF T
<1>3. R = [rows |-> n, cols |-> A.rows,
           at |-> [p \in Entries(n, A.rows) |-> At(T, Data(indices)[p[1]] % A.cols, p[2])]]
  BY <1>1 DEF RowsAt, Matrix
<1>. HIDE DEF R, n
<1>4. ASSUME NEW j \in 0 .. n - 1, NEW i \in 0 .. A.rows - 1
      PROVE  At(R, j, i) = At(A, i, FromEnd(Index(indices, j), A.cols))
  <2> DEFINE place == Data(indices)[j] % A.cols
  <2>1. place \in 0 .. A.cols - 1 /\ FromEnd(Index(indices, j), A.cols) = place
    BY <1>2, Picks DEF n
  <2>. HIDE DEF place
  <2>2. <<j, i>> \in Entries(n, A.rows)
    BY DEF Entries
  <2>3. At(R, j, i) = At(T, place, i)
    BY <1>3, <2>2 DEF At, place
  <2>. QED
    BY <1>1, <2>1, <2>3
<1>5. \A p \in Entries(A.rows, n) :
        At(R, p[2], p[1]) = At(A, p[1], FromEnd(Index(indices, p[2]), A.cols))
  BY <1>4 DEF Entries
<1>6. Transpose(R) = [rows |-> A.rows, cols |-> n,
                      at |-> [p \in Entries(A.rows, n) |-> At(R, p[2], p[1])]]
  <2>1. R.rows = n /\ R.cols = A.rows
    BY <1>3
  <2>. QED
    BY <2>1 DEF Transpose, Matrix
<1>. QED
  BY <1>5, <1>6 DEF Matrix, R, n, T

LEMMA GatherIs ==
  ASSUME NEW A, IsMatrix(A), NEW indices, IsMatrix(indices), NEW axis \in Int
  PROVE  Gather(A, indices, axis) =
           CASE axis \in {0, -2} /\ InRange(indices, A.rows) -> RowsAt(A, indices)
             [] axis \in {1, -1} /\ InRange(indices, A.cols) ->
                  Transpose(RowsAt(Transpose(A), indices))
             [] OTHER -> Rejected
<1>1. A.rows \in Nat /\ A.cols \in Nat
  BY DEF IsMatrix
<1>2. CASE axis \in {0, -2}
  <2>1. ~BadAxis(axis) /\ Axis(axis) = 0 /\ Extent(A, 0) = A.rows
    BY <1>2 DEF BadAxis, Axis, Extent
  <2>2. axis \notin {1, -1}
    BY <1>2
  <2>3. CASE ~InRange(indices, A.rows)
    <3>1. PICK k \in 0 .. Size(indices) - 1 :
            FromEnd(Index(indices, k), A.rows) \notin 0 .. A.rows - 1
      BY <1>1, <2>3, OutOfRange
    <3>2. Gather(A, indices, axis) = Rejected
      BY <2>1, <3>1 DEF Gather
    <3>. QED
      BY <1>2, <2>2, <2>3, <3>2
  <2>4. CASE InRange(indices, A.rows)
    <3>1. \A k \in 0 .. Size(indices) - 1 :
            FromEnd(Index(indices, k), A.rows) \in 0 .. A.rows - 1
      BY <1>1, <2>4, OutOfRange
    <3>2. Gather(A, indices, axis) =
            [rows |-> Size(indices), cols |-> A.cols,
             at |-> [p \in Entries(Size(indices), A.cols) |->
                       At(A, FromEnd(Index(indices, p[1]), A.rows), p[2])]]
      BY <2>1, <3>1 DEF Gather, Matrix
    <3>3. Gather(A, indices, axis) = RowsAt(A, indices)
      BY <2>4, <3>2, GatheredRows
    <3>. QED
      BY <1>2, <2>2, <2>4, <3>3
  <2>. QED
    BY <2>3, <2>4
<1>3. CASE axis \in {1, -1}
  <2>1. ~BadAxis(axis) /\ Axis(axis) = 1 /\ Extent(A, 1) = A.cols
    BY <1>3 DEF BadAxis, Axis, Extent
  <2>2. axis \notin {0, -2}
    BY <1>3
  <2>3. CASE ~InRange(indices, A.cols)
    <3>1. PICK k \in 0 .. Size(indices) - 1 :
            FromEnd(Index(indices, k), A.cols) \notin 0 .. A.cols - 1
      BY <1>1, <2>3, OutOfRange
    <3>2. Gather(A, indices, axis) = Rejected
      BY <2>1, <3>1 DEF Gather
    <3>. QED
      BY <1>3, <2>2, <2>3, <3>2
  <2>4. CASE InRange(indices, A.cols)
    <3>1. \A k \in 0 .. Size(indices) - 1 :
            FromEnd(Index(indices, k), A.cols) \in 0 .. A.cols - 1
      BY <1>1, <2>4, OutOfRange
    <3>2. Gather(A, indices, axis) =
            [rows |-> A.rows, cols |-> Size(indices),
             at |-> [p \in Entries(A.rows, Size(indices)) |->
                       At(A, p[1], FromEnd(Index(indices, p[2]), A.cols))]]
      BY <2>1, <3>1 DEF Gather, Matrix
    <3>3. Gather(A, indices, axis) = Transpose(RowsAt(Transpose(A), indices))
      BY <2>4, <3>2, GatheredColumns
    <3>. QED
      BY <1>3, <2>2, <2>4, <3>3
  <2>. QED
    BY <2>3, <2>4
<1>4. CASE axis \notin {0, -2, 1, -1}
  <2>1. BadAxis(axis)
    BY <1>4 DEF BadAxis
  <2>2. Gather(A, indices, axis) = Rejected
    BY <2>1 DEF Gather
  <2>. QED
    BY <1>4, <2>2
<1>. QED
  BY <1>2, <1>3, <1>4

(* gather picks the rows or columns that ONNX's definition names, with     *)
(* indices of any shape, and rejects every index out of range.             *)
THEOREM GatherOnnx == Spec => []GatherFollowsOnnx
<1>1. IsMatrix(tensor) => GatherFollowsOnnx
  BY MatrixAssumption, ArgumentAssumption, GatherIs DEF GatherFollowsOnnx, InRange
<1>. QED
  BY <1>1, ChainInvariance, PTL

-----------------------------------------------------------------------------
(* gather after concat. *)

LEMMA ConsecutiveIndices ==
  ASSUME NEW first \in Int, NEW count \in Nat
  PROVE  LET indices == Indices(first, count)
         IN  /\ IsMatrix(indices) /\ Size(indices) = count
             /\ \A k \in 0 .. count - 1 : Index(indices, k) = first + k
             /\ \A extent \in Nat :
                  first >= -extent /\ first + count <= extent => InRange(indices, extent)
<1> DEFINE indices == Indices(first, count)
<1>1. indices = [rows |-> count, cols |-> 1,
                 at |-> [p \in Entries(count, 1) |-> first + p[1]]]
  BY DEF Indices, Matrix
<1>. HIDE DEF indices
<1>2. /\ IsMatrix(indices) /\ Size(indices) = count
  BY <1>1 DEF IsMatrix, Entries, Size
<1>3. ASSUME NEW k \in 0 .. count - 1 PROVE Index(indices, k) = first + k
  <2>1. k \div 1 = k /\ k % 1 = 0
    OBVIOUS
  <2>2. <<k, 0>> \in Entries(count, 1)
    BY DEF Entries
  <2>. QED
    BY <1>1, <2>1, <2>2 DEF Index, RowMajor
<1>4. ASSUME NEW extent \in Nat, first >= -extent, first + count <= extent
      PROVE  InRange(indices, extent)
  BY <1>1, <1>4 DEF InRange, Range, Entries
<1>. QED
  BY <1>2, <1>3, <1>4 DEF indices

(* What gather returns for consecutive indices: the places they name.      *)
LEMMA GatherRun ==
  ASSUME NEW A, IsMatrix(A), NEW axis \in {0, -2}, NEW first \in Int, NEW count \in Nat,
         first >= -A.rows, first + count <= A.rows
  PROVE  Gather(A, Indices(first, count), axis) =
           [rows |-> count, cols |-> A.cols,
            at |-> [p \in Entries(count, A.cols) |-> At(A, FromEnd(first + p[1], A.rows), p[2])]]
<1> DEFINE indices == Indices(first, count)
<1>1. /\ IsMatrix(indices) /\ Size(indices) = count
      /\ InRange(indices, A.rows)
      /\ \A p \in Entries(count, A.cols) : Index(indices, p[1]) = first + p[1]
  BY ConsecutiveIndices DEF IsMatrix, Entries
<1>. HIDE DEF indices
<1>2. Gather(A, indices, axis) = RowsAt(A, indices)
  BY <1>1, GatherIs
<1>3. Gather(A, indices, axis) =
        [rows |-> count, cols |-> A.cols,
         at |-> [p \in Entries(count, A.cols) |->
                   At(A, FromEnd(Index(indices, p[1]), A.rows), p[2])]]
  BY <1>1, <1>2, GatheredRows
<1>. QED
  BY <1>1, <1>3 DEF indices

LEMMA GatherRunOfColumns ==
  ASSUME NEW A, IsMatrix(A), NEW axis \in {1, -1}, NEW first \in Int, NEW count \in Nat,
         first >= -A.cols, first + count <= A.cols
  PROVE  Gather(A, Indices(first, count), axis) =
           [rows |-> A.rows, cols |-> count,
            at |-> [p \in Entries(A.rows, count) |-> At(A, p[1], FromEnd(first + p[2], A.cols))]]
<1> DEFINE indices == Indices(first, count)
<1>1. /\ IsMatrix(indices) /\ Size(indices) = count
      /\ InRange(indices, A.cols)
      /\ \A p \in Entries(A.rows, count) : Index(indices, p[2]) = first + p[2]
  BY ConsecutiveIndices DEF IsMatrix, Entries
<1>. HIDE DEF indices
<1>2. axis \notin {0, -2}
  OBVIOUS
<1>3. Gather(A, indices, axis) = Transpose(RowsAt(Transpose(A), indices))
  BY <1>1, <1>2, GatherIs
<1>4. Gather(A, indices, axis) =
        [rows |-> A.rows, cols |-> count,
         at |-> [p \in Entries(A.rows, count) |->
                   At(A, p[1], FromEnd(Index(indices, p[2]), A.cols))]]
  BY <1>1, <1>3, GatheredColumns
<1>. QED
  BY <1>1, <1>4 DEF indices

LEMMA RowsJoined ==
  ASSUME NEW A, IsMatrix(A), NEW B, IsMatrix(B), NEW axis \in {0, -2}, A.cols = B.cols
  PROVE  LET both == Concat(A, B, axis)
         IN  /\ Gather(both, Indices(0, A.rows), axis) = A
             /\ Gather(both, Indices(-B.rows, B.rows), axis) = B
<1> DEFINE C == Concat(A, B, axis)
<1>1. /\ A.rows \in Nat /\ A.cols \in Nat /\ B.rows \in Nat
      /\ A.at \in [Entries(A.rows, A.cols) -> Int] /\ B.at \in [Entries(B.rows, A.cols) -> Int]
  BY DEF IsMatrix
<1>2. ~BadAxis(axis) /\ Axis(axis) = 0 /\ Extent(A, 1 - Axis(axis)) = Extent(B, 1 - Axis(axis))
  BY DEF BadAxis, Axis, Extent
<1>3. C = [rows |-> A.rows + B.rows, cols |-> A.cols,
           at |-> [p \in Entries(A.rows + B.rows, A.cols) |->
                     IF p[1] < A.rows THEN At(A, p[1], p[2]) ELSE At(B, p[1] - A.rows, p[2])]]
  BY <1>2 DEF Concat, Matrix
<1>. HIDE DEF C
<1>4. /\ \A i \in 0 .. A.rows - 1, j \in 0 .. A.cols - 1 : At(C, i, j) = At(A, i, j)
      /\ \A i \in 0 .. B.rows - 1, j \in 0 .. A.cols - 1 : At(C, A.rows + i, j) = At(B, i, j)
  <2>1. ASSUME NEW i \in 0 .. A.rows - 1, NEW j \in 0 .. A.cols - 1
        PROVE  At(C, i, j) = At(A, i, j)
    <3>1. <<i, j>> \in Entries(A.rows + B.rows, A.cols) /\ i < A.rows
      BY <1>1 DEF Entries
    <3>. QED
      BY <1>3, <3>1 DEF At
  <2>2. ASSUME NEW i \in 0 .. B.rows - 1, NEW j \in 0 .. A.cols - 1
        PROVE  At(C, A.rows + i, j) = At(B, i, j)
    <3> DEFINE k == A.rows + i
    <3>1. <<k, j>> \in Entries(A.rows + B.rows, A.cols) /\ ~(k < A.rows) /\ k - A.rows = i
      BY <1>1 DEF Entries
    <3>. HIDE DEF k
    <3>2. At(C, k, j) = At(B, i, j)
      BY <1>3, <3>1 DEF At
    <3>. QED
      BY <3>2 DEF k
  <2>. QED
    BY <2>1, <2>2
<1>5. IsMatrix(C)
  <2>1. \A p \in Entries(A.rows + B.rows, A.cols) : C.at[p] \in Int
    BY <1>1, <1>3 DEF At, Entries
  <2>. QED
    BY <1>1, <1>3, <2>1 DEF IsMatrix
<1>6. /\ 0 \in Int /\ 0 >= -C.rows /\ 0 + A.rows <= C.rows /\ C.cols = A.cols
      /\ -B.rows \in Int /\ -B.rows >= -C.rows /\ -B.rows + B.rows <= C.rows
      /\ A.rows \in Nat /\ B.rows \in Nat
  BY <1>1, <1>3
<1>7. Gather(C, Indices(0, A.rows), axis) = A
  <2>1. Gather(C, Indices(0, A.rows), axis) =
          [rows |-> A.rows, cols |-> A.cols,
           at |-> [p \in Entries(A.rows, A.cols) |-> At(C, FromEnd(0 + p[1], C.rows), p[2])]]
    BY <1>5, <1>6, GatherRun
  <2>2. \A p \in Entries(A.rows, A.cols) : At(C, FromEnd(0 + p[1], C.rows), p[2]) = A.at[p]
    BY <1>1, <1>3, <1>4 DEF FromEnd, Entries, At
  <2>. QED
    BY <1>1, <2>1, <2>2 DEF IsMatrix
<1>8. Gather(C, Indices(-B.rows, B.rows), axis) = B
  <2> DEFINE first == -B.rows
  <2>1. Gather(C, Indices(first, B.rows), axis) =
          [rows |-> B.rows, cols |-> A.cols,
           at |-> [p \in Entries(B.rows, A.cols) |-> At(C, FromEnd(first + p[1], C.rows), p[2])]]
    <3>1. first \in Int /\ first >= -C.rows /\ first + B.rows <= C.rows
      BY <1>6
    <3>. HIDE DEF first
    <3>. QED
      BY <1>5, <1>6, <3>1, GatherRun
  <2>2. \A p \in Entries(B.rows, A.cols) : At(C, FromEnd(-B.rows + p[1], C.rows), p[2]) = B.at[p]
    <3>1. \A i \in 0 .. B.rows - 1 : FromEnd(-B.rows + i, C.rows) = A.rows + i
      BY <1>1, <1>3 DEF FromEnd
    <3>. QED
      BY <1>1, <1>4, <3>1 DEF Entries, At
  <2>. QED
    BY <1>1, <2>1, <2>2 DEF IsMatrix
<1>. QED
  BY <1>7, <1>8 DEF C

LEMMA ColumnsJoined ==
  ASSUME NEW A, IsMatrix(A), NEW B, IsMatrix(B), NEW axis \in {1, -1}, A.rows = B.rows
  PROVE  LET both == Concat(A, B, axis)
         IN  /\ Gather(both, Indices(0, A.cols), axis) = A
             /\ Gather(both, Indices(-B.cols, B.cols), axis) = B
<1> DEFINE C == Concat(A, B, axis)
<1>1. /\ A.rows \in Nat /\ A.cols \in Nat /\ B.cols \in Nat
      /\ A.at \in [Entries(A.rows, A.cols) -> Int] /\ B.at \in [Entries(A.rows, B.cols) -> Int]
  BY DEF IsMatrix
<1>2. ~BadAxis(axis) /\ Axis(axis) = 1 /\ Extent(A, 1 - Axis(axis)) = Extent(B, 1 - Axis(axis))
  BY DEF BadAxis, Axis, Extent
<1>3. C = [rows |-> A.rows, cols |-> A.cols + B.cols,
           at |-> [p \in Entries(A.rows, A.cols + B.cols) |->
                     IF p[2] < A.cols THEN At(A, p[1], p[2]) ELSE At(B, p[1], p[2] - A.cols)]]
  BY <1>2 DEF Concat, Matrix
<1>. HIDE DEF C
<1>4. /\ \A i \in 0 .. A.rows - 1, j \in 0 .. A.cols - 1 : At(C, i, j) = At(A, i, j)
      /\ \A i \in 0 .. A.rows - 1, j \in 0 .. B.cols - 1 : At(C, i, A.cols + j) = At(B, i, j)
  BY <1>1, <1>3 DEF At, Entries
<1>5. IsMatrix(C)
  <2>1. \A p \in Entries(A.rows, A.cols + B.cols) : C.at[p] \in Int
    BY <1>1, <1>3 DEF At, Entries
  <2>. QED
    BY <1>1, <1>3, <2>1 DEF IsMatrix
<1>6. /\ 0 \in Int /\ 0 >= -C.cols /\ 0 + A.cols <= C.cols /\ C.rows = A.rows
      /\ -B.cols \in Int /\ -B.cols >= -C.cols /\ -B.cols + B.cols <= C.cols
      /\ A.cols \in Nat /\ B.cols \in Nat
  BY <1>1, <1>3
<1>7. Gather(C, Indices(0, A.cols), axis) = A
  <2>1. Gather(C, Indices(0, A.cols), axis) =
          [rows |-> A.rows, cols |-> A.cols,
           at |-> [p \in Entries(A.rows, A.cols) |-> At(C, p[1], FromEnd(0 + p[2], C.cols))]]
    BY <1>5, <1>6, GatherRunOfColumns
  <2>2. \A p \in Entries(A.rows, A.cols) : At(C, p[1], FromEnd(0 + p[2], C.cols)) = A.at[p]
    BY <1>1, <1>3, <1>4 DEF FromEnd, Entries, At
  <2>. QED
    BY <1>1, <2>1, <2>2 DEF IsMatrix
<1>8. Gather(C, Indices(-B.cols, B.cols), axis) = B
  <2> DEFINE first == -B.cols
  <2>1. Gather(C, Indices(first, B.cols), axis) =
          [rows |-> A.rows, cols |-> B.cols,
           at |-> [p \in Entries(A.rows, B.cols) |-> At(C, p[1], FromEnd(first + p[2], C.cols))]]
    <3>1. first \in Int /\ first >= -C.cols /\ first + B.cols <= C.cols
      BY <1>6
    <3>. HIDE DEF first
    <3>. QED
      BY <1>5, <1>6, <3>1, GatherRunOfColumns
  <2>2. \A p \in Entries(A.rows, B.cols) : At(C, p[1], FromEnd(-B.cols + p[2], C.cols)) = B.at[p]
    <3>1. \A j \in 0 .. B.cols - 1 : FromEnd(-B.cols + j, C.cols) = A.cols + j
      BY <1>1, <1>3 DEF FromEnd
    <3>. QED
      BY <1>1, <1>4, <3>1 DEF Entries, At
  <2>. QED
    BY <1>1, <2>1, <2>2 DEF IsMatrix
<1>. QED
  BY <1>7, <1>8 DEF C

(* gather takes apart what concat joined, along either axis, whatever the  *)
(* sizes of the two parts.                                                 *)
THEOREM ConcatUndone == Spec => []GatherUndoesConcat
<1>1. ASSUME IsMatrix(tensor), NEW other \in Operands, NEW axis \in -2 .. 1
      PROVE  LET both == Concat(tensor, other, axis)
                 Length(A) == Extent(A, Axis(axis))
             IN  IF Extent(tensor, 1 - Axis(axis)) = Extent(other, 1 - Axis(axis))
                 THEN /\ Gather(both, Indices(0, Length(tensor)), axis) = tensor
                      /\ Gather(both, Indices(- Length(other), Length(other)), axis) = other
                 ELSE both = Rejected
  <2>1. IsMatrix(other)
    BY MatrixAssumption
  <2>2. CASE axis \in {0, -2}
    <3>1. /\ Axis(axis) = 0 /\ Extent(tensor, 0) = tensor.rows /\ Extent(other, 0) = other.rows
          /\ Extent(tensor, 1) = tensor.cols /\ Extent(other, 1) = other.cols
      BY <2>2 DEF Axis, Extent
    <3>2. CASE tensor.cols = other.cols
      BY <1>1, <2>1, <2>2, <3>1, <3>2, RowsJoined
    <3>3. CASE tensor.cols # other.cols
      <4>1. Extent(tensor, 1 - Axis(axis)) # Extent(other, 1 - Axis(axis))
        BY <3>1, <3>3
      <4>2. Concat(tensor, other, axis) = Rejected
        BY <4>1 DEF Concat
      <4>. QED
        BY <4>1, <4>2
    <3>. QED
      BY <3>2, <3>3
  <2>3. CASE axis \in {1, -1}
    <3>1. /\ Axis(axis) = 1 /\ Extent(tensor, 0) = tensor.rows /\ Extent(other, 0) = other.rows
          /\ Extent(tensor, 1) = tensor.cols /\ Extent(other, 1) = other.cols
      BY <2>3 DEF Axis, Extent
    <3>2. CASE tensor.rows = other.rows
      BY <1>1, <2>1, <2>3, <3>1, <3>2, ColumnsJoined
    <3>3. CASE tensor.rows # other.rows
      <4>1. Extent(tensor, 1 - Axis(axis)) # Extent(other, 1 - Axis(axis))
        BY <3>1, <3>3
      <4>2. Concat(tensor, other, axis) = Rejected
        BY <4>1 DEF Concat
      <4>. QED
        BY <4>1, <4>2
    <3>. QED
      BY <3>2, <3>3
  <2>. QED
    BY <2>2, <2>3
<1>2. IsMatrix(tensor) => GatherUndoesConcat
  BY <1>1 DEF GatherUndoesConcat
<1>. QED
  BY <1>2, ChainInvariance, PTL

-----------------------------------------------------------------------------
(* reshape. *)

(* The dimensions among which ShapesAsked looks.                           *)
Dims(rows, cols, new_rows, new_cols) ==
  (0 .. rows * cols + rows + cols + 1) \cup ({new_rows, new_cols} \cap Nat)

LEMMA DimsAre ==
  ASSUME NEW rows \in Nat, NEW cols \in Nat, NEW new_rows \in Int, NEW new_cols \in Int
  PROVE  LET dims == Dims(rows, cols, new_rows, new_cols)
         IN  /\ IsFiniteSet(dims) /\ dims \subseteq Nat /\ 0 \in dims /\ 1 \in dims
             /\ \A d \in Nat : d <= rows * cols => d \in dims
             /\ CopiedDim(new_rows, rows) \in Nat => CopiedDim(new_rows, rows) \in dims
             /\ CopiedDim(new_cols, cols) \in Nat => CopiedDim(new_cols, cols) \in dims
<1> DEFINE total == rows * cols
<1>1. total \in Nat
  OBVIOUS
<1>. HIDE DEF total
<1>2. IsFiniteSet(0 .. total + rows + cols + 1)
  BY <1>1, FS_Interval
<1>3. IsFiniteSet({new_rows, new_cols} \cap Nat)
  <2>1. IsFiniteSet({new_rows} \cup {new_cols})
    BY FS_Singleton, FS_Union
  <2>2. {new_rows, new_cols} \cap Nat \in SUBSET ({new_rows} \cup {new_cols})
    OBVIOUS
  <2>. QED
    BY <2>1, <2>2, FS_Subset
<1>4. Dims(rows, cols, new_rows, new_cols) =
        (0 .. total + rows + cols + 1) \cup ({new_rows, new_cols} \cap Nat)
  BY DEF Dims, total
<1>5. IsFiniteSet(Dims(rows, cols, new_rows, new_cols))
  BY <1>2, <1>3, <1>4, FS_Union
<1>6. /\ 0 \in 0 .. total + rows + cols + 1 /\ 1 \in 0 .. total + rows + cols + 1
      /\ rows \in 0 .. total + rows + cols + 1 /\ cols \in 0 .. total + rows + cols + 1
      /\ \A d \in Nat : d <= total => d \in 0 .. total + rows + cols + 1
      /\ 0 .. total + rows + cols + 1 \subseteq Nat
  BY <1>1
<1>. QED
  BY <1>4, <1>5, <1>6 DEF CopiedDim, total

(* The shapes that reshape's arguments leave open, of dimensions in dims.  *)
Shapes(dims, total, asked_rows, asked_cols) ==
  {s \in dims \X dims : /\ s[1] * s[2] = total
                        /\ asked_rows = -1 \/ s[1] = asked_rows
                        /\ asked_cols = -1 \/ s[2] = asked_cols}

LEMMA ShapesAskedAre ==
  ASSUME NEW A, IsMatrix(A), NEW new_rows \in Int, NEW new_cols \in Int
  PROVE  ShapesAsked(A, new_rows, new_cols) =
           Shapes(Dims(A.rows, A.cols, new_rows, new_cols), A.rows * A.cols,
                  CopiedDim(new_rows, A.rows), CopiedDim(new_cols, A.cols))
<1>1. A.rows \in Nat /\ A.cols \in Nat
  BY DEF IsMatrix
<1>2. /\ CopiedDim(new_rows, A.rows) = -1 <=> new_rows = -1
      /\ CopiedDim(new_cols, A.cols) = -1 <=> new_cols = -1
  BY <1>1 DEF CopiedDim
<1>3. ASSUME NEW d
      PROVE  /\ d = CopiedDim(new_rows, A.rows) <=>
                  d = (IF new_rows = 0 THEN A.rows ELSE new_rows)
             /\ d = CopiedDim(new_cols, A.cols) <=>
                  d = (IF new_cols = 0 THEN A.cols ELSE new_cols)
  BY DEF CopiedDim
<1>. QED
  BY <1>2, <1>3 DEF ShapesAsked, Shapes, Dims, Size

(* A factor that is given leaves the other open only if it is 0 or does    *)
(* not divide the product.                                                 *)
LEMMA TheOtherFactor ==
  ASSUME NEW total \in Nat, NEW n \in Nat \ {0}
  PROVE  /\ total % n = 0 => (total \div n) \in Nat /\ (total \div n) * n = total /\ total \div n <= total
         /\ \A d \in Nat : d * n = total => total % n = 0 /\ d = total \div n
<1> DEFINE m == total \div n
<1>1. m \in Nat /\ (total % n = 0 => m * n = total)
  BY DivMod
<1>2. ASSUME NEW d \in Nat, d * n = total
      PROVE  total % n = 0 /\ d = m
  <2>1. d \in 0 .. (d + 1) - 1 /\ 0 \in 0 .. n - 1 /\ d + 1 \in Nat
    OBVIOUS
  <2>2. (d * n + 0) \div n = d /\ (d * n + 0) % n = 0
    BY <2>1, PlaceAt
  <2>3. d * n + 0 = total
    BY <1>2
  <2>. QED
    BY <2>2, <2>3
<1>. HIDE DEF m
<1>3. m <= m * n
  BY <1>1
<1>. QED
  BY <1>1, <1>2, <1>3 DEF m

LEMMA RowsOpen ==
  ASSUME NEW dims \in SUBSET Nat, 0 \in dims, 1 \in dims, NEW total \in Nat,
         \A d \in Nat : d <= total => d \in dims, NEW n \in dims
  PROVE  IF n = 0 \/ total % n # 0
         THEN \A s : Shapes(dims, total, -1, n) # {s}
         ELSE Shapes(dims, total, -1, n) = {<<total \div n, n>>}
<1>0. n # -1
  OBVIOUS
<1>1. CASE n = 0 /\ total = 0
  <2>1. <<0, 0>> \in Shapes(dims, total, -1, n) /\ <<1, 0>> \in Shapes(dims, total, -1, n)
    BY <1>1 DEF Shapes
  <2>2. <<0, 0>> # <<1, 0>>
    OBVIOUS
  <2>. QED
    BY <1>1, <2>1, <2>2
<1>2. CASE n = 0 /\ total # 0
  <2>1. ASSUME NEW s \in Shapes(dims, total, -1, n) PROVE FALSE
    <3>1. PICK a, b \in dims : a * b = total /\ b = n
      BY <1>0 DEF Shapes
    <3>2. a * 0 = 0
      OBVIOUS
    <3>. QED
      BY <1>2, <3>1, <3>2
  <2>. QED
    BY <1>2, <2>1
<1>3. CASE n # 0 /\ total % n # 0
  <2>1. ASSUME NEW s \in Shapes(dims, total, -1, n) PROVE FALSE
    <3>1. PICK a, b \in dims : a * b = total /\ b = n
      BY <1>0 DEF Shapes
    <3>2. a \in Nat /\ a * n = total
      BY <3>1
    <3>. QED
      BY <1>3, <3>2, TheOtherFactor
  <2>. QED
    BY <1>3, <2>1
<1>4. CASE n # 0 /\ total % n = 0
  <2> DEFINE m == total \div n
  <2>1. m \in Nat /\ m * n = total /\ n * m = total /\ m \in dims
    BY <1>4, TheOtherFactor
  <2>2. ASSUME NEW s \in Shapes(dims, total, -1, n) PROVE s = <<m, n>>
    <3>1. /\ s = <<s[1], s[2]>> /\ s[1] \in dims /\ s[2] \in dims
          /\ s[1] * s[2] = total /\ s[2] = n
      BY <1>0 DEF Shapes
    <3>2. s[1] \in Nat /\ s[1] * n = total
      BY <3>1
    <3>3. s[1] = m
      BY <1>4, <3>2, TheOtherFactor
    <3>. QED
      BY <3>1, <3>3
  <2>. HIDE DEF m
  <2>3. <<m, n>> \in Shapes(dims, total, -1, n)
    BY <2>1 DEF Shapes
  <2>4. Shapes(dims, total, -1, n) = {<<m, n>>}
    BY <2>2, <2>3
  <2>. QED
    BY <1>4, <2>4 DEF m
<1>. QED
  BY <1>1, <1>2, <1>3, <1>4

LEMMA ColumnsOpen ==
  ASSUME NEW dims \in SUBSET Nat, 0 \in dims, 1 \in dims, NEW total \in Nat,
         \A d \in Nat : d <= total => d \in dims, NEW n \in dims
  PROVE  IF n = 0 \/ total % n # 0
         THEN \A s : Shapes(dims, total, n, -1) # {s}
         ELSE Shapes(dims, total, n, -1) = {<<n, total \div n>>}
<1>0. n # -1
  OBVIOUS
<1>1. CASE n = 0 /\ total = 0
  <2>1. <<0, 0>> \in Shapes(dims, total, n, -1) /\ <<0, 1>> \in Shapes(dims, total, n, -1)
    BY <1>1 DEF Shapes
  <2>2. <<0, 0>> # <<0, 1>>
    OBVIOUS
  <2>. QED
    BY <1>1, <2>1, <2>2
<1>2. CASE n = 0 /\ total # 0
  <2>1. ASSUME NEW s \in Shapes(dims, total, n, -1) PROVE FALSE
    <3>1. PICK a, b \in dims : a * b = total /\ a = n
      BY <1>0 DEF Shapes
    <3>2. 0 * b = 0
      OBVIOUS
    <3>. QED
      BY <1>2, <3>1, <3>2
  <2>. QED
    BY <1>2, <2>1
<1>3. CASE n # 0 /\ total % n # 0
  <2>1. ASSUME NEW s \in Shapes(dims, total, n, -1) PROVE FALSE
    <3>1. PICK a, b \in dims : a * b = total /\ a = n
      BY <1>0 DEF Shapes
    <3>2. b \in Nat /\ b * n = total
      BY <3>1
    <3>. QED
      BY <1>3, <3>2, TheOtherFactor
  <2>. QED
    BY <1>3, <2>1
<1>4. CASE n # 0 /\ total % n = 0
  <2> DEFINE m == total \div n
  <2>1. m \in Nat /\ m * n = total /\ n * m = total /\ m \in dims
    BY <1>4, TheOtherFactor
  <2>2. ASSUME NEW s \in Shapes(dims, total, n, -1) PROVE s = <<n, m>>
    <3>1. /\ s = <<s[1], s[2]>> /\ s[1] \in dims /\ s[2] \in dims
          /\ s[1] * s[2] = total /\ s[1] = n
      BY <1>0 DEF Shapes
    <3>2. s[2] \in Nat /\ s[2] * n = total
      BY <3>1
    <3>3. s[2] = m
      BY <1>4, <3>2, TheOtherFactor
    <3>. QED
      BY <3>1, <3>3
  <2>. HIDE DEF m
  <2>3. <<n, m>> \in Shapes(dims, total, n, -1)
    BY <2>1 DEF Shapes
  <2>4. Shapes(dims, total, n, -1) = {<<n, m>>}
    BY <2>2, <2>3
  <2>. QED
    BY <1>4, <2>4 DEF m
<1>. QED
  BY <1>1, <1>2, <1>3, <1>4

(* What reshape computes is the only shape its arguments leave open; it    *)
(* rejects them when there is none or more than one.                       *)
LEMMA ReshapedDimsOpen ==
  ASSUME NEW rows \in Nat, NEW cols \in Nat, NEW new_rows \in Int, NEW new_cols \in Int,
         ~(new_rows = -1 /\ new_cols = -1)
  PROVE  LET dims == ReshapedDims(rows, cols, new_rows, new_cols)
             shapes == Shapes(Dims(rows, cols, new_rows, new_cols), rows * cols,
                              CopiedDim(new_rows, rows), CopiedDim(new_cols, cols))
         IN  IF dims = NoDims THEN \A s : shapes # {s}
             ELSE shapes = {<<dims.rows, dims.cols>>}
<1> DEFINE total == rows * cols
           ar == CopiedDim(new_rows, rows)
           ac == CopiedDim(new_cols, cols)
           tr == Inferred(ar, ac, total)
           tc == Inferred(ac, ar, total)
           D == Dims(rows, cols, new_rows, new_cols)
           dims == ReshapedDims(rows, cols, new_rows, new_cols)
<1>1. dims = IF \/ new_rows < -1 \/ new_cols < -1
                \/ ar = -1 /\ ac = -1
                \/ CannotInfer(ar, ac, total)
                \/ CannotInfer(ac, ar, total)
                \/ tr * tc # total
             THEN NoDims
             ELSE [rows |-> tr, cols |-> tc]
  BY DEF ReshapedDims
<1>2. /\ ar \in Int /\ ac \in Int
      /\ ar = -1 <=> new_rows = -1
      /\ ac = -1 <=> new_cols = -1
      /\ ar < -1 <=> new_rows < -1
      /\ ac < -1 <=> new_cols < -1
  BY DEF CopiedDim
<1>3. /\ D \in SUBSET Nat /\ 0 \in D /\ 1 \in D
      /\ \A d \in Nat : d <= total => d \in D
      /\ ar \in Nat => ar \in D
      /\ ac \in Nat => ac \in D
  BY DimsAre
<1>4. total \in Nat
  OBVIOUS
<1>. HIDE DEF total, ar, ac, D, dims
<1>5. CASE ar < -1 \/ ac < -1
  <2>1. dims = NoDims
    BY <1>1, <1>2, <1>5
  <2>2. ASSUME NEW s \in Shapes(D, total, ar, ac) PROVE FALSE
    <3>1. /\ s[1] \in Nat /\ s[2] \in Nat
          /\ ar = -1 \/ s[1] = ar
          /\ ac = -1 \/ s[2] = ac
      BY <1>3 DEF Shapes
    <3>. QED
      BY <1>2, <1>5, <3>1
  <2>. QED
    BY <2>1, <2>2 DEF dims, total, ar, ac, D
<1>6. CASE ar = -1 /\ ac \in Nat
  <2>1. CannotInfer(ar, ac, total) <=> (ac = 0 \/ total % ac # 0)
    BY <1>6 DEF CannotInfer
  <2>2. ~CannotInfer(ac, ar, total) /\ tr = total \div ac /\ tc = ac
    BY <1>6 DEF CannotInfer, Inferred
  <2>3. CASE ac = 0 \/ total % ac # 0
    <3>1. dims = NoDims
      BY <1>1, <2>1, <2>3
    <3>2. \A s : Shapes(D, total, ar, ac) # {s}
      BY <1>3, <1>4, <1>6, <2>3, RowsOpen
    <3>. QED
      BY <3>1, <3>2 DEF dims, total, ar, ac, D
  <2>4. CASE ac # 0 /\ total % ac = 0
    <3>1. Shapes(D, total, ar, ac) = {<<total \div ac, ac>>}
      BY <1>3, <1>4, <1>6, <2>4, RowsOpen
    <3>2. total \div ac \in Nat /\ (total \div ac) * ac = total
      BY <1>4, <1>6, <2>4, TheOtherFactor
    <3>3. dims = [rows |-> total \div ac, cols |-> ac]
      <4>1. ~(new_rows < -1) /\ ~(new_cols < -1) /\ ~(ar = -1 /\ ac = -1) /\ tr * tc = total
        BY <1>2, <1>6, <2>2, <3>2
      <4>. HIDE DEF tr, tc
      <4>. QED
        BY <1>1, <2>1, <2>2, <2>4, <4>1
    <3>4. dims # NoDims
      BY <1>6, <3>3 DEF NoDims
    <3>. QED
      BY <3>1, <3>3, <3>4 DEF dims, total, ar, ac, D
  <2>. QED
    BY <2>3, <2>4
<1>7. CASE ac = -1 /\ ar \in Nat
  <2>1. CannotInfer(ac, ar, total) <=> (ar = 0 \/ total % ar # 0)
    BY <1>7 DEF CannotInfer
  <2>2. ~CannotInfer(ar, ac, total) /\ tr = ar /\ tc = total \div ar
    BY <1>7 DEF CannotInfer, Inferred
  <2>3. CASE ar = 0 \/ total % ar # 0
    <3>1. dims = NoDims
      BY <1>1, <2>1, <2>3
    <3>2. \A s : Shapes(D, total, ar, ac) # {s}
      <4>1. ar \in D
        BY <1>3, <1>7
      <4>2. IF ar = 0 \/ total % ar # 0
            THEN \A s : Shapes(D, total, ar, -1) # {s}
            ELSE Shapes(D, total, ar, -1) = {<<ar, total \div ar>>}
        BY <1>3, <1>4, <4>1, ColumnsOpen
      <4>. QED
        BY <1>7, <2>3, <4>2
    <3>. QED
      BY <3>1, <3>2 DEF dims, total, ar, ac, D
  <2>4. CASE ar # 0 /\ total % ar = 0
    <3>1. Shapes(D, total, ar, ac) = {<<ar, total \div ar>>}
      BY <1>3, <1>4, <1>7, <2>4, ColumnsOpen
    <3>2. total \div ar \in Nat /\ (total \div ar) * ar = total
      BY <1>4, <1>7, <2>4, TheOtherFactor
    <3>3. dims = [rows |-> ar, cols |-> total \div ar]
      <4>1. ~(new_rows < -1) /\ ~(new_cols < -1) /\ ~(ar = -1 /\ ac = -1) /\ tr * tc = total
        BY <1>2, <1>7, <2>2, <3>2
      <4>. HIDE DEF tr, tc
      <4>. QED
        BY <1>1, <2>1, <2>2, <2>4, <4>1
    <3>4. dims # NoDims
      BY <1>7, <3>3 DEF NoDims
    <3>. QED
      BY <3>1, <3>3, <3>4 DEF dims, total, ar, ac, D
  <2>. QED
    BY <2>3, <2>4
<1>8. CASE ar \in Nat /\ ac \in Nat
  <2>1. ~CannotInfer(ar, ac, total) /\ ~CannotInfer(ac, ar, total) /\ tr = ar /\ tc = ac
    BY <1>8 DEF CannotInfer, Inferred
  <2>2. ~(new_rows < -1) /\ ~(new_cols < -1) /\ ~(ar = -1 /\ ac = -1)
    BY <1>2, <1>8
  <2>3. dims = IF ar * ac = total THEN [rows |-> ar, cols |-> ac] ELSE NoDims
    <3>. HIDE DEF tr, tc
    <3>. QED
      BY <1>1, <2>1, <2>2
  <2>4. [rows |-> ar, cols |-> ac] # NoDims
    BY <1>8 DEF NoDims
  <2>5. ASSUME NEW s \in Shapes(D, total, ar, ac) PROVE s = <<ar, ac>> /\ ar * ac = total
    <3>1. s = <<s[1], s[2]>> /\ s[1] * s[2] = total /\ s[1] = ar /\ s[2] = ac
      BY <1>8 DEF Shapes
    <3>. QED
      BY <3>1
  <2>6. ar * ac = total => <<ar, ac>> \in Shapes(D, total, ar, ac)
    BY <1>3, <1>8 DEF Shapes
  <2>7. CASE ar * ac = total
    <3>1. Shapes(D, total, ar, ac) = {<<ar, ac>>}
      BY <2>5, <2>6, <2>7
    <3>. QED
      BY <2>3, <2>4, <2>7, <3>1 DEF dims, total, ar, ac, D
  <2>8. CASE ar * ac # total
    <3>1. \A s : Shapes(D, total, ar, ac) # {s}
      BY <2>5, <2>8
    <3>. QED
      BY <2>3, <2>8, <3>1 DEF dims, total, ar, ac, D
  <2>. QED
    BY <2>7, <2>8
<1>9. \/ ar < -1 \/ ac < -1
      \/ ar = -1 /\ ac \in Nat
      \/ ac = -1 /\ ar \in Nat
      \/ ar \in Nat /\ ac \in Nat
  <2>1. ~(ar = -1 /\ ac = -1)
    BY <1>2
  <2>. QED
    BY <1>2, <2>1
<1>. QED
  BY <1>5, <1>6, <1>7, <1>8, <1>9

(* reshape keeps the row-major order of the entries.                       *)
LEMMA ReshapedData ==
  ASSUME NEW A, IsMatrix(A), NEW new_rows \in Int, NEW new_cols \in Int,
         ReshapedDims(A.rows, A.cols, new_rows, new_cols) # NoDims
  PROVE  Data(Reshape(A, new_rows, new_cols)) = Data(A)
<1> DEFINE dims == ReshapedDims(A.rows, A.cols, new_rows, new_cols)
           B == Reshape(A, new_rows, new_cols)
<1>1. /\ dims.rows \in Nat /\ dims.cols \in Nat /\ dims.rows * dims.cols = A.rows * A.cols
  BY ReshapedDimsAre DEF IsMatrix
<1>2. dims # NoDims
  OBVIOUS
<1>. HIDE DEF dims
<1>3. B = [rows |-> dims.rows, cols |-> dims.cols,
           at |-> [p \in Entries(dims.rows, dims.cols) |->
                     A.at[RowMajor(p[1] * dims.cols + p[2], A.cols)]]]
  BY <1>2 DEF Reshape, Matrix, dims
<1>. HIDE DEF B
<1>4. Size(B) = Size(A)
  BY <1>1, <1>3 DEF Size
<1>5. ASSUME NEW k \in 0 .. Size(A) - 1
      PROVE  At(B, k \div B.cols, k % B.cols) = At(A, k \div A.cols, k % A.cols)
  <2> DEFINE i == k \div dims.cols
             j == k % dims.cols
  <2>1. /\ i \in 0 .. dims.rows - 1 /\ j \in 0 .. dims.cols - 1 /\ k = i * dims.cols + j
    <3>1. k \in 0 .. dims.rows * dims.cols - 1
      BY <1>1 DEF Size
    <3>. QED
      BY <1>1, <3>1, PlaceOf
  <2>2. RowMajor(k, A.cols) = <<k \div A.cols, k % A.cols>>
    BY DEF RowMajor
  <2>. HIDE DEF i, j
  <2>3. <<i, j>> \in Entries(dims.rows, dims.cols)
    BY <2>1 DEF Entries
  <2>4. At(B, i, j) = A.at[RowMajor(k, A.cols)]
    BY <1>3, <2>1, <2>3 DEF At
  <2>5. B.cols = dims.cols
    BY <1>3
  <2>. QED
    BY <2>2, <2>4, <2>5 DEF At, i, j
<1>6. Data(B) = [k \in 0 .. Size(B) - 1 |-> At(B, k \div B.cols, k % B.cols)]
  BY DEF Data
<1>7. Data(A) = [k \in 0 .. Size(A) - 1 |-> At(A, k \div A.cols, k % A.cols)]
  BY DEF Data
<1>. QED
  BY <1>4, <1>5, <1>6, <1>7 DEF B

(* reshape accepts exactly the arguments that leave one shape open, and    *)
(* returns that shape with the data in the same order.                     *)
THEOREM ReshapeOnnx == Spec => []ReshapeFollowsOnnx
<1>1. ASSUME IsMatrix(tensor), NEW new_rows \in NewDims, NEW new_cols \in NewDims
      PROVE  LET answer == Reshape(tensor, new_rows, new_cols)
                 shapes == ShapesAsked(tensor, new_rows, new_cols)
             IN  IF Cardinality(shapes) = 1 /\ ~ (new_rows = -1 /\ new_cols = -1)
                 THEN <<answer.rows, answer.cols>> \in shapes /\ Data(answer) = Data(tensor)
                 ELSE answer = Rejected
  <2> DEFINE answer == Reshape(tensor, new_rows, new_cols)
             shapes == ShapesAsked(tensor, new_rows, new_cols)
             dims == ReshapedDims(tensor.rows, tensor.cols, new_rows, new_cols)
             D == Dims(tensor.rows, tensor.cols, new_rows, new_cols)
  <2>1. /\ new_rows \in Int /\ new_cols \in Int /\ tensor.rows \in Nat /\ tensor.cols \in Nat
    BY <1>1, ArgumentAssumption DEF IsMatrix
  <2>2. shapes = Shapes(D, tensor.rows * tensor.cols,
                        CopiedDim(new_rows, tensor.rows), CopiedDim(new_cols, tensor.cols))
    BY <1>1, <2>1, ShapesAskedAre
  <2>3. Cardinality(shapes) = 1 <=> \E s : shapes = {s}
    <3>1. IsFiniteSet(D \X D)
      BY <2>1, DimsAre, FS_Product
    <3>2. shapes \in SUBSET (D \X D)
      BY <2>2 DEF Shapes
    <3>. QED
      BY <3>1, <3>2, FS_Subset, FS_Singleton
  <2>4. dims = NoDims => answer = Rejected
    BY DEF Reshape
  <2>5. dims # NoDims => answer.rows = dims.rows /\ answer.cols = dims.cols /\ Data(answer) = Data(tensor)
    <3>1. dims # NoDims => answer.rows = dims.rows /\ answer.cols = dims.cols
      BY DEF Reshape, Matrix
    <3>. QED
      BY <1>1, <2>1, <3>1, ReshapedData
  <2>6. CASE new_rows = -1 /\ new_cols = -1
    <3>1. dims = NoDims
      BY <2>6 DEF ReshapedDims, CopiedDim
    <3>. QED
      BY <2>4, <2>6, <3>1
  <2>7. CASE ~(new_rows = -1 /\ new_cols = -1)
    <3>1. IF dims = NoDims THEN \A s : shapes # {s} ELSE shapes = {<<dims.rows, dims.cols>>}
      BY <2>1, <2>2, <2>7, ReshapedDimsOpen
    <3>. HIDE DEF dims, shapes, answer
    <3>2. CASE dims = NoDims
      BY <2>3, <2>4, <3>1, <3>2 DEF shapes, answer
    <3>3. CASE dims # NoDims
      BY <2>3, <2>5, <2>7, <3>1, <3>3 DEF shapes, answer
    <3>. QED
      BY <3>2, <3>3
  <2>. QED
    BY <2>6, <2>7
<1>2. IsMatrix(tensor) => ReshapeFollowsOnnx
  BY <1>1 DEF ReshapeFollowsOnnx
<1>. QED
  BY <1>2, ChainInvariance, PTL

-----------------------------------------------------------------------------
(* reduce_sum. *)

LEMMA AxisIs ==
  ASSUME NEW a \in -2 .. 1
  PROVE  Axis(a) \in {0, 1} /\ ~BadAxis(a)
BY DEF Axis, BadAxis

LEMMA AxesOfOne ==
  ASSUME NEW a
  PROVE  /\ UniqueAxes(<<a>>) = {Axis(a)} /\ Range(<<a>>) = {a}
         /\ Cardinality(UniqueAxes(<<a>>)) = 1
<1>1. Range(<<a>>) = {a}
  BY DEF Range
<1>2. UniqueAxes(<<a>>) = {Axis(a)}
  BY <1>1 DEF UniqueAxes
<1>. QED
  BY <1>1, <1>2, FS_Singleton

LEMMA AxesOfTwo ==
  ASSUME NEW a \in -2 .. 1, NEW b \in -2 .. 1
  PROVE  /\ UniqueAxes(<<a, b>>) = {Axis(a), Axis(b)} /\ Range(<<a, b>>) = {a, b}
         /\ Axis(a) # Axis(b) => Cardinality(UniqueAxes(<<a, b>>)) = 2
<1>1. Range(<<a, b>>) = {a, b}
  BY DEF Range
<1>2. UniqueAxes(<<a, b>>) = {Axis(a), Axis(b)}
  BY <1>1 DEF UniqueAxes
<1>3. ASSUME Axis(a) # Axis(b) PROVE Cardinality({Axis(a), Axis(b)}) = 2
  <2> DEFINE x == Axis(a)
             y == Axis(b)
  <2>1. x # y
    BY <1>3
  <2>. HIDE DEF x, y
  <2>2. IsFiniteSet({x}) /\ Cardinality({x}) = 1 /\ {x} \cup {y} = {x, y} /\ y \notin {x}
    BY <2>1, FS_Singleton
  <2>3. Cardinality({x} \cup {y}) = 2
    BY <2>2, FS_AddElement
  <2>. QED
    BY <2>2, <2>3 DEF x, y
<1>. QED
  BY <1>1, <1>2, <1>3

(* The sums of the columns, of the rows and of all entries.                *)
LEMMA ReduceSumIs ==
  ASSUME NEW A, NEW a \in -2 .. 1
  PROVE  ReduceSum(A, <<a>>) =
           IF Axis(a) = 0
           THEN [rows |-> 1, cols |-> A.cols,
                 at |-> [p \in Entries(1, A.cols) |-> Total(A.at, (0 .. A.rows - 1) \X {p[2]})]]
           ELSE [rows |-> A.rows, cols |-> 1,
                 at |-> [p \in Entries(A.rows, 1) |-> Total(A.at, {p[1]} \X (0 .. A.cols - 1))]]
<1>1. <<a>> # <<>> /\ ~ \E x \in Range(<<a>>) : BadAxis(x)
  BY AxesOfOne, AxisIs
<1>2. Cardinality(UniqueAxes(<<a>>)) # 2 /\ (UniqueAxes(<<a>>) = {0} <=> Axis(a) = 0)
  BY AxesOfOne
<1>. QED
  BY <1>1, <1>2 DEF ReduceSum, Matrix, SumOver, Total

LEMMA ReduceSumBothIs ==
  ASSUME NEW A, NEW a \in -2 .. 1, NEW b \in -2 .. 1
  PROVE  ReduceSum(A, <<a, b>>) =
           IF Axis(a) = Axis(b) THEN ReduceSum(A, <<b>>)
           ELSE [rows |-> 1, cols |-> 1,
                 at |-> [p \in Entries(1, 1) |->
                           Total(A.at, (0 .. A.rows - 1) \X (0 .. A.cols - 1))]]
<1>1. <<a, b>> # <<>> /\ ~ \E x \in Range(<<a, b>>) : BadAxis(x)
  BY AxesOfTwo, AxisIs
<1>2. CASE Axis(a) = Axis(b)
  <2>1. <<b>> # <<>> /\ ~ \E x \in Range(<<b>>) : BadAxis(x)
    BY AxesOfOne, AxisIs
  <2>2. UniqueAxes(<<a, b>>) = UniqueAxes(<<b>>)
    <3>1. UniqueAxes(<<a, b>>) = {Axis(a), Axis(b)}
      BY AxesOfTwo
    <3>2. UniqueAxes(<<b>>) = {Axis(b)}
      BY AxesOfOne
    <3>. QED
      BY <1>2, <3>1, <3>2
  <2>. QED
    BY <1>1, <1>2, <2>1, <2>2 DEF ReduceSum
<1>3. CASE Axis(a) # Axis(b)
  <2>1. Cardinality(UniqueAxes(<<a, b>>)) = 2
    BY <1>3, AxesOfTwo
  <2>. QED
    BY <1>1, <1>3, <2>1 DEF ReduceSum, Matrix, SumOver, Total
<1>. QED
  BY <1>2, <1>3

LEMMA IndicesFinite ==
  ASSUME NEW n \in Nat
  PROVE  IsFiniteSet(0 .. n - 1)
<1> DEFINE first == 0
           last == n - 1
<1>1. first \in Int /\ last \in Int
  OBVIOUS
<1>. HIDE DEF first, last
<1>2. IsFiniteSet(first .. last)
  BY <1>1, FS_Interval
<1>. QED
  BY <1>2 DEF first, last

LEMMA LineFinite ==
  ASSUME NEW n \in Nat, NEW x
  PROVE  IsFiniteSet((0 .. n - 1) \X {x}) /\ IsFiniteSet({x} \X (0 .. n - 1))
<1> DEFINE S == 0 .. n - 1
           T == {x}
<1>1. IsFiniteSet(S) /\ IsFiniteSet(T)
  BY IndicesFinite, FS_Singleton
<1>. HIDE DEF S, T
<1>2. IsFiniteSet(S \X T) /\ IsFiniteSet(T \X S)
  BY <1>1, FS_Product
<1>. QED
  BY <1>2 DEF S, T

(* Reducing the only row (column) that is left changes nothing.            *)
LEMMA ReducedTwiceAlong ==
  ASSUME NEW A, IsMatrix(A), NEW a \in -2 .. 1, NEW b \in -2 .. 1, Axis(a) = Axis(b)
  PROVE  ReduceSum(ReduceSum(A, <<a>>), <<b>>) = ReduceSum(A, <<a>>)
<1> DEFINE B == ReduceSum(A, <<a>>)
<1>1. A.rows \in Nat /\ A.cols \in Nat
  BY DEF IsMatrix
<1>2. CASE Axis(a) = 0
  <2>1. /\ B.rows = 1 /\ B.cols = A.cols
        /\ B = [rows |-> 1, cols |-> A.cols, at |-> B.at]
        /\ B.at = [p \in Entries(1, A.cols) |-> B.at[p]]
        /\ \A p \in Entries(1, A.cols) : B.at[p] = Total(A.at, (0 .. A.rows - 1) \X {p[2]})
    <3>1. B = [rows |-> 1, cols |-> A.cols, at |-> [p \in Entries(1, A.cols) |-> Total(A.at, (0 .. A.rows - 1) \X {p[2]})]]
      BY <1>2, ReduceSumIs
    <3>. HIDE DEF B
    <3>. QED
      BY <3>1
  <2>2. ASSUME NEW p \in Entries(1, A.cols) PROVE Total(B.at, (0 .. B.rows - 1) \X {p[2]}) = B.at[p]
    <3>1. (0 .. B.rows - 1) \X {p[2]} = {p}
      BY <2>1 DEF Entries
    <3>2. B.at[p] \in Int
      <4>1. B.at[p] = Total(A.at, (0 .. A.rows - 1) \X {p[2]})
        BY <2>1
      <4>2. \A q \in (0 .. A.rows - 1) \X {p[2]} : A.at[q] \in Int
        BY <1>1 DEF IsMatrix, Entries
      <4>3. IsFiniteSet((0 .. A.rows - 1) \X {p[2]})
        BY <1>1, LineFinite
      <4>. QED
        BY <4>1, <4>2, <4>3, SumInteger
    <3>. QED
      BY <3>1, <3>2, SumOfOne
  <2>3. ReduceSum(B, <<b>>) =
          [rows |-> 1, cols |-> B.cols,
           at |-> [p \in Entries(1, B.cols) |-> Total(B.at, (0 .. B.rows - 1) \X {p[2]})]]
    BY <1>2, ReduceSumIs
  <2>. HIDE DEF B
  <2>. QED
    BY <2>1, <2>2, <2>3 DEF B
<1>3. CASE Axis(a) # 0
  <2>1. /\ B.rows = A.rows /\ B.cols = 1
        /\ B = [rows |-> A.rows, cols |-> 1, at |-> B.at]
        /\ B.at = [p \in Entries(A.rows, 1) |-> B.at[p]]
        /\ \A p \in Entries(A.rows, 1) : B.at[p] = Total(A.at, {p[1]} \X (0 .. A.cols - 1))
    <3>1. B = [rows |-> A.rows, cols |-> 1, at |-> [p \in Entries(A.rows, 1) |-> Total(A.at, {p[1]} \X (0 .. A.cols - 1))]]
      BY <1>3, ReduceSumIs
    <3>. HIDE DEF B
    <3>. QED
      BY <3>1
  <2>2. ASSUME NEW p \in Entries(A.rows, 1) PROVE Total(B.at, {p[1]} \X (0 .. B.cols - 1)) = B.at[p]
    <3>1. {p[1]} \X (0 .. B.cols - 1) = {p}
      BY <2>1 DEF Entries
    <3>2. B.at[p] \in Int
      <4>1. B.at[p] = Total(A.at, {p[1]} \X (0 .. A.cols - 1))
        BY <2>1
      <4>2. \A q \in {p[1]} \X (0 .. A.cols - 1) : A.at[q] \in Int
        BY <1>1 DEF IsMatrix, Entries
      <4>3. IsFiniteSet({p[1]} \X (0 .. A.cols - 1))
        BY <1>1, LineFinite
      <4>. QED
        BY <4>1, <4>2, <4>3, SumInteger
    <3>. QED
      BY <3>1, <3>2, SumOfOne
  <2>3. ReduceSum(B, <<b>>) =
          [rows |-> B.rows, cols |-> 1,
           at |-> [p \in Entries(B.rows, 1) |-> Total(B.at, {p[1]} \X (0 .. B.cols - 1))]]
    BY <1>3, ReduceSumIs
  <2>. HIDE DEF B
  <2>. QED
    BY <2>1, <2>2, <2>3 DEF B
<1>. QED
  BY <1>2, <1>3

(* The sums of the columns add up to the sum of all entries.               *)
LEMMA ColumnsAddUp ==
  ASSUME NEW A, IsMatrix(A), NEW h,
         \A p \in Entries(1, A.cols) : h[p] = Total(A.at, (0 .. A.rows - 1) \X {p[2]})
  PROVE  Total(h, {0} \X (0 .. A.cols - 1)) =
           Total(A.at, (0 .. A.rows - 1) \X (0 .. A.cols - 1))
<1> DEFINE rows == 0 .. A.rows - 1
           cols == 0 .. A.cols - 1
           S == {0} \X cols
           P == [s \in S |-> rows \X {s[2]}]
<1>1. A.rows \in Nat /\ A.cols \in Nat
  BY DEF IsMatrix
<1>2. IsFiniteSet(rows) /\ IsFiniteSet(cols)
  BY <1>1, IndicesFinite
<1>3. \A p \in rows \X cols : A.at[p] \in Int
  BY <1>1 DEF IsMatrix, Entries
<1>4. \A p \in S : h[p] = Total(A.at, rows \X {p[2]})
  BY <1>1 DEF Entries
<1>. HIDE DEF rows, cols
<1>5. IsFiniteSet(S) /\ \A s \in S : IsFiniteSet(P[s])
  BY <1>2, FS_Singleton, FS_Product
<1>6. UNION {P[s] : s \in S} = rows \X cols
  <2>1. ASSUME NEW p \in rows \X cols PROVE p \in UNION {P[s] : s \in S}
    <3>1. <<0, p[2]>> \in S /\ p \in P[<<0, p[2]>>]
      OBVIOUS
    <3>. QED
      BY <3>1
  <2>2. \A s \in S : P[s] \subseteq rows \X cols
    OBVIOUS
  <2>. QED
    BY <2>1, <2>2
<1>7. ASSUME NEW s \in S, NEW t \in S, s # t PROVE P[s] \cap P[t] = {}
  <2>1. s[2] # t[2]
    BY <1>7
  <2>2. \A p \in P[s] : p[2] = s[2]
    OBVIOUS
  <2>3. \A p \in P[t] : p[2] = t[2]
    OBVIOUS
  <2>. QED
    BY <2>1, <2>2, <2>3
<1>8. \A s \in S : h[s] = Total(A.at, P[s]) /\ \A x \in P[s] : A.at[x] \in Int
  BY <1>3, <1>4
<1>. HIDE DEF S, P
<1>9. Total(h, S) = Total(A.at, UNION {P[s] : s \in S})
  BY <1>5, <1>7, <1>8, SumOfParts
<1>. QED
  BY <1>6, <1>9 DEF S, rows, cols

(* So do the sums of the rows.                                             *)
LEMMA RowsAddUp ==
  ASSUME NEW A, IsMatrix(A), NEW h,
         \A p \in Entries(A.rows, 1) : h[p] = Total(A.at, {p[1]} \X (0 .. A.cols - 1))
  PROVE  Total(h, (0 .. A.rows - 1) \X {0}) =
           Total(A.at, (0 .. A.rows - 1) \X (0 .. A.cols - 1))
<1> DEFINE rows == 0 .. A.rows - 1
           cols == 0 .. A.cols - 1
           S == rows \X {0}
           P == [s \in S |-> {s[1]} \X cols]
<1>1. A.rows \in Nat /\ A.cols \in Nat
  BY DEF IsMatrix
<1>2. IsFiniteSet(rows) /\ IsFiniteSet(cols)
  BY <1>1, IndicesFinite
<1>3. \A p \in rows \X cols : A.at[p] \in Int
  BY <1>1 DEF IsMatrix, Entries
<1>4. \A p \in S : h[p] = Total(A.at, {p[1]} \X cols)
  BY <1>1 DEF Entries
<1>. HIDE DEF rows, cols
<1>5. IsFiniteSet(S) /\ \A s \in S : IsFiniteSet(P[s])
  BY <1>2, FS_Singleton, FS_Product
<1>6. UNION {P[s] : s \in S} = rows \X cols
  <2>1. ASSUME NEW p \in rows \X cols PROVE p \in UNION {P[s] : s \in S}
    <3>1. <<p[1], 0>> \in S /\ p \in P[<<p[1], 0>>]
      OBVIOUS
    <3>. QED
      BY <3>1
  <2>2. \A s \in S : P[s] \subseteq rows \X cols
    OBVIOUS
  <2>. QED
    BY <2>1, <2>2
<1>7. ASSUME NEW s \in S, NEW t \in S, s # t PROVE P[s] \cap P[t] = {}
  <2>1. s[1] # t[1]
    BY <1>7
  <2>2. \A p \in P[s] : p[1] = s[1]
    OBVIOUS
  <2>3. \A p \in P[t] : p[1] = t[1]
    OBVIOUS
  <2>. QED
    BY <2>1, <2>2, <2>3
<1>8. \A s \in S : h[s] = Total(A.at, P[s]) /\ \A x \in P[s] : A.at[x] \in Int
  BY <1>3, <1>4
<1>. HIDE DEF S, P
<1>9. Total(h, S) = Total(A.at, UNION {P[s] : s \in S})
  BY <1>5, <1>7, <1>8, SumOfParts
<1>. QED
  BY <1>6, <1>9 DEF S, rows, cols

LEMMA ReducedTwiceAcross ==
  ASSUME NEW A, IsMatrix(A), NEW a \in -2 .. 1, NEW b \in -2 .. 1, Axis(a) # Axis(b)
  PROVE  ReduceSum(ReduceSum(A, <<a>>), <<b>>) =
           [rows |-> 1, cols |-> 1,
            at |-> [p \in Entries(1, 1) |->
                      Total(A.at, (0 .. A.rows - 1) \X (0 .. A.cols - 1))]]
<1> DEFINE B == ReduceSum(A, <<a>>)
<1>0. \A p \in Entries(1, 1) : p[1] = 0 /\ p[2] = 0
  BY DEF Entries
<1>1. CASE Axis(a) = 0
  <2>1. /\ B.rows = 1 /\ B.cols = A.cols
        /\ \A p \in Entries(1, A.cols) : B.at[p] = Total(A.at, (0 .. A.rows - 1) \X {p[2]})
    <3>1. B = [rows |-> 1, cols |-> A.cols, at |-> [p \in Entries(1, A.cols) |-> Total(A.at, (0 .. A.rows - 1) \X {p[2]})]]
      BY <1>1, ReduceSumIs
    <3>. HIDE DEF B
    <3>. QED
      BY <3>1
  <2>2. Axis(b) # 0
    BY <1>1
  <2>3. ReduceSum(B, <<b>>) =
          [rows |-> B.rows, cols |-> 1,
           at |-> [p \in Entries(B.rows, 1) |-> Total(B.at, {p[1]} \X (0 .. B.cols - 1))]]
    BY <2>2, ReduceSumIs
  <2>4. Total(B.at, {0} \X (0 .. A.cols - 1)) =
          Total(A.at, (0 .. A.rows - 1) \X (0 .. A.cols - 1))
    BY <2>1, ColumnsAddUp
  <2>. HIDE DEF B
  <2>. QED
    BY <1>0, <2>1, <2>3, <2>4 DEF B
<1>2. CASE Axis(a) # 0
  <2>1. /\ B.rows = A.rows /\ B.cols = 1
        /\ \A p \in Entries(A.rows, 1) : B.at[p] = Total(A.at, {p[1]} \X (0 .. A.cols - 1))
    <3>1. B = [rows |-> A.rows, cols |-> 1, at |-> [p \in Entries(A.rows, 1) |-> Total(A.at, {p[1]} \X (0 .. A.cols - 1))]]
      BY <1>2, ReduceSumIs
    <3>. HIDE DEF B
    <3>. QED
      BY <3>1
  <2>2. Axis(b) = 0
    BY <1>2, AxisIs
  <2>3. ReduceSum(B, <<b>>) =
          [rows |-> 1, cols |-> B.cols,
           at |-> [p \in Entries(1, B.cols) |-> Total(B.at, (0 .. B.rows - 1) \X {p[2]})]]
    BY <2>2, ReduceSumIs
  <2>4. Total(B.at, (0 .. A.rows - 1) \X {0}) =
          Total(A.at, (0 .. A.rows - 1) \X (0 .. A.cols - 1))
    BY <2>1, RowsAddUp
  <2>. HIDE DEF B
  <2>. QED
    BY <1>0, <2>1, <2>3, <2>4 DEF B
<1>. QED
  BY <1>1, <1>2

(* reduce_sum over both axes is reduce_sum over one and then the other, in *)
(* either order; an axis named twice is reduced once.                      *)
THEOREM ReduceSumInAnyOrder == Spec => []ReduceSumComposes
<1>1. ASSUME IsMatrix(tensor) PROVE ReduceSumComposes
  <2> DEFINE both == ReduceSum(tensor, <<0, 1>>)
             total == [rows |-> 1, cols |-> 1,
                       at |-> [p \in Entries(1, 1) |->
                                 Total(tensor.at, (0 .. tensor.rows - 1) \X (0 .. tensor.cols - 1))]]
  <2>1. both = total
    <3>1. Axis(0) # Axis(1) /\ 0 \in -2 .. 1 /\ 1 \in -2 .. 1
      BY DEF Axis
    <3> DEFINE zero == 0
               one == 1
    <3>2. zero \in -2 .. 1 /\ one \in -2 .. 1 /\ Axis(zero) # Axis(one)
      BY <3>1
    <3>. HIDE DEF zero, one
    <3>3. ReduceSum(tensor, <<zero, one>>) = total
      BY <3>2, ReduceSumBothIs
    <3>. QED
      BY <3>3 DEF zero, one
  <2>2. ASSUME NEW a \in -2 .. 1, NEW b \in -2 .. 1
        PROVE  /\ ReduceSum(ReduceSum(tensor, <<a>>), <<b>>) =
                    IF Axis(a) = Axis(b) THEN ReduceSum(tensor, <<a>>) ELSE both
               /\ ReduceSum(tensor, <<a, b>>) =
                    IF Axis(a) = Axis(b) THEN ReduceSum(tensor, <<b>>) ELSE both
    <3>1. CASE Axis(a) = Axis(b)
      <4>1. ReduceSum(ReduceSum(tensor, <<a>>), <<b>>) = ReduceSum(tensor, <<a>>)
        BY <1>1, <3>1, ReducedTwiceAlong
      <4>2. ReduceSum(tensor, <<a, b>>) = ReduceSum(tensor, <<b>>)
        BY <3>1, ReduceSumBothIs
      <4>. QED
        BY <3>1, <4>1, <4>2
    <3>2. CASE Axis(a) # Axis(b)
      <4>1. ReduceSum(ReduceSum(tensor, <<a>>), <<b>>) = total
        BY <1>1, <3>2, ReducedTwiceAcross
      <4>2. ReduceSum(tensor, <<a, b>>) = total
        BY <3>2, ReduceSumBothIs
      <4>. HIDE DEF both, total
      <4>. QED
        BY <2>1, <3>2, <4>1, <4>2
    <3>. QED
      BY <3>1, <3>2
  <2>. QED
    BY <2>2 DEF ReduceSumComposes
<1>. QED
  BY <1>1, ChainInvariance, PTL
=============================================================================
