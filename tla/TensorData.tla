----------------------------- MODULE TensorData -----------------------------
(***************************************************************************)
(* TensorStorage with what it leaves out: the element types and shapes of  *)
(* tensors, the contents of their blocks, and the operator AddOp           *)
(* (src/core/operators/math/add.h) that reads two tensors and returns one. *)
(*                                                                         *)
(* Memory counts in cells of four bytes, one for a FLOAT32; types that do  *)
(* not fill whole cells are left out.  A block holds its cells by index.   *)
(*                                                                         *)
(* Tensors do not check their pointers.  The program is taken to keep what *)
(* every pointer asks of it: it reads and writes through a view only while *)
(* the tensor that owns the data has that many cells, and gives AddOp      *)
(* inputs that are allocated.                                              *)
(***************************************************************************)
EXTENDS TensorStorage, Integers, SequencesExt

CONSTANTS
  Shapes,    (* bound: element types and dimensions the program uses *)
  MaxValue   (* bound: the largest number the program computes       *)

CellBytes == 4

SizeOf(dtype) == CASE dtype = "FLOAT32" -> 4 [] dtype = "INT32" -> 4 [] dtype = "INT64" -> 8

(* Of a shape without dimensions: none.  Unknown when one is negative.     *)
NumElements(dims) ==
  IF dims = <<>> THEN 0
  ELSE IF \E i \in DOMAIN dims : dims[i] < 0 THEN -1
  ELSE FoldSeq(LAMBDA d, total : total * d, 1, dims)

NoShape == [dtype |-> "FLOAT32", dims |-> <<>>]

(* Bytes() in cells, or -1 where it throws.                                *)
Size ==
  [s \in Shapes \cup {NoShape} |->
     IF NumElements(s.dims) < 0 THEN -1
     ELSE NumElements(s.dims) * (SizeOf(s.dtype) \div CellBytes)]

ASSUME ShapesAssumption == Size \in [Shapes \cup {NoShape} -> Nat \cup {-1}]
ASSUME ValueAssumption == MaxValue \in Nat

VARIABLES
  shape,     (* shape[t]: dtype_ and shape_ of the object at t  *)
  content    (* content[b]: the cells of a block                *)

data_vars == <<vars, shape, content>>

(* What TensorStorage knows of a shape. *)
BytesOf(s) == IF Size[s] < 0 THEN "unknown" ELSE IF Size[s] = 0 THEN "none" ELSE "some"

Indices(s) == 0 .. Size[s] - 1

Junk == -1

Cells == Junk .. MaxValue

Filled(s, x) == [i \in Indices(s) |-> x]

DataInit ==
  /\ Init
  /\ shape = [t \in Tensors |-> NoShape]
  /\ content = [b \in Blocks |-> <<>>]

(* The contents of blocks that are free are nobody's.                      *)
Contents(new) == content' = [b \in Blocks |-> IF memory'[b] = "free" THEN <<>> ELSE new[b]]

(* Nothing is written. *)
Kept == Contents(content)

(* If t now owns a block, it is new and holds these cells.                 *)
Given(t, cells) ==
  IF tensor'[t].owns_data
  THEN Contents([content EXCEPT ![tensor'[t].data] = cells])
  ELSE Kept

(* Pointers that may be followed: an owner's always. *)
Usable(t) ==
  tensor[t].owns_data \/ \E u \in Tensors :
    /\ tensor[u].owns_data /\ tensor[u].data = tensor[t].data
    /\ Size[shape[t]] <= Size[shape[u]]

Allocated(t) == tensor[t].data # Null /\ Usable(t)

Cell(t, i) == content[tensor[t].data][i]

(* The first cells of the data of t become x. *)
Overwrite(t, x) ==
  Contents([content EXCEPT ![tensor[t].data] =
              [i \in DOMAIN @ |-> IF i \in Indices(shape[t]) THEN x ELSE @[i]]])

----------------------------------------------------------------------------
(* The operations of TensorStorage. *)

New(t, s) ==
  /\ Construct(t, BytesOf(s))
  /\ shape' = [shape EXCEPT ![t] = s]
  /\ Kept

View(t, u, s) ==
  /\ Allocated(u)
  /\ ConstructView(t, u, BytesOf(s))
  /\ shape' = [shape EXCEPT ![t] = s]
  /\ Kept

(* The caller hands over a block of the right size. *)
Adopt(t, b, s, x) ==
  /\ Size[s] >= 0
  /\ ConstructOwner(t, b, BytesOf(s))
  /\ shape' = [shape EXCEPT ![t] = s]
  /\ Given(t, Filled(s, x))

(* mutation: the target keeps its own shape *)
MovedShapeKept(t, u) == shape' = shape

(* A move copies the type and the shape. *)
MovedShape(t, u) == shape' = [shape EXCEPT ![t] = shape[u]]

Move(t, u) ==
  /\ MoveConstruct(t, u) \/ MoveAssign(t, u)
  /\ MovedShape(t, u)
  /\ Kept

Release(t) ==
  \/ Destroy(t) /\ shape' = [shape EXCEPT ![t] = NoShape] /\ Kept
  \/ Deallocate(t) /\ UNCHANGED shape /\ Kept

AllocateData(t, allocator) ==
  /\ Allocate(t, allocator)
  /\ UNCHANGED shape
  /\ Given(t, Filled(shape[t], Junk))

(* Allocates what is not there; throws where Bytes() does. *)
FillZeroData(t) ==
  /\ UNCHANGED shape
  /\ \/ FillZero(t) /\ Given(t, Filled(shape[t], 0))
     \/ Allocated(t) /\ UNCHANGED vars /\ Overwrite(t, 0)

(* mutation: too few bytes are copied *)
ClonedShort(u) ==
  [i \in Indices(shape[u]) |-> IF i > 0 \/ tensor[u].data = Null THEN Junk ELSE Cell(u, i)]

(* Memory of the clone of a tensor without data is not initialised.        *)
Cloned(u) ==
  [i \in Indices(shape[u]) |-> IF tensor[u].data = Null THEN Junk ELSE Cell(u, i)]

CloneData(t, u) ==
  /\ tensor[u].data = Null \/ Usable(u)
  /\ Clone(t, u)
  /\ shape' = [shape EXCEPT ![t] = shape[u]]
  /\ Given(t, Cloned(u))

----------------------------------------------------------------------------
(* The program writes one number to all cells of a tensor it can access.   *)
WriteData(t, x) ==
  /\ Allocated(t)
  /\ UNCHANGED <<vars, shape>>
  /\ Overwrite(t, x)

Values == INSTANCE TensorValues WITH
  value <- [t \in Tensors |-> IF tensor[t].owns_data THEN content[tensor[t].data] ELSE <<>>]

Accepts(a, b) == shape[a] = shape[b] /\ shape[a].dtype = "FLOAT32"

Sums(a, b) == [i \in Indices(shape[a]) |-> Values!Plus(Cell(a, i), Cell(b, i))]

(* AddOp::Compute on two tensors; the result is moved to t.  A rejected    *)
(* call, or one that finds no memory, changes nothing.                     *)
Compute(t, a, b) ==
  /\ Lives(a) /\ Lives(b) /\ a # b
  /\ Accepts(a, b)
  /\ Size[shape[a]] > 0 => Allocated(a) /\ Allocated(b)
  /\ \A i \in Indices(shape[a]) : Sums(a, b)[i] <= MaxValue
  /\ Clone(t, a)
  /\ shape' = [shape EXCEPT ![t] = shape[a]]
  /\ Given(t, Sums(a, b))

DataNext ==
  \/ \E t \in Tensors :
       \/ Release(t) \/ FillZeroData(t)
       \/ \E s \in Shapes : New(t, s)
       \/ \E b \in Blocks, s \in Shapes, x \in Cells \ {Junk} : Adopt(t, b, s, x)
       \/ \E allocator \in Allocators : AllocateData(t, allocator)
       \/ \E x \in Cells \ {Junk} : WriteData(t, x)
       \/ \E u \in Tensors :
            \/ Move(t, u) \/ CloneData(t, u)
            \/ \E s \in Shapes : View(t, u, s)
       \/ \E a, b \in Tensors : Compute(t, a, b)
  \/ DropPool /\ UNCHANGED shape /\ Kept

DataSpec == DataInit /\ [][DataNext]_data_vars

----------------------------------------------------------------------------
(* A tensor that owns data has as many cells as its type and shape say,    *)
(* and TensorStorage has the right idea of them: Clone, FillZero and AddOp *)
(* compute their bounds from the shape alone.                              *)
MemoryMatchesShape ==
  /\ shape \in [Tensors -> Shapes \cup {NoShape}]
  /\ \A t \in Tensors :
       /\ tensor[t].bytes = BytesOf(shape[t])
       /\ tensor[t].owns_data => content[tensor[t].data] \in [Indices(shape[t]) -> Cells]

(* Tensors that own data behave as values of their own: no operation on    *)
(* one changes another, what is read is what was written, a clone and a    *)
(* sum are new.                                                            *)
KeepsValues == Values!Spec
=============================================================================
