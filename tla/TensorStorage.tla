---------------------------- MODULE TensorStorage ----------------------------
(***************************************************************************)
(* Who owns the data of the tensors of src/core/tensor/tensor.cpp, under   *)
(* any sequence of constructions, moves, allocations, clones and           *)
(* destructions.  Two allocators are at hand: the default one, which       *)
(* frees a block when it is told to, and a MemoryPool, which keeps its     *)
(* blocks until the last std::shared_ptr to the pool is gone.              *)
(*                                                                         *)
(* A shape counts by its bytes: some, none, or unknown (a negative         *)
(* dimension, for which Bytes() throws).  A view may outlive its data, but *)
(* is then only destroyed or overwritten.                                  *)
(***************************************************************************)
EXTENDS FiniteSets

CONSTANTS
  Tensors,   (* places a Tensor object can live in         *)
  Blocks,    (* blocks of memory                           *)
  Null       (* the null pointer                           *)

ASSUME NullAssumption == Null \notin Blocks

Bytes      == {"some", "none", "unknown"}
Allocators == {"default", "pool"}

VARIABLES
  tensor,    (* tensor[t]: the object at t, or Gone                  *)
  memory,    (* memory[b]: the allocator that gave b out, or "free"  *)
  handle     (* the program itself holds a pointer to the pool       *)

vars == <<tensor, memory, handle>>

Gone == [bytes |-> "none", data |-> Null, owns_data |-> FALSE, allocator |-> "gone"]

Object(bytes, data, owns_data, allocator) ==
  [bytes |-> bytes, data |-> data, owns_data |-> owns_data, allocator |-> allocator]

Lives(t) == tensor[t].allocator # "gone"

Init ==
  /\ tensor = [t \in Tensors |-> Gone]
  /\ memory = [b \in Blocks |-> "free"]
  /\ handle = TRUE

(* The pool goes, with its blocks, when nobody points to it any more.      *)
PoolHeld(objects, held) == held \/ \E t \in Tensors : objects[t].allocator = "pool"

Become(objects, owned, held) ==
  /\ tensor' = objects
  /\ handle' = held
  /\ memory' = IF PoolHeld(objects, held)
               THEN owned
               ELSE [b \in Blocks |-> IF owned[b] = "pool" THEN "free" ELSE owned[b]]

(* mutation: a view frees what it points to *)
FreedByAny(object) ==
  IF object.data # Null /\ object.allocator = "default"
  THEN [memory EXCEPT ![object.data] = "free"]
  ELSE memory

(* Deallocate of the allocator the object refers to.  An object without    *)
(* allocator was moved from; the pool ignores the call.                    *)
Freed(object) ==
  IF object.data # Null /\ object.owns_data /\ object.allocator = "default"
  THEN [memory EXCEPT ![object.data] = "free"]
  ELSE memory

Emptied(object) == [object EXCEPT !.data = Null, !.owns_data = FALSE]

(* mutation: the source keeps its pointer and its ownership *)
MovedFromOwning(object) == [object EXCEPT !.allocator = "none"]

(* What a move leaves behind. *)
MovedFrom(object) == [Emptied(object) EXCEPT !.allocator = "none"]

----------------------------------------------------------------------------
(* Construction and destruction. *)

Construct(t, bytes) ==
  /\ ~Lives(t)
  /\ Become([tensor EXCEPT ![t] = Object(bytes, Null, FALSE, "default")], memory, handle)

(* Over data of another tensor, which it does not own.                     *)
ConstructView(t, u, bytes) ==
  /\ ~Lives(t)
  /\ tensor[u].data # Null
  /\ Become([tensor EXCEPT ![t] = Object(bytes, tensor[u].data, FALSE, "default")],
            memory, handle)

(* Over a block from operator new that the caller hands over.              *)
ConstructOwner(t, b, bytes) ==
  /\ ~Lives(t)
  /\ memory[b] = "free"
  /\ Become([tensor EXCEPT ![t] = Object(bytes, b, TRUE, "default")],
            [memory EXCEPT ![b] = "default"], handle)

MoveConstruct(t, u) ==
  /\ ~Lives(t) /\ Lives(u)
  /\ Become([tensor EXCEPT ![t] = tensor[u], ![u] = MovedFrom(tensor[u])], memory, handle)

Destroy(t) ==
  /\ Lives(t)
  /\ Become([tensor EXCEPT ![t] = Gone], Freed(tensor[t]), handle)

----------------------------------------------------------------------------
(* Methods.  Assigning an object to itself changes nothing.                *)

(* mutation: the old data is dropped without being freed *)
OverwrittenUnfreed(object) == memory

Overwritten(object) == Freed(object)

MoveAssign(t, u) ==
  /\ Lives(t) /\ Lives(u) /\ t # u
  /\ Become([tensor EXCEPT ![t] = tensor[u], ![u] = MovedFrom(tensor[u])],
            Overwritten(tensor[t]), handle)

Deallocate(t) ==
  /\ Lives(t)
  /\ Become([tensor EXCEPT ![t] = Emptied(tensor[t])], Freed(tensor[t]), handle)

AlreadyAllocated(object) == object.data # Null /\ object.owns_data

(* What Allocate makes of an object that owns nothing: the allocator is    *)
(* taken over before Bytes() or the allocation may throw.                  *)
AllocateSome(t, object, allocator, b) ==
  /\ object.bytes = "some"
  /\ memory[b] = "free"
  /\ Become([tensor EXCEPT ![t] = Object("some", b, TRUE, allocator)],
            [memory EXCEPT ![b] = allocator], handle)

AllocateNone(t, object, allocator) ==
  /\ object.bytes = "none"
  /\ Become([tensor EXCEPT ![t] = Object("none", Null, FALSE, allocator)], memory, handle)

AllocateThrows(t, object, allocator) ==
  /\ object.bytes # "none"
  /\ Become([tensor EXCEPT ![t] = [object EXCEPT !.allocator = allocator]], memory, handle)

AllocateWith(t, allocator) ==
  /\ ~AlreadyAllocated(tensor[t])
  /\ \/ \E b \in Blocks : AllocateSome(t, tensor[t], allocator, b)
     \/ AllocateNone(t, tensor[t], allocator)
     \/ AllocateThrows(t, tensor[t], allocator)

(* With the pool only while the program has a pointer to pass.             *)
Allocate(t, allocator) ==
  /\ Lives(t)
  /\ allocator = "pool" => handle
  /\ AllocateWith(t, allocator)

FillZero(t) ==
  /\ Lives(t)
  /\ tensor[t].data = Null
  /\ AllocateWith(t, "default")

(* The clone, made at t: unless it throws it has memory of its own.        *)
Clone(t, u) ==
  /\ ~Lives(t) /\ Lives(u)
  /\ LET copy == Object(tensor[u].bytes, Null, FALSE, "default")
     IN  \/ \E b \in Blocks : AllocateSome(t, copy, "default", b)
         \/ AllocateNone(t, copy, "default")

DropPool ==
  /\ handle
  /\ Become(tensor, memory, FALSE)

Next ==
  \/ \E t \in Tensors :
       \/ Destroy(t) \/ Deallocate(t) \/ FillZero(t)
       \/ \E bytes \in Bytes : Construct(t, bytes)
       \/ \E b \in Blocks, bytes \in Bytes : ConstructOwner(t, b, bytes)
       \/ \E allocator \in Allocators : Allocate(t, allocator)
       \/ \E u \in Tensors :
            \/ MoveConstruct(t, u) \/ MoveAssign(t, u) \/ Clone(t, u)
            \/ \E bytes \in Bytes : ConstructView(t, u, bytes)
  \/ DropPool

Spec == Init /\ [][Next]_vars

----------------------------------------------------------------------------
Objects == [bytes : Bytes, data : Blocks \cup {Null}, owns_data : BOOLEAN,
            allocator : Allocators \cup {"none", "gone"}]

TypeOK ==
  /\ tensor \in [Tensors -> Objects]
  /\ \A t \in Tensors :
       tensor[t].owns_data => tensor[t].data # Null /\ tensor[t].allocator \in Allocators
  /\ memory \in [Blocks -> Allocators \cup {"free"}]
  /\ handle \in BOOLEAN

(* What a tensor owns is memory it may free: given out by the allocator    *)
(* it refers to and not given back since, the pool included, which must    *)
(* not go before its tensors.                                              *)
OwnedIsAllocated ==
  \A t \in Tensors :
    tensor[t].owns_data => memory[tensor[t].data] = tensor[t].allocator

(* No block has two owners, so none is freed twice.                        *)
OwnersAreExclusive ==
  \A t, u \in Tensors :
    tensor[t].owns_data /\ tensor[u].owns_data /\ tensor[t].data = tensor[u].data => t = u

(* No block is forgotten: the default allocator's all have an owner, and   *)
(* the pool's are back when neither the program nor a tensor holds it.     *)
NothingLeaks ==
  \A b \in Blocks :
    /\ memory[b] = "default" => \E t \in Tensors : tensor[t].owns_data /\ tensor[t].data = b
    /\ memory[b] = "pool" => PoolHeld(tensor, handle)
=============================================================================
