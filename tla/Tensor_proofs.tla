---------------------------- MODULE Tensor_proofs ----------------------------
(***************************************************************************)
(* Proofs about TensorStorage and TensorData, for any sets of tensors,     *)
(* blocks and shapes: a block has one owner and is allocated while it is   *)
(* owned; owned memory has the size of its tensor's shape; and the tensors *)
(* that own their data behave as values of their own (TensorValues).       *)
(*                                                                         *)
(* Every action ends in Become(objects, owned, held), which drops the pool *)
(* when nobody holds it.  Sound says what the new objects and the memory   *)
(* before that must satisfy; BecomeSound turns it into the invariant, so   *)
(* that each action has Sound to show and the pool is dealt with once.     *)
(*                                                                         *)
(* A step of TensorData is one of TensorStorage as far as objects and      *)
(* memory go, so that the second part rests on the first.                  *)
(***************************************************************************)
EXTENDS TensorData, TLAPS


(* The invariant of objects and memory, but for the pool being held. *)
Owns(objects, t, b) == objects[t].owns_data /\ objects[t].data = b

Sound(objects, owned) ==
  /\ objects \in [Tensors -> Objects]
  /\ owned \in [Blocks -> Allocators \cup {"free"}]
  /\ \A t \in Tensors : objects[t].owns_data =>
       /\ objects[t].data \in Blocks
       /\ objects[t].allocator \in Allocators
       /\ owned[objects[t].data] = objects[t].allocator
  /\ \A t, u \in Tensors :
       objects[t].owns_data /\ objects[u].owns_data /\ objects[t].data = objects[u].data
         => t = u
  /\ \A b \in Blocks : owned[b] = "default" => \E t \in Tensors : Owns(objects, t, b)

IInv == TypeOK /\ OwnedIsAllocated /\ OwnersAreExclusive /\ NothingLeaks

(* The invariant makes the current objects sound. *)
LEMMA InvSound ==
  ASSUME IInv PROVE Sound(tensor, memory)
  BY DEF IInv, TypeOK, OwnedIsAllocated, OwnersAreExclusive, NothingLeaks, Sound, Owns, Objects

(* Dropping a pool that nobody holds keeps sound objects sound.            *)
LEMMA BecomeSound ==
  ASSUME NEW objects, NEW owned, NEW held \in BOOLEAN,
         Sound(objects, owned), Become(objects, owned, held)
  PROVE  IInv'
<1>1. tensor' = objects /\ handle' = held
  BY DEF Become
<1>2. CASE PoolHeld(objects, held)
  <2>1. memory' = owned
    BY <1>2 DEF Become
  <2>. QED
    BY <1>1, <1>2, <2>1, NullAssumption
       DEF Sound, Owns, PoolHeld, IInv, TypeOK, OwnedIsAllocated, OwnersAreExclusive,
           NothingLeaks
<1>3. CASE ~PoolHeld(objects, held)
  <2>1. memory' = [b \in Blocks |-> IF owned[b] = "pool" THEN "free" ELSE owned[b]]
    BY <1>3 DEF Become
  <2>2. memory' \in [Blocks -> Allocators \cup {"free"}]
    BY <2>1 DEF Sound
  <2>3. ASSUME NEW t \in Tensors, objects[t].owns_data
        PROVE  /\ objects[t].data \in Blocks /\ objects[t].data # Null
               /\ objects[t].allocator \in Allocators
               /\ memory'[objects[t].data] = objects[t].allocator
    BY <1>3, <2>1, <2>3, NullAssumption DEF Sound, PoolHeld, Allocators
  <2>4. ASSUME NEW b \in Blocks
        PROVE  /\ memory'[b] # "pool"
               /\ memory'[b] = "default" => \E t \in Tensors : Owns(objects, t, b)
    BY <2>1 DEF Sound
  <2>5. TypeOK' /\ OwnedIsAllocated'
    BY <1>1, <2>2, <2>3 DEF TypeOK, OwnedIsAllocated, Sound
  <2>6. OwnersAreExclusive'
    BY <1>1 DEF OwnersAreExclusive, Sound
  <2>7. NothingLeaks'
    BY <1>1, <2>4 DEF NothingLeaks, Owns
  <2>. QED
    BY <2>5, <2>6, <2>7 DEF IInv
<1>. QED
  BY <1>2, <1>3

(* An object that owns nothing may take the place of a tensor whose data,  *)
(* if it owned any, has been freed.                                        *)
LEMMA ReplaceSound ==
  ASSUME NEW t \in Tensors, Sound(tensor, memory),
         NEW object \in Objects, ~object.owns_data
  PROVE  Sound([tensor EXCEPT ![t] = object], Freed(tensor[t]))
<1> DEFINE objects == [tensor EXCEPT ![t] = object]
           owned   == Freed(tensor[t])
<1>1. objects \in [Tensors -> Objects] /\ objects[t] = object
      /\ \A u \in Tensors : u # t => objects[u] = tensor[u]
  BY DEF Sound
<1>2. owned \in [Blocks -> Allocators \cup {"free"}]
  BY DEF Sound, Freed
<1>3. CASE tensor[t].owns_data /\ tensor[t].allocator = "default"
  <2>1. /\ tensor[t].data \in Blocks
        /\ \A b \in Blocks : owned[b] = IF b = tensor[t].data THEN "free" ELSE memory[b]
    BY <1>3, NullAssumption DEF Sound, Freed
  <2>. QED
    BY <1>1, <1>2, <1>3, <2>1 DEF Sound, Owns
<1>4. CASE ~(tensor[t].owns_data /\ tensor[t].allocator = "default")
  <2>1. owned = memory
    BY <1>4 DEF Freed
  <2>2. ASSUME NEW b \in Blocks, memory[b] = "default"
        PROVE  \E u \in Tensors : Owns(objects, u, b)
    BY <1>1, <1>4, <2>2 DEF Sound, Owns
  <2>. QED
    BY <1>1, <1>2, <2>1, <2>2 DEF Sound
<1>. QED
  BY <1>3, <1>4

(* A tensor that owns nothing frees nothing. *)
LEMMA FreedNothing ==
  ASSUME NEW t \in Tensors, ~tensor[t].owns_data PROVE Freed(tensor[t]) = memory
  BY DEF Freed

(* Such a tensor may take a free block.                                    *)
LEMMA TakeSound ==
  ASSUME NEW t \in Tensors, NEW b \in Blocks, NEW allocator \in Allocators,
         NEW bytes \in Bytes,
         Sound(tensor, memory), ~tensor[t].owns_data, memory[b] = "free"
  PROVE  Sound([tensor EXCEPT ![t] = Object(bytes, b, TRUE, allocator)],
               [memory EXCEPT ![b] = allocator])
<1> DEFINE object  == Object(bytes, b, TRUE, allocator)
           objects == [tensor EXCEPT ![t] = object]
           owned   == [memory EXCEPT ![b] = allocator]
<1>1. object \in Objects /\ object.owns_data /\ object.data = b
      /\ object.allocator = allocator
  BY DEF Object, Objects
<1>2. objects \in [Tensors -> Objects] /\ objects[t] = object
      /\ \A u \in Tensors : u # t => objects[u] = tensor[u]
  BY <1>1 DEF Sound
<1>3. owned \in [Blocks -> Allocators \cup {"free"}] /\ owned[b] = allocator
      /\ \A c \in Blocks : c # b => owned[c] = memory[c]
  BY DEF Sound
<1>4. ASSUME NEW u \in Tensors, tensor[u].owns_data
      PROVE  u # t /\ tensor[u].data # b
  BY <1>4 DEF Sound, Allocators
<1>5. ASSUME NEW u \in Tensors, objects[u].owns_data
      PROVE  /\ objects[u].data \in Blocks
             /\ objects[u].allocator \in Allocators
             /\ owned[objects[u].data] = objects[u].allocator
  <2>1. CASE u = t
    BY <1>1, <1>2, <1>3, <2>1
  <2>2. CASE u # t
    <3>1. objects[u] = tensor[u] /\ tensor[u].owns_data
      BY <1>2, <1>5, <2>2
    <3>2. /\ tensor[u].data \in Blocks /\ tensor[u].data # b
          /\ tensor[u].allocator \in Allocators
          /\ memory[tensor[u].data] = tensor[u].allocator
      BY <1>4, <3>1 DEF Sound
    <3>. QED
      BY <1>3, <3>1, <3>2
  <2>. QED
    BY <2>1, <2>2
<1>6. ASSUME NEW u \in Tensors, NEW v \in Tensors, objects[u].owns_data,
             objects[v].owns_data, objects[u].data = objects[v].data
      PROVE  u = v
  BY <1>1, <1>2, <1>4, <1>6 DEF Sound
<1>7. ASSUME NEW c \in Blocks, owned[c] = "default"
      PROVE  \E u \in Tensors : Owns(objects, u, c)
  <2>1. CASE c = b
    BY <1>1, <1>2, <2>1 DEF Owns
  <2>2. CASE c # b
    <3>1. PICK u \in Tensors : Owns(tensor, u, c)
      BY <1>3, <1>7, <2>2 DEF Sound
    <3>2. u # t
      BY <3>1 DEF Owns
    <3>. QED
      BY <1>2, <3>1, <3>2 DEF Owns
  <2>. QED
    BY <2>1, <2>2
<1>. QED
  BY <1>2, <1>3, <1>5, <1>6, <1>7 DEF Sound

(* A move hands the block over; what the target owned has been freed.      *)
LEMMA MoveSound ==
  ASSUME NEW t \in Tensors, NEW u \in Tensors, t # u, Sound(tensor, memory)
  PROVE  Sound([tensor EXCEPT ![t] = tensor[u], ![u] = MovedFrom(tensor[u])],
               Freed(tensor[t]))
<1> DEFINE objects == [tensor EXCEPT ![t] = tensor[u], ![u] = MovedFrom(tensor[u])]
           owned   == Freed(tensor[t])
<1>1. MovedFrom(tensor[u]) \in Objects /\ ~MovedFrom(tensor[u]).owns_data
  <2>1. tensor[u] \in Objects
    BY DEF Sound
  <2>2. Emptied(tensor[u]) \in Objects /\ ~Emptied(tensor[u]).owns_data
    BY <2>1 DEF Emptied, Objects
  <2>3. MovedFrom(tensor[u]) = [Emptied(tensor[u]) EXCEPT !.allocator = "none"]
    BY DEF MovedFrom
  <2>. QED
    BY <2>2, <2>3 DEF Objects
<1>2. objects \in [Tensors -> Objects] /\ objects[t] = tensor[u] /\ ~objects[u].owns_data
      /\ \A v \in Tensors : v # t /\ v # u => objects[v] = tensor[v]
  BY <1>1 DEF Sound
<1>3. owned \in [Blocks -> Allocators \cup {"free"}]
  BY DEF Sound, Freed
<1>4. ASSUME NEW b \in Blocks
      PROVE  owned[b] = IF Owns(tensor, t, b) /\ tensor[t].allocator = "default"
                        THEN "free" ELSE memory[b]
  BY NullAssumption DEF Sound, Freed, Owns
<1>5. ASSUME NEW v \in Tensors, objects[v].owns_data
      PROVE  \E w \in Tensors : w # t /\ objects[v] = tensor[w]
  BY <1>2, <1>5
<1>6. ASSUME NEW v \in Tensors, objects[v].owns_data
      PROVE  /\ objects[v].data \in Blocks
             /\ objects[v].allocator \in Allocators
             /\ owned[objects[v].data] = objects[v].allocator
  <2>1. PICK w \in Tensors : w # t /\ objects[v] = tensor[w]
    BY <1>5, <1>6
  <2>2. ~Owns(tensor, t, tensor[w].data)
    BY <1>6, <2>1 DEF Owns, Sound
  <2>. QED
    BY <1>4, <1>6, <2>1, <2>2 DEF Sound
<1>7. ASSUME NEW v \in Tensors, NEW w \in Tensors, objects[v].owns_data,
             objects[w].owns_data, objects[v].data = objects[w].data
      PROVE  v = w
  BY <1>2, <1>7 DEF Sound
<1>8. ASSUME NEW b \in Blocks, owned[b] = "default"
      PROVE  \E v \in Tensors : Owns(objects, v, b)
  <2>1. memory[b] = "default" /\ ~(Owns(tensor, t, b) /\ tensor[t].allocator = "default")
    BY <1>4, <1>8
  <2>2. PICK v \in Tensors : Owns(tensor, v, b)
    BY <2>1 DEF Sound
  <2>3. v # t
    BY <2>1, <2>2 DEF Sound, Owns
  <2>. QED
    BY <1>2, <2>2, <2>3 DEF Owns
<1>. QED
  BY <1>2, <1>3, <1>6, <1>7, <1>8 DEF Sound

----------------------------------------------------------------------------
(* The steps. *)

(* The three ends of an allocation keep the invariant. *)
LEMMA AllocationKeeps ==
  ASSUME NEW t \in Tensors, NEW object \in Objects, NEW allocator \in Allocators,
         IInv, ~tensor[t].owns_data, ~object.owns_data,
         \/ \E b \in Blocks : AllocateSome(t, object, allocator, b)
         \/ AllocateNone(t, object, allocator)
         \/ AllocateThrows(t, object, allocator)
  PROVE  IInv'
<1>1. Sound(tensor, memory) /\ handle \in BOOLEAN /\ Freed(tensor[t]) = memory
  BY InvSound, FreedNothing DEF IInv, TypeOK
<1>2. ASSUME NEW b \in Blocks, AllocateSome(t, object, allocator, b)
      PROVE  IInv'
  <2> DEFINE objects == [tensor EXCEPT ![t] = Object("some", b, TRUE, allocator)]
             owned   == [memory EXCEPT ![b] = allocator]
  <2>1. "some" \in Bytes
    BY DEF Bytes
  <2>2. memory[b] = "free" /\ Become(objects, owned, handle)
    BY <1>2 DEF AllocateSome
  <2>3. Sound(objects, owned)
    BY <1>1, <2>1, <2>2, TakeSound
  <2>. QED
    BY <1>1, <2>2, <2>3, BecomeSound
<1>3. CASE AllocateNone(t, object, allocator)
  <2>1. Object("none", Null, FALSE, allocator) \in Objects
        /\ ~Object("none", Null, FALSE, allocator).owns_data
    BY DEF Object, Objects, Bytes
  <2>2. Sound([tensor EXCEPT ![t] = Object("none", Null, FALSE, allocator)], memory)
    BY <1>1, <2>1, ReplaceSound
  <2>. QED
    BY <1>1, <1>3, <2>2, BecomeSound DEF AllocateNone
<1>4. CASE AllocateThrows(t, object, allocator)
  <2> DEFINE thrown == [object EXCEPT !.allocator = allocator]
  <2>1. thrown \in Objects /\ ~thrown.owns_data
    BY DEF Objects
  <2>2. Sound([tensor EXCEPT ![t] = thrown], memory)
    BY <1>1, <2>1, ReplaceSound
  <2>. QED
    BY <1>1, <1>4, <2>2, BecomeSound DEF AllocateThrows
<1>. QED
  BY <1>2, <1>3, <1>4

(* Places without an object own nothing. *)
LEMMA GoneOwnsNothing ==
  ASSUME NEW t \in Tensors, IInv, ~Lives(t) PROVE ~tensor[t].owns_data
  BY DEF IInv, TypeOK, Lives, Allocators

(* What is put into a place without an object, or in the place of one      *)
(* whose data is freed, keeps the invariant.                               *)
LEMMA ReplaceKeeps ==
  ASSUME NEW t \in Tensors, NEW object \in Objects, IInv, ~object.owns_data,
         Become([tensor EXCEPT ![t] = object], Freed(tensor[t]), handle)
  PROVE  IInv'
<1>1. Sound([tensor EXCEPT ![t] = object], Freed(tensor[t])) /\ handle \in BOOLEAN
  BY InvSound, ReplaceSound DEF IInv, TypeOK
<1>. QED
  BY <1>1, BecomeSound

(* Every step keeps the invariant. *)
LEMMA StepKeeps ==
  ASSUME IInv, [Next]_vars PROVE IInv'
<1>1. Sound(tensor, memory) /\ handle \in BOOLEAN /\ tensor \in [Tensors -> Objects]
  BY InvSound DEF IInv, TypeOK
<1>2. ASSUME NEW t \in Tensors, Destroy(t) PROVE IInv'
  <2>1. Gone \in Objects /\ ~Gone.owns_data
    BY DEF Gone, Objects, Bytes
  <2>. QED
    BY <1>2, <2>1, ReplaceKeeps DEF Destroy
<1>3. ASSUME NEW t \in Tensors, Deallocate(t) PROVE IInv'
  <2>1. Emptied(tensor[t]) \in Objects /\ ~Emptied(tensor[t]).owns_data
    BY <1>1 DEF Emptied, Objects
  <2>. QED
    BY <1>3, <2>1, ReplaceKeeps DEF Deallocate
<1>4. ASSUME NEW t \in Tensors, NEW bytes \in Bytes, Construct(t, bytes) PROVE IInv'
  <2>1. Object(bytes, Null, FALSE, "default") \in Objects
        /\ ~Object(bytes, Null, FALSE, "default").owns_data
    BY DEF Object, Objects, Allocators
  <2>2. Freed(tensor[t]) = memory
    BY <1>4, GoneOwnsNothing, FreedNothing DEF Construct
  <2>. QED
    BY <1>4, <2>1, <2>2, ReplaceKeeps DEF Construct
<1>5. ASSUME NEW t \in Tensors, NEW u \in Tensors, NEW bytes \in Bytes,
             ConstructView(t, u, bytes)
      PROVE  IInv'
  <2>1. Object(bytes, tensor[u].data, FALSE, "default") \in Objects
        /\ ~Object(bytes, tensor[u].data, FALSE, "default").owns_data
    BY <1>1 DEF Object, Objects, Allocators
  <2>2. Freed(tensor[t]) = memory
    BY <1>5, GoneOwnsNothing, FreedNothing DEF ConstructView
  <2>. QED
    BY <1>5, <2>1, <2>2, ReplaceKeeps DEF ConstructView
<1>6. ASSUME NEW t \in Tensors, NEW b \in Blocks, NEW bytes \in Bytes,
             ConstructOwner(t, b, bytes)
      PROVE  IInv'
  <2>1. ~tensor[t].owns_data /\ "default" \in Allocators
    BY <1>6, GoneOwnsNothing DEF ConstructOwner, Allocators
  <2> DEFINE objects == [tensor EXCEPT ![t] = Object(bytes, b, TRUE, "default")]
             owned   == [memory EXCEPT ![b] = "default"]
  <2>2. memory[b] = "free" /\ Become(objects, owned, handle)
    BY <1>6 DEF ConstructOwner
  <2>3. Sound(objects, owned)
    BY <1>1, <2>1, <2>2, TakeSound
  <2>. QED
    BY <1>1, <2>2, <2>3, BecomeSound
<1>7. ASSUME NEW t \in Tensors, NEW allocator \in Allocators,
             AllocateWith(t, allocator)
      PROVE  IInv'
  <2>1. ~tensor[t].owns_data /\ tensor[t] \in Objects
    BY <1>1, <1>7 DEF AllocateWith, AlreadyAllocated, IInv, TypeOK
  <2>. QED
    BY <1>7, <2>1, AllocationKeeps DEF AllocateWith
<1>8. ASSUME NEW t \in Tensors, NEW u \in Tensors, MoveConstruct(t, u) PROVE IInv'
  <2>1. t # u /\ Freed(tensor[t]) = memory
    BY <1>8, GoneOwnsNothing, FreedNothing DEF MoveConstruct
  <2> DEFINE objects == [tensor EXCEPT ![t] = tensor[u], ![u] = MovedFrom(tensor[u])]
  <2>2. Sound(objects, memory)
    BY <1>1, <2>1, MoveSound
  <2>3. Become(objects, memory, handle)
    BY <1>8 DEF MoveConstruct
  <2>. HIDE DEF objects
  <2>. QED
    BY <1>1, <2>2, <2>3, BecomeSound
<1>9. ASSUME NEW t \in Tensors, NEW u \in Tensors, MoveAssign(t, u) PROVE IInv'
  BY <1>1, <1>9, MoveSound, BecomeSound DEF MoveAssign, Overwritten
<1>10. ASSUME NEW t \in Tensors, NEW u \in Tensors, Clone(t, u) PROVE IInv'
  <2> DEFINE copy == Object(tensor[u].bytes, Null, FALSE, "default")
  <2>1. copy \in Objects /\ ~copy.owns_data /\ "default" \in Allocators
    BY <1>1 DEF Object, Objects, Allocators
  <2>2. ~tensor[t].owns_data
    BY <1>10, GoneOwnsNothing DEF Clone
  <2>. QED
    BY <1>10, <2>1, <2>2, AllocationKeeps DEF Clone
<1>11. CASE DropPool
  BY <1>1, <1>11, BecomeSound DEF DropPool
<1>12. CASE UNCHANGED vars
  BY <1>12 DEF vars, IInv, TypeOK, OwnedIsAllocated, OwnersAreExclusive, NothingLeaks, PoolHeld
<1>13. "default" \in Allocators
  BY DEF Allocators
<1>. QED
  BY <1>2, <1>3, <1>4, <1>5, <1>6, <1>7, <1>8, <1>9, <1>10, <1>11, <1>12, <1>13
     DEF Next, Allocate, FillZero

(* Initially there are no objects. *)
LEMMA InitHolds ==
  ASSUME Init PROVE IInv
  BY NullAssumption
     DEF Init, Gone, IInv, TypeOK, Objects, Bytes, Allocators, OwnedIsAllocated,
         OwnersAreExclusive, NothingLeaks, PoolHeld

(* The invariant holds in every reachable state.                           *)
THEOREM Invariance == Spec => []IInv
  BY InitHolds, StepKeeps, PTL DEF Spec

(* The objects have the types of tensor.h, and an owner has data.          *)
THEOREM TypeCorrect == Spec => []TypeOK
<1>1. IInv => TypeOK
  BY DEF IInv
<1>. QED
  BY <1>1, Invariance, PTL

(* What a tensor owns, its allocator has given out and still knows of.     *)
THEOREM OwnedAllocated == Spec => []OwnedIsAllocated
<1>1. IInv => OwnedIsAllocated
  BY DEF IInv
<1>. QED
  BY <1>1, Invariance, PTL

(* No block has two owners. *)
THEOREM OwnersExclusive == Spec => []OwnersAreExclusive
<1>1. IInv => OwnersAreExclusive
  BY DEF IInv
<1>. QED
  BY <1>1, Invariance, PTL

(* No block is forgotten. *)
THEOREM NoLeaks == Spec => []NothingLeaks
<1>1. IInv => NothingLeaks
  BY DEF IInv
<1>. QED
  BY <1>1, Invariance, PTL

-----------------------------------------------------------------------------
(* Shapes and contents. *)


DataInv == IInv /\ DOMAIN content = Blocks /\ MemoryMatchesShape

(* The value that Values gives to t. *)
ValueOf(t) == IF tensor[t].owns_data THEN content[tensor[t].data] ELSE <<>>

Value == [t \in Tensors |-> ValueOf(t)]

KnownShapes == Shapes \cup {NoShape}

----------------------------------------------------------------------------
(* Shapes. *)

LEMMA SizeKnown ==
  ASSUME NEW s \in KnownShapes PROVE Size[s] \in Nat \cup {-1}
  BY ShapesAssumption DEF KnownShapes

LEMMA BytesKnown ==
  ASSUME NEW s PROVE BytesOf(s) \in Bytes
  BY DEF BytesOf, Bytes

LEMMA EmptyHasNoBytes == BytesOf(NoShape) = "none"
<1>1. NumElements(NoShape.dims) = 0
  BY DEF NumElements, NoShape
<1>2. SizeOf(NoShape.dtype) = 4
  BY DEF SizeOf, NoShape
<1>3. Size[NoShape] = 0 * (4 \div CellBytes)
  BY <1>1, <1>2 DEF Size
<1>4. Size[NoShape] = 0
  BY <1>3 DEF CellBytes
<1>. QED
  BY <1>4 DEF BytesOf

LEMMA FilledIsMemory ==
  ASSUME NEW s, NEW x \in Cells PROVE Filled(s, x) \in [Indices(s) -> Cells]
  BY DEF Filled

(* An owner's memory, and what a pointer that may be followed points to.   *)
LEMMA UsableMemory ==
  ASSUME DataInv, NEW t \in Tensors, Usable(t)
  PROVE  \E u \in Tensors :
           /\ tensor[u].owns_data /\ tensor[u].data = tensor[t].data
           /\ Indices(shape[t]) \subseteq Indices(shape[u])
           /\ content[tensor[t].data] \in [Indices(shape[u]) -> Cells]
<1>1. \A u \in Tensors : shape[u] \in KnownShapes /\ Size[shape[u]] \in Int
  BY SizeKnown DEF DataInv, MemoryMatchesShape, KnownShapes
<1>2. PICK u \in Tensors : /\ tensor[u].owns_data /\ tensor[u].data = tensor[t].data
                           /\ Size[shape[t]] <= Size[shape[u]]
  BY <1>1 DEF Usable
<1>3. Indices(shape[t]) \subseteq Indices(shape[u])
  BY <1>1, <1>2 DEF Indices
<1>. QED
  BY <1>2, <1>3 DEF DataInv, MemoryMatchesShape

----------------------------------------------------------------------------
(* Contents. *)

(* Owned blocks get the contents that a step intends for them.             *)
LEMMA OwnedContents ==
  ASSUME IInv', NEW new, Contents(new), NEW t \in Tensors, tensor'[t].owns_data
  PROVE  /\ tensor'[t].data \in Blocks
         /\ content'[tensor'[t].data] = new[tensor'[t].data]
<1>1. tensor'[t].data \in Blocks /\ tensor'[t].allocator \in Allocators
  BY DEF IInv, TypeOK, Objects
<1>2. memory'[tensor'[t].data] # "free"
  BY <1>1 DEF IInv, OwnedIsAllocated, Allocators
<1>. QED
  BY <1>1, <1>2 DEF Contents

(* A step that concerns one tensor, t, and leaves the others their data.   *)
LEMMA OneTensor ==
  ASSUME DataInv, IInv', NEW new, Contents(new), NEW t \in Tensors,
         \A u \in Tensors : u # t =>
           /\ tensor'[u] = tensor[u] /\ shape'[u] = shape[u]
           /\ tensor[u].owns_data => new[tensor[u].data] = content[tensor[u].data],
         shape' \in [Tensors -> KnownShapes],
         tensor'[t].bytes = BytesOf(shape'[t]),
         tensor'[t].owns_data => new[tensor'[t].data] \in [Indices(shape'[t]) -> Cells]
  PROVE  MemoryMatchesShape' /\ \A u \in Tensors : u # t => ValueOf(u)' = ValueOf(u)
<1>1. \A u \in Tensors : tensor'[u].owns_data => content'[tensor'[u].data] = new[tensor'[u].data]
  BY OwnedContents
<1>2. \A u \in Tensors : u # t => ValueOf(u)' = ValueOf(u)
  BY <1>1 DEF ValueOf
<1>3. ASSUME NEW u \in Tensors
      PROVE  /\ tensor'[u].bytes = BytesOf(shape'[u])
             /\ tensor'[u].owns_data => content'[tensor'[u].data] \in [Indices(shape'[u]) -> Cells]
  <2>1. CASE u = t
    BY <1>1, <2>1
  <2>2. CASE u # t
    BY <1>1, <2>2 DEF DataInv, MemoryMatchesShape
  <2>. QED
    BY <2>1, <2>2
<1>. QED
  BY <1>2, <1>3 DEF MemoryMatchesShape, KnownShapes

(* What Given needs to know of the tensor it gives data to.                *)
LEMMA GivenOne ==
  ASSUME DataInv, IInv', NEW t \in Tensors, NEW cells, Given(t, cells),
         \A u \in Tensors : u # t => tensor'[u] = tensor[u] /\ shape'[u] = shape[u],
         shape' \in [Tensors -> KnownShapes],
         tensor'[t].bytes = BytesOf(shape'[t]),
         tensor'[t].owns_data => cells \in [Indices(shape'[t]) -> Cells]
  PROVE  /\ MemoryMatchesShape'
         /\ \A u \in Tensors : u # t => ValueOf(u)' = ValueOf(u)
         /\ ValueOf(t)' = IF tensor'[t].owns_data THEN cells ELSE <<>>
<1>1. CASE tensor'[t].owns_data
  <2> DEFINE new == [content EXCEPT ![tensor'[t].data] = cells]
  <2>1. Contents(new)
    BY <1>1 DEF Given
  <2>2. tensor'[t].data \in Blocks /\ content'[tensor'[t].data] = new[tensor'[t].data]
    <3>. HIDE DEF new
    <3>. QED
      BY <1>1, <2>1, OwnedContents
  <2>3. new[tensor'[t].data] = cells
    BY <2>2 DEF DataInv
  <2>4. \A u \in Tensors : u # t /\ tensor[u].owns_data => new[tensor[u].data] = content[tensor[u].data]
    BY <1>1, <2>2 DEF DataInv, IInv, OwnersAreExclusive
  <2>5. MemoryMatchesShape' /\ \A u \in Tensors : u # t => ValueOf(u)' = ValueOf(u)
    <3>. HIDE DEF new
    <3>. QED
      BY <2>1, <2>3, <2>4, OneTensor
  <2>. QED
    BY <1>1, <2>2, <2>3, <2>5 DEF ValueOf
<1>2. CASE ~tensor'[t].owns_data
  <2>1. Contents(content)
    BY <1>2 DEF Given, Kept
  <2>. QED
    BY <1>2, <2>1, OneTensor DEF ValueOf
<1>. QED
  BY <1>1, <1>2

----------------------------------------------------------------------------
(* Steps as TensorValues sees them. *)

(* A step gives t the value it now has, or changes nothing.                *)
Changes(t) ==
  /\ DataInv'
  /\ Value' = [Value EXCEPT ![t] = ValueOf(t)']

LEMMA ChangesOne ==
  ASSUME NEW t \in Tensors, NEW new, Contents(new), IInv', MemoryMatchesShape',
         \A u \in Tensors : u # t => ValueOf(u)' = ValueOf(u)
  PROVE  Changes(t)
<1>1. DOMAIN content' = Blocks
  BY DEF Contents
<1>. QED
  BY <1>1 DEF Changes, DataInv, Value

LEMMA NothingChanged ==
  ASSUME NEW t \in Tensors, Changes(t), ValueOf(t)' = ValueOf(t)
  PROVE  Value' = Value
  BY DEF Changes, Value

(* The new value of t is that of a block of one content.                   *)
LEMMA FillStep ==
  ASSUME NEW t \in Tensors, Changes(t), ~tensor[t].owns_data, NEW x \in Cells, NEW s,
         ValueOf(t)' = Filled(s, x)
  PROVE  Values!Fill(t)
<1>1. Value[t] = <<>> /\ Value'[t] = Filled(s, x)
  BY DEF Changes, Value, ValueOf
<1>2. \A i \in DOMAIN Filled(s, x) : Filled(s, x)[i] = x
  BY DEF Filled
<1>. QED
  BY <1>1, <1>2 DEF Values!Fill, Values!Make, Values!Nothing, Changes, Value, ValueOf

LEMMA CopyStep ==
  ASSUME NEW t \in Tensors, Changes(t), ~tensor[t].owns_data, NEW u \in Tensors,
         tensor[u].owns_data, NEW I, I \subseteq DOMAIN content[tensor[u].data],
         ValueOf(t)' = [i \in I |-> content[tensor[u].data][i]]
  PROVE  Values!Copy(t)
<1>1. /\ Value[t] = <<>>
      /\ Value[u] = content[tensor[u].data]
      /\ Value'[t] = [i \in I |-> content[tensor[u].data][i]]
  BY DEF Changes, Value, ValueOf
<1>2. /\ DOMAIN Value'[t] \subseteq DOMAIN Value[u]
      /\ \A i \in DOMAIN Value'[t] : Value'[t][i] = Value[u][i]
  BY <1>1
<1>. QED
  BY <1>1, <1>2 DEF Values!Copy, Values!Make, Values!Nothing, Changes, Value, ValueOf

LEMMA AddStep ==
  ASSUME NEW t \in Tensors, Changes(t), ~tensor[t].owns_data,
         NEW u \in Tensors, tensor[u].owns_data, NEW v \in Tensors, tensor[v].owns_data,
         NEW I, I \subseteq DOMAIN content[tensor[u].data],
         I \subseteq DOMAIN content[tensor[v].data],
         ValueOf(t)' = [i \in I |-> Values!Plus(content[tensor[u].data][i],
                                               content[tensor[v].data][i])]
  PROVE  Values!Add(t)
<1>1. /\ Value[t] = <<>>
      /\ Value[u] = content[tensor[u].data] /\ Value[v] = content[tensor[v].data]
      /\ Value'[t] = [i \in I |-> Values!Plus(content[tensor[u].data][i],
                                              content[tensor[v].data][i])]
  BY DEF Changes, Value, ValueOf
<1>2. /\ DOMAIN Value'[t] \subseteq DOMAIN Value[u] \cap DOMAIN Value[v]
      /\ \A i \in DOMAIN Value'[t] : Value'[t][i] = Values!Plus(Value[u][i], Value[v][i])
  BY <1>1
<1>. QED
  BY <1>1, <1>2 DEF Values!Add, Values!Make, Values!Nothing, Changes, Value, ValueOf

LEMMA DropStep ==
  ASSUME NEW t \in Tensors, Changes(t), ~tensor'[t].owns_data
  PROVE  Values!Drop(t)
  BY DEF Values!Drop, Values!Nothing, Changes, Value, ValueOf

(* A step that keeps the data where they are, but for t, which owns none   *)
(* after it.                                                               *)
LEMMA GivesUp ==
  ASSUME DataInv, IInv', NEW t \in Tensors, Kept, ~tensor'[t].owns_data,
         \A u \in Tensors : u # t => tensor'[u] = tensor[u] /\ shape'[u] = shape[u],
         shape' \in [Tensors -> KnownShapes],
         tensor'[t].bytes = BytesOf(shape'[t])
  PROVE  Changes(t) /\ Values!Drop(t)
<1>1. MemoryMatchesShape' /\ \A u \in Tensors : u # t => ValueOf(u)' = ValueOf(u)
  BY OneTensor DEF Kept
<1>2. Changes(t)
  BY <1>1, ChangesOne DEF Kept
<1>. QED
  BY <1>2, DropStep

(* Memory of its own for t, which had none. *)
LEMMA GetsMemory ==
  ASSUME DataInv, IInv', NEW t \in Tensors, ~tensor[t].owns_data, NEW cells, Given(t, cells),
         \A u \in Tensors : u # t => tensor'[u] = tensor[u] /\ shape'[u] = shape[u],
         shape' \in [Tensors -> KnownShapes],
         tensor'[t].bytes = BytesOf(shape'[t]),
         tensor'[t].owns_data => cells \in [Indices(shape'[t]) -> Cells]
  PROVE  /\ Changes(t)
         /\ \/ tensor'[t].owns_data /\ ValueOf(t)' = cells
            \/ Value' = Value
<1>1. /\ MemoryMatchesShape'
      /\ \A u \in Tensors : u # t => ValueOf(u)' = ValueOf(u)
      /\ ValueOf(t)' = IF tensor'[t].owns_data THEN cells ELSE <<>>
  BY GivenOne
<1>2. PICK new : Contents(new)
  BY DEF Given, Kept
<1>3. Changes(t)
  BY <1>1, <1>2, ChangesOne
<1>4. CASE ~tensor'[t].owns_data
  BY <1>1, <1>3, <1>4, NothingChanged DEF ValueOf
<1>. QED
  BY <1>1, <1>3, <1>4

----------------------------------------------------------------------------
(* The actions. *)

(* To TensorStorage a step is one of its own. *)
LEMMA StorageStep ==
  ASSUME [DataNext]_data_vars PROVE [Next]_vars
<1>1. ASSUME NEW t \in Tensors, Release(t) \/ FillZeroData(t) PROVE [Next]_vars
  BY <1>1 DEF Release, FillZeroData, Next
<1>2. ASSUME NEW t \in Tensors, NEW s \in Shapes, New(t, s) PROVE Next
  BY <1>2, BytesKnown DEF New, Next
<1>3. ASSUME NEW t \in Tensors, NEW b \in Blocks, NEW s \in Shapes, NEW x, Adopt(t, b, s, x)
      PROVE  Next
  BY <1>3, BytesKnown DEF Adopt, Next
<1>4. ASSUME NEW t \in Tensors, NEW allocator \in Allocators, AllocateData(t, allocator)
      PROVE  Next
  BY <1>4 DEF AllocateData, Next
<1>5. ASSUME NEW t \in Tensors, NEW x, WriteData(t, x) PROVE UNCHANGED vars
  BY <1>5 DEF WriteData
<1>6. ASSUME NEW t \in Tensors, NEW u \in Tensors, Move(t, u) \/ CloneData(t, u) PROVE Next
  BY <1>6 DEF Move, CloneData, Next
<1>7. ASSUME NEW t \in Tensors, NEW u \in Tensors, NEW s \in Shapes, View(t, u, s) PROVE Next
  BY <1>7, BytesKnown DEF View, Next
<1>8. ASSUME NEW t \in Tensors, NEW a \in Tensors, NEW b \in Tensors, Compute(t, a, b) PROVE Next
  BY <1>8 DEF Compute, Next
<1>9. CASE DropPool
  BY <1>9 DEF Next
<1>10. CASE UNCHANGED data_vars
  BY <1>10 DEF data_vars
<1>. QED
  BY <1>1, <1>2, <1>3, <1>4, <1>5, <1>6, <1>7, <1>8, <1>9, <1>10 DEF DataNext

(* What every action has to show. *)
Keeps == DataInv' /\ (Values!Next \/ Value' = Value)

LEMMA ChangesKeep ==
  ASSUME NEW t \in Tensors, Changes(t),
         \/ Values!Fill(t) \/ Values!Copy(t) \/ Values!Add(t) \/ Values!Write(t) \/ Values!Drop(t)
         \/ Value' = Value
  PROVE  Keeps
  BY DEF Keeps, Changes, Values!Next

LEMMA InvTypes ==
  ASSUME DataInv
  PROVE  /\ tensor \in [Tensors -> Objects] /\ shape \in [Tensors -> KnownShapes]
         /\ \A t \in Tensors : tensor[t].bytes = BytesOf(shape[t])
  BY DEF DataInv, IInv, TypeOK, MemoryMatchesShape, KnownShapes

LEMMA GoneHasNothing ==
  ASSUME DataInv, NEW t \in Tensors, ~Lives(t) PROVE ~tensor[t].owns_data
  BY GoneOwnsNothing DEF DataInv

LEMMA NewKeeps ==
  ASSUME DataInv, IInv', NEW t \in Tensors, NEW s \in Shapes, New(t, s) PROVE Keeps
<1>1. /\ tensor' = [tensor EXCEPT ![t] = Object(BytesOf(s), Null, FALSE, "default")]
      /\ shape' = [shape EXCEPT ![t] = s]
  BY DEF New, Construct, Become
<1>2. Changes(t) /\ Values!Drop(t)
  BY <1>1, GivesUp, InvTypes DEF New, Object, KnownShapes
<1>. QED
  BY <1>2, ChangesKeep

LEMMA ViewKeeps ==
  ASSUME DataInv, IInv', NEW t \in Tensors, NEW u \in Tensors, NEW s \in Shapes, View(t, u, s)
  PROVE  Keeps
<1>1. /\ tensor' = [tensor EXCEPT ![t] = Object(BytesOf(s), tensor[u].data, FALSE, "default")]
      /\ shape' = [shape EXCEPT ![t] = s]
  BY DEF View, ConstructView, Become
<1>2. Changes(t) /\ Values!Drop(t)
  BY <1>1, GivesUp, InvTypes DEF View, Object, KnownShapes
<1>. QED
  BY <1>2, ChangesKeep

LEMMA AdoptKeeps ==
  ASSUME DataInv, IInv', NEW t \in Tensors, NEW b \in Blocks, NEW s \in Shapes, NEW x \in Cells,
         Adopt(t, b, s, x)
  PROVE  Keeps
<1>1. /\ tensor' = [tensor EXCEPT ![t] = Object(BytesOf(s), b, TRUE, "default")]
      /\ shape' = [shape EXCEPT ![t] = s]
      /\ ~tensor[t].owns_data
  BY GoneHasNothing DEF Adopt, ConstructOwner, Become
<1>2. /\ Changes(t)
      /\ (tensor'[t].owns_data /\ ValueOf(t)' = Filled(s, x)) \/ Value' = Value
  BY <1>1, GetsMemory, InvTypes, FilledIsMemory DEF Adopt, Object, KnownShapes
<1>. QED
  BY <1>1, <1>2, FillStep, ChangesKeep

LEMMA ReleaseKeeps ==
  ASSUME DataInv, IInv', NEW t \in Tensors, Release(t) PROVE Keeps
<1>1. CASE Destroy(t) /\ shape' = [shape EXCEPT ![t] = NoShape] /\ Kept
  <2>1. tensor' = [tensor EXCEPT ![t] = Gone]
    BY <1>1 DEF Destroy, Become
  <2>2. BytesOf(NoShape) = "none"
    BY EmptyHasNoBytes
  <2>3. Changes(t) /\ Values!Drop(t)
    BY <1>1, <2>1, <2>2, GivesUp, InvTypes DEF Gone, KnownShapes
  <2>. QED
    BY <2>3, ChangesKeep
<1>2. CASE Deallocate(t) /\ UNCHANGED shape /\ Kept
  <2>1. tensor' = [tensor EXCEPT ![t] = Emptied(tensor[t])]
    BY <1>2 DEF Deallocate, Become
  <2>2. /\ tensor'[t].bytes = tensor[t].bytes /\ ~tensor'[t].owns_data
        /\ \A u \in Tensors : u # t => tensor'[u] = tensor[u]
    BY <2>1, InvTypes DEF Emptied, Objects
  <2>3. Changes(t) /\ Values!Drop(t)
    BY <1>2, <2>2, GivesUp, InvTypes
  <2>. QED
    BY <2>3, ChangesKeep
<1>. QED
  BY <1>1, <1>2 DEF Release

(* A move takes the value along. *)
LEMMA MoveKeeps ==
  ASSUME DataInv, IInv', NEW t \in Tensors, NEW u \in Tensors, Move(t, u) PROVE Keeps
<1>1. t # u
  BY DEF Move, MoveConstruct, MoveAssign
<1>2. tensor' = [tensor EXCEPT ![t] = tensor[u], ![u] = MovedFrom(tensor[u])]
  BY DEF Move, MoveConstruct, MoveAssign, Become
<1>3. shape' = [shape EXCEPT ![t] = shape[u]]
  BY DEF Move, MovedShape
<1>4. MovedFrom(tensor[u]).bytes = tensor[u].bytes /\ ~MovedFrom(tensor[u]).owns_data
  BY InvTypes DEF MovedFrom, Emptied, Objects
<1>5. /\ tensor'[t] = tensor[u] /\ shape'[t] = shape[u]
      /\ tensor'[u].bytes = tensor[u].bytes /\ ~tensor'[u].owns_data /\ shape'[u] = shape[u]
      /\ \A v \in Tensors \ {t, u} : tensor'[v] = tensor[v] /\ shape'[v] = shape[v]
      /\ shape' \in [Tensors -> KnownShapes]
  BY <1>1, <1>2, <1>3, <1>4, InvTypes
<1>6. Contents(content)
  BY DEF Move, Kept
<1>7. \A v \in Tensors : tensor'[v].owns_data => content'[tensor'[v].data] = content[tensor'[v].data]
  BY <1>6, OwnedContents
<1>8. DOMAIN content' = Blocks
  BY <1>6 DEF Contents
<1>9. MemoryMatchesShape'
  <2>1. ASSUME NEW v \in Tensors
        PROVE  /\ tensor'[v].bytes = BytesOf(shape'[v])
               /\ tensor'[v].owns_data => content'[tensor'[v].data] \in [Indices(shape'[v]) -> Cells]
    BY <1>5, <1>7 DEF DataInv, MemoryMatchesShape
  <2>. QED
    BY <1>5, <2>1 DEF MemoryMatchesShape, KnownShapes
<1>10. Value' = [Value EXCEPT ![t] = Value[u], ![u] = <<>>]
  <2>1. ValueOf(t)' = ValueOf(u) /\ ValueOf(u)' = <<>>
    BY <1>5, <1>7 DEF ValueOf
  <2>2. \A v \in Tensors \ {t, u} : ValueOf(v)' = ValueOf(v)
    BY <1>5, <1>7 DEF ValueOf
  <2>. QED
    BY <1>1, <2>1, <2>2 DEF Value
<1>11. Values!Move(t, u)
  BY <1>10 DEF Values!Move, Values!Nothing, Value, ValueOf
<1>. QED
  BY <1>1, <1>8, <1>9, <1>11 DEF Keeps, DataInv, Values!Next

----------------------------------------------------------------------------
(* Allocation. *)

(* What AllocateWith leaves of t and of its number of bytes.               *)
LEMMA Allocating ==
  ASSUME DataInv, NEW t \in Tensors, NEW allocator, AllocateWith(t, allocator)
  PROVE  /\ \A u \in Tensors : u # t => tensor'[u] = tensor[u]
         /\ tensor'[t].bytes = tensor[t].bytes
         /\ ~tensor[t].owns_data
<1>1. ~tensor[t].owns_data
  BY DEF AllocateWith, AlreadyAllocated, DataInv, IInv, TypeOK
<1>2. ASSUME NEW b \in Blocks, AllocateSome(t, tensor[t], allocator, b)
      PROVE  /\ \A u \in Tensors : u # t => tensor'[u] = tensor[u]
             /\ tensor'[t].bytes = tensor[t].bytes
  BY <1>2, InvTypes DEF AllocateSome, Become, Object
<1>3. CASE AllocateNone(t, tensor[t], allocator)
  BY <1>1, <1>3, InvTypes DEF AllocateNone, Become, Object
<1>4. CASE AllocateThrows(t, tensor[t], allocator)
  BY <1>1, <1>4, InvTypes DEF AllocateThrows, Become, Objects
<1>. QED
  BY <1>1, <1>2, <1>3, <1>4 DEF AllocateWith

LEMMA CellsKnown == Junk \in Cells /\ 0 \in Cells
  BY ValueAssumption DEF Cells, Junk

(* Memory with the same in every cell. *)
LEMMA FillKeeps ==
  ASSUME DataInv, IInv', NEW t \in Tensors, NEW allocator, AllocateWith(t, allocator),
         UNCHANGED shape, NEW x \in Cells, Given(t, Filled(shape[t], x))
  PROVE  Keeps
<1>1. /\ Changes(t)
      /\ (tensor'[t].owns_data /\ ValueOf(t)' = Filled(shape[t], x)) \/ Value' = Value
  BY Allocating, GetsMemory, InvTypes, FilledIsMemory
<1>. QED
  BY <1>1, Allocating, FillStep, ChangesKeep

(* What Clone makes of t. *)
LEMMA Cloning ==
  ASSUME DataInv, NEW t \in Tensors, NEW u \in Tensors, Clone(t, u)
  PROVE  /\ \A v \in Tensors : v # t => tensor'[v] = tensor[v]
         /\ tensor'[t].bytes = tensor[u].bytes
         /\ ~tensor[t].owns_data /\ t # u
         /\ tensor'[t].owns_data => tensor[u].bytes = "some"
<1> DEFINE copy == Object(tensor[u].bytes, Null, FALSE, "default")
<1>1. ~tensor[t].owns_data /\ t # u
  BY GoneHasNothing DEF Clone
<1>2. ASSUME NEW b \in Blocks, AllocateSome(t, copy, "default", b)
      PROVE  /\ \A v \in Tensors : v # t => tensor'[v] = tensor[v]
             /\ tensor'[t].bytes = tensor[u].bytes /\ tensor[u].bytes = "some"
  BY <1>2, InvTypes DEF AllocateSome, Become, Object
<1>3. ASSUME AllocateNone(t, copy, "default")
      PROVE  /\ \A v \in Tensors : v # t => tensor'[v] = tensor[v]
             /\ tensor'[t].bytes = tensor[u].bytes /\ ~tensor'[t].owns_data
  BY <1>3, InvTypes DEF AllocateNone, Become, Object
<1>. QED
  BY <1>1, <1>2, <1>3 DEF Clone

LEMMA CloneKeeps ==
  ASSUME DataInv, IInv', NEW t \in Tensors, NEW u \in Tensors, CloneData(t, u) PROVE Keeps
<1>1. /\ Clone(t, u) /\ shape' = [shape EXCEPT ![t] = shape[u]] /\ Given(t, Cloned(u))
      /\ tensor[u].data = Null \/ Usable(u)
  BY DEF CloneData
<1>2. /\ \A v \in Tensors : v # t => tensor'[v] = tensor[v] /\ shape'[v] = shape[v]
      /\ tensor'[t].bytes = BytesOf(shape'[t]) /\ shape'[t] = shape[u]
      /\ ~tensor[t].owns_data /\ t # u
      /\ shape' \in [Tensors -> KnownShapes]
  BY <1>1, Cloning, InvTypes
<1>3. CASE tensor[u].data = Null
  <2>1. Cloned(u) = Filled(shape[u], Junk)
    BY <1>3 DEF Cloned, Filled
  <2>2. /\ Changes(t)
        /\ (tensor'[t].owns_data /\ ValueOf(t)' = Filled(shape[u], Junk)) \/ Value' = Value
    BY <1>1, <1>2, <2>1, GetsMemory, FilledIsMemory, CellsKnown
  <2>. QED
    BY <1>2, <2>2, FillStep, ChangesKeep, CellsKnown
<1>4. CASE tensor[u].data # Null
  <2>1. PICK w \in Tensors :
          /\ tensor[w].owns_data /\ tensor[w].data = tensor[u].data
          /\ Indices(shape[u]) \subseteq Indices(shape[w])
          /\ content[tensor[u].data] \in [Indices(shape[w]) -> Cells]
    BY <1>1, <1>4, UsableMemory
  <2>2. Cloned(u) = [i \in Indices(shape[u]) |-> content[tensor[w].data][i]]
    BY <1>4, <2>1 DEF Cloned, Cell
  <2>3. Cloned(u) \in [Indices(shape[u]) -> Cells]
    BY <2>1, <2>2
  <2>4. /\ Changes(t)
        /\ (tensor'[t].owns_data /\ ValueOf(t)' = Cloned(u)) \/ Value' = Value
    BY <1>1, <1>2, <2>3, GetsMemory
  <2>5. CASE tensor'[t].owns_data /\ ValueOf(t)' = Cloned(u)
    <3>1. Values!Copy(t)
      BY <1>2, <2>1, <2>2, <2>4, <2>5, CopyStep
    <3>. QED
      BY <2>4, <3>1, ChangesKeep
  <2>. QED
    BY <2>4, <2>5, ChangesKeep
<1>. QED
  BY <1>3, <1>4

----------------------------------------------------------------------------
(* Data that are written or read. *)

(* Through a pointer that may be followed only its owner's value changes.  *)
LEMMA OverwriteKeeps ==
  ASSUME DataInv, IInv', NEW t \in Tensors, NEW x \in Cells,
         Allocated(t), UNCHANGED <<vars, shape>>, Overwrite(t, x)
  PROVE  Keeps
<1> DEFINE d   == tensor[t].data
           new == [content EXCEPT ![d] =
                     [i \in DOMAIN @ |-> IF i \in Indices(shape[t]) THEN x ELSE @[i]]]
<1>1. PICK w \in Tensors : /\ tensor[w].owns_data /\ tensor[w].data = d
                           /\ content[d] \in [Indices(shape[w]) -> Cells]
  BY UsableMemory DEF Allocated
<1>2. tensor' = tensor /\ shape' = shape
  BY DEF vars
<1>3. d \in Blocks /\ DOMAIN content = Blocks
  BY <1>1 DEF DataInv, IInv, TypeOK, Objects
<1>4. new[d] = [i \in Indices(shape[w]) |-> IF i \in Indices(shape[t]) THEN x ELSE content[d][i]]
  BY <1>1, <1>3
<1>5. new[d] \in [Indices(shape[w]) -> Cells]
  BY <1>1, <1>4
<1>6. \A u \in Tensors : u # w /\ tensor[u].owns_data => new[tensor[u].data] = content[tensor[u].data]
  BY <1>1, <1>3 DEF DataInv, IInv, OwnersAreExclusive
<1>7. Contents(new)
  BY DEF Overwrite
<1>8. content'[d] = new[d]
  <2>. HIDE DEF new
  <2>. QED
    BY <1>1, <1>2, <1>7, OwnedContents
<1>9. MemoryMatchesShape' /\ \A u \in Tensors : u # w => ValueOf(u)' = ValueOf(u)
  <2>. HIDE DEF new
  <2>. QED
    BY <1>1, <1>2, <1>5, <1>6, <1>7, OneTensor, InvTypes
<1>10. Changes(w)
  <2>. HIDE DEF new
  <2>. QED
    BY <1>7, <1>9, ChangesOne
<1>11. /\ Value[w] = content[d] /\ Value'[w] = new[d] /\ Value' = [Value EXCEPT ![w] = Value'[w]]
  BY <1>1, <1>2, <1>8, <1>10 DEF Changes, Value, ValueOf
<1>12. /\ DOMAIN Value'[w] = DOMAIN Value[w]
       /\ \A i \in DOMAIN Value[w] : Value'[w][i] \in {Value[w][i], x}
  BY <1>1, <1>4, <1>11
<1>13. Values!Write(w)
  BY <1>11, <1>12 DEF Values!Write, Value, ValueOf
<1>. QED
  BY <1>10, <1>13, ChangesKeep

LEMMA ZeroKeeps ==
  ASSUME DataInv, IInv', NEW t \in Tensors, FillZeroData(t) PROVE Keeps
<1>1. CASE FillZero(t) /\ Given(t, Filled(shape[t], 0))
  BY <1>1, FillKeeps, CellsKnown DEF FillZeroData, FillZero
<1>2. CASE Allocated(t) /\ UNCHANGED vars /\ Overwrite(t, 0)
  BY <1>2, OverwriteKeeps, CellsKnown DEF FillZeroData
<1>. QED
  BY <1>1, <1>2 DEF FillZeroData

(* Sums of cells that are known or not, below the bound, are cells.        *)
LEMMA PlusKnown ==
  ASSUME NEW x \in Cells, NEW y \in Cells, Values!Plus(x, y) <= MaxValue
  PROVE  Values!Plus(x, y) \in Cells
  BY ValueAssumption DEF Cells, Junk, Values!Plus, Values!Junk

LEMMA ComputeKeeps ==
  ASSUME DataInv, IInv', NEW t \in Tensors, NEW a \in Tensors, NEW b \in Tensors, Compute(t, a, b)
  PROVE  Keeps
<1>1. /\ Clone(t, a) /\ shape' = [shape EXCEPT ![t] = shape[a]] /\ Given(t, Sums(a, b))
      /\ shape[a] = shape[b]
      /\ Size[shape[a]] > 0 => Allocated(a) /\ Allocated(b)
  BY DEF Compute, Accepts
<1>2. /\ \A v \in Tensors : v # t => tensor'[v] = tensor[v] /\ shape'[v] = shape[v]
      /\ tensor'[t].bytes = BytesOf(shape'[t]) /\ shape'[t] = shape[a]
      /\ ~tensor[t].owns_data /\ shape' \in [Tensors -> KnownShapes]
      /\ tensor'[t].owns_data => BytesOf(shape[a]) = "some"
  BY <1>1, Cloning, InvTypes
<1>3. CASE Size[shape[a]] > 0
  <2>1. PICK u \in Tensors :
          /\ tensor[u].owns_data /\ tensor[u].data = tensor[a].data
          /\ Indices(shape[a]) \subseteq Indices(shape[u])
          /\ content[tensor[a].data] \in [Indices(shape[u]) -> Cells]
    BY <1>1, <1>3, UsableMemory DEF Allocated
  <2>2. PICK v \in Tensors :
          /\ tensor[v].owns_data /\ tensor[v].data = tensor[b].data
          /\ Indices(shape[a]) \subseteq Indices(shape[v])
          /\ content[tensor[b].data] \in [Indices(shape[v]) -> Cells]
    BY <1>1, <1>3, UsableMemory DEF Allocated
  <2>3. Sums(a, b) = [i \in Indices(shape[a]) |-> Values!Plus(content[tensor[u].data][i],
                                                             content[tensor[v].data][i])]
    BY <2>1, <2>2 DEF Sums, Cell
  <2>4. Sums(a, b) \in [Indices(shape[a]) -> Cells]
    <3>1. ASSUME NEW i \in Indices(shape[a]) PROVE Sums(a, b)[i] \in Cells
      <4>1. Sums(a, b)[i] = Values!Plus(Cell(a, i), Cell(b, i)) /\ Sums(a, b)[i] <= MaxValue
        BY <3>1 DEF Sums, Compute
      <4>2. Cell(a, i) \in Cells /\ Cell(b, i) \in Cells
        BY <2>1, <2>2, <3>1 DEF Cell
      <4>. QED
        BY <4>1, <4>2, PlusKnown
    <3>. QED
      BY <3>1 DEF Sums
  <2>5. /\ Changes(t)
        /\ (tensor'[t].owns_data /\ ValueOf(t)' = Sums(a, b)) \/ Value' = Value
    BY <1>1, <1>2, <2>4, GetsMemory
  <2>6. CASE tensor'[t].owns_data /\ ValueOf(t)' = Sums(a, b)
    <3>1. Values!Add(t)
      BY <1>2, <2>1, <2>2, <2>3, <2>5, <2>6, AddStep
    <3>. QED
      BY <2>5, <3>1, ChangesKeep
  <2>. QED
    BY <2>5, <2>6, ChangesKeep
<1>4. CASE ~(Size[shape[a]] > 0)
  <2>1. ~tensor'[t].owns_data
    BY <1>2, <1>4, SizeKnown, InvTypes DEF BytesOf
  <2>2. Changes(t) /\ Value' = Value
    BY <1>1, <1>2, <2>1, GetsMemory
  <2>. QED
    BY <2>2, ChangesKeep
<1>. QED
  BY <1>3, <1>4

----------------------------------------------------------------------------
(* A step of the pool or none at all. *)
LEMMA KeptKeeps ==
  ASSUME DataInv, IInv', Kept, tensor' = tensor, shape' = shape PROVE Keeps
<1>1. \A t \in Tensors : tensor[t].owns_data => content'[tensor[t].data] = content[tensor[t].data]
  BY OwnedContents DEF Kept
<1>2. DOMAIN content' = Blocks
  BY DEF Kept, Contents
<1>. QED
  BY <1>1, <1>2 DEF Keeps, DataInv, MemoryMatchesShape, Value, ValueOf

LEMMA DataStepKeeps ==
  ASSUME DataInv, [DataNext]_data_vars PROVE Keeps
<1>1. IInv'
  BY StorageStep, StepKeeps DEF DataInv
<1>2. ASSUME NEW t \in Tensors, NEW allocator \in Allocators, AllocateData(t, allocator) PROVE Keeps
  BY <1>1, <1>2, FillKeeps, CellsKnown DEF AllocateData, Allocate
<1>3. ASSUME NEW t \in Tensors, NEW x \in Cells, WriteData(t, x) PROVE Keeps
  BY <1>1, <1>3, OverwriteKeeps DEF WriteData
<1>4. CASE DropPool /\ UNCHANGED shape /\ Kept
  BY <1>1, <1>4, KeptKeeps DEF DropPool, Become
<1>5. CASE UNCHANGED data_vars
  BY <1>1, <1>5 DEF data_vars, vars, Keeps, DataInv, MemoryMatchesShape, Value, ValueOf
<1>. QED
  BY <1>1, <1>2, <1>3, <1>4, <1>5, NewKeeps, ViewKeeps, AdoptKeeps, ReleaseKeeps, MoveKeeps,
     ZeroKeeps, CloneKeeps, ComputeKeeps DEF DataNext

LEMMA DataInitHolds ==
  ASSUME DataInit PROVE DataInv /\ Values!Init
<1>1. IInv
  BY InitHolds DEF DataInit
<1>2. /\ tensor = [t \in Tensors |-> Gone] /\ shape = [t \in Tensors |-> NoShape]
      /\ DOMAIN content = Blocks
  BY DEF DataInit, Init
<1>3. MemoryMatchesShape
  BY <1>2, EmptyHasNoBytes DEF MemoryMatchesShape, Gone
<1>4. Values!Init
  BY <1>2 DEF Values!Init, Values!Nothing, Gone
<1>. QED
  BY <1>1, <1>2, <1>3, <1>4 DEF DataInv

(* The inductive invariant. *)
THEOREM DataInvariance == DataSpec => []DataInv
<1>1. DataInit => DataInv
  BY DataInitHolds
<1>2. DataInv /\ [DataNext]_data_vars => DataInv'
  BY DataStepKeeps DEF Keeps
<1>. QED
  BY <1>1, <1>2, PTL DEF DataSpec

(* What AddOp, Clone and FillZero compute their bounds from is true of the *)
(* memory they touch.                                                      *)
THEOREM MemoryMatches == DataSpec => []MemoryMatchesShape
<1>1. DataInv => MemoryMatchesShape
  BY DEF DataInv
<1>. QED
  BY <1>1, DataInvariance, PTL

(* As far as ownership goes, this is TensorStorage, with all it guarantees.*)
THEOREM KeepsStorage == DataSpec => Spec
<1>1. DataInit => Init
  BY DEF DataInit
<1>2. [DataNext]_data_vars => [Next]_vars
  BY StorageStep
<1>. QED
  BY <1>1, <1>2, PTL DEF DataSpec, Spec

(* Tensors that own their data behave as values of their own.              *)
THEOREM Implements == DataSpec => KeepsValues
<1>1. DataInit => Values!Init
  BY DataInitHolds
<1>2. DataInv /\ [DataNext]_data_vars =>
        [Values!Next]_([t \in Tensors |->
           IF tensor[t].owns_data THEN content[tensor[t].data] ELSE <<>>])
  BY DataStepKeeps DEF Keeps, Value, ValueOf
<1>. QED
  BY <1>1, <1>2, DataInvariance, PTL DEF DataSpec, KeepsValues, Values!Spec
=============================================================================
