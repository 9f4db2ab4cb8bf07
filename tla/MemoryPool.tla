----------------------------- MODULE MemoryPool -----------------------------
(***************************************************************************)
(* MemoryPool (src/core/memory/memory_pool.cpp): a linear pool with a heap *)
(* fallback.  Sizes, offsets and addresses are machine words; additions    *)
(* wrap as those of std::size_t do.  malloc and operator new give any      *)
(* free range aligned for std::max_align_t, or fail.                       *)
(***************************************************************************)
EXTENDS Integers, FiniteSets

CONSTANTS
  Word,          (* 2^w, for words of w bits                            *)
  MaxAlign,      (* alignof(std::max_align_t)                           *)
  PoolSizes,     (* the sizes pools are made with                       *)
  Sizes,         (* the sizes callers ask for                           *)
  Alignments,    (* the alignments they ask for, powers of two          *)
  HeapAddresses, (* where the heap may put a range                      *)
  MaxBlocks      (* bound on the blocks callers hold                    *)

ASSUME WordAssumption ==
  /\ Word \in Nat /\ MaxAlign \in Nat \ {0} /\ MaxAlign < Word
  /\ PoolSizes \subseteq 0 .. Word - 1 /\ Sizes \subseteq 0 .. Word - 1
  /\ Alignments \subseteq 1 .. Word - 1
  /\ \A alignment \in Alignments : Word % alignment = 0
  /\ HeapAddresses \subseteq 1 .. Word - 1
  /\ \A addr \in HeapAddresses : addr % MaxAlign = 0
  /\ MaxBlocks \in Nat

VARIABLES
  exists,        (* the pool is constructed and not yet destroyed       *)
  base,          (* base_, 0 for a null pointer                         *)
  pool_size,     (* pool_size_bytes_                                    *)
  offset,        (* offset_                                             *)
  fallbacks,     (* fallback_allocations_                               *)
  heap,          (* the ranges malloc and operator new have given out   *)
  lost,          (* ghost: ranges nobody has a pointer to               *)
  blocks         (* ghost: the blocks callers hold, as they asked        *)

vars == <<exists, base, pool_size, offset, fallbacks, heap, lost, blocks>>

Contract == INSTANCE Allocator WITH Addresses <- 0 .. Word - 1

Extent(addr, size) == [addr |-> addr, size |-> size]

(* Ranges the heap may give out: disjoint from those it has given out.     *)
HeapRanges(size) ==
  {range \in {Extent(addr, size) : addr \in HeapAddresses} :
     /\ range.addr + size <= Word
     /\ \A taken \in heap : ~Contract!Overlap(range, taken)}

Init ==
  /\ exists = FALSE
  /\ base = 0
  /\ pool_size = 0
  /\ offset = 0
  /\ fallbacks = {}
  /\ heap = {}
  /\ lost = {}
  /\ blocks = {}

(* A pool without memory is left without base. *)
Construct(size) ==
  /\ ~exists
  /\ exists' = TRUE
  /\ pool_size' = size
  /\ offset' = 0
  /\ \/ /\ size > 0
        /\ \E range \in HeapRanges(size) : base' = range.addr /\ heap' = heap \cup {range}
     \/ base' = 0 /\ UNCHANGED heap
  /\ UNCHANGED <<fallbacks, lost, blocks>>

(* mutation: rounded down *)
AlignDown(x, alignment) == x - (x % alignment)

(* (x + mask) & ~mask *)
AlignUp(x, alignment) ==
  LET sum == (x + alignment - 1) % Word
  IN  sum - (sum % alignment)

(* mutation: one byte too many fits *)
FitsBarely(size, alignment) ==
  base # 0 /\ pool_size > 0 /\ (AlignUp(offset, alignment) + size) % Word <= pool_size + 1

FitsInPool(size, alignment) ==
  base # 0 /\ pool_size > 0 /\ (AlignUp(offset, alignment) + size) % Word <= pool_size

AllocateFromPool(size, alignment) ==
  /\ exists
  /\ size > 0
  /\ Cardinality(blocks) < MaxBlocks
  /\ FitsInPool(size, alignment)
  /\ LET aligned_offset == AlignUp(offset, alignment)
     IN  /\ offset' = (aligned_offset + size) % Word
         /\ blocks' = blocks \cup
              {Contract!Block((base + aligned_offset) % Word, size, alignment)}
  /\ UNCHANGED <<exists, base, pool_size, fallbacks, heap, lost>>

(* operator new, which does not look at the alignment.                     *)
AllocateFromHeap(size, alignment) ==
  /\ exists
  /\ size > 0
  /\ Cardinality(blocks) < MaxBlocks
  /\ ~FitsInPool(size, alignment)
  /\ \E range \in HeapRanges(size) :
       /\ heap' = heap \cup {range}
       /\ fallbacks' = fallbacks \cup {range}
       /\ blocks' = blocks \cup {Contract!Block(range.addr, size, alignment)}
  /\ UNCHANGED <<exists, base, pool_size, offset, lost>>

(* push_back throws std::bad_alloc: the new range has no owner.            *)
FallbackIsLost(size, alignment) ==
  /\ exists
  /\ size > 0
  /\ ~FitsInPool(size, alignment)
  /\ \E range \in HeapRanges(size) :
       /\ heap' = heap \cup {range}
       /\ lost' = lost \cup {range}
  /\ UNCHANGED <<exists, base, pool_size, offset, fallbacks, blocks>>

(* The pool itself does nothing; the caller no longer holds the block.     *)
Deallocate(b) ==
  /\ exists
  /\ blocks' = blocks \ {b}
  /\ UNCHANGED <<exists, base, pool_size, offset, fallbacks, heap, lost>>

(* mutation: the fallback allocations are forgotten *)
FreesPoolOnly == {range \in heap : range.addr = base /\ base # 0}

Frees == {range \in heap : range.addr = base /\ base # 0} \cup fallbacks

Destroy ==
  /\ exists
  /\ exists' = FALSE
  /\ base' = 0
  /\ pool_size' = 0
  /\ offset' = 0
  /\ heap' = heap \ Frees
  /\ fallbacks' = {}
  /\ blocks' = {}
  /\ UNCHANGED lost

Next ==
  \/ \E size \in PoolSizes : Construct(size)
  \/ \E size \in Sizes, alignment \in Alignments :
       \/ AllocateFromPool(size, alignment)
       \/ AllocateFromHeap(size, alignment)
       \/ FallbackIsLost(size, alignment)
  \/ \E b \in blocks : Deallocate(b)
  \/ Destroy

Spec == Init /\ [][Next]_vars

----------------------------------------------------------------------------
TypeOK ==
  /\ {base, pool_size, offset} \subseteq 0 .. Word - 1
  /\ offset <= pool_size
  /\ base # 0 => exists /\ Extent(base, pool_size) \in heap
  /\ fallbacks \cup lost \subseteq heap
  /\ ~exists => fallbacks \cup blocks = {}

(* A block in use lies in memory the pool got from the heap and has not    *)
(* given back.                                                             *)
BlocksAreBacked ==
  \A b \in blocks :
    \/ Extent(b.addr, b.size) \in fallbacks
    \/ base # 0 /\ base <= b.addr /\ b.addr + b.size <= base + pool_size

(* When the pool is gone the heap has everything back, except the ranges   *)
(* lost when the list of fallbacks could not grow.                         *)
NothingElseLeaks == ~exists => heap = lost

(* The pool keeps the promise of allocator.h: blocks of the requested size *)
(* and alignment that do not overlap.                                      *)
KeepsContract == Contract!Spec
=============================================================================
