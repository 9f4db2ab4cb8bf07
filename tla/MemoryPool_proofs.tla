-------------------------- MODULE MemoryPool_proofs --------------------------
(***************************************************************************)
(* MemoryPool implements Allocator as long as no sum reaches the width of  *)
(* a word and no alignment exceeds that of the heap: for every set of      *)
(* sizes, alignments and heap addresses and any number of blocks.  The     *)
(* runs pool_word and pool_alignment show that neither hypothesis can go.  *)
(*                                                                         *)
(* The ranges taken from the heap are disjoint; each is the pool's own, a  *)
(* fallback or lost.  A block is a fallback or lies between base_ and      *)
(* offset_, where the next block starts.                                   *)
(***************************************************************************)
EXTENDS MemoryPool, TLAPS

RequestsFit ==
  /\ \A size \in PoolSizes, request \in Sizes, alignment \in Alignments :
       size + alignment + request <= Word
  /\ \A alignment \in Alignments : MaxAlign % alignment = 0

Extents == [addr : HeapAddresses, size : Nat \ {0}]

PoolExtents == IF base = 0 THEN {} ELSE {Extent(base, pool_size)}

Within(b) == base # 0 /\ base <= b.addr /\ b.addr + b.size <= base + offset

Disjoint(ranges) == \A r, q \in ranges : Contract!Overlap(r, q) => r = q

HeapAccounted ==
  /\ heap \subseteq Extents
  /\ Disjoint(heap)
  /\ \A range \in heap : range.addr + range.size <= Word
  /\ heap = PoolExtents \cup fallbacks \cup lost
  /\ lost \cap (PoolExtents \cup fallbacks) = {}
  /\ PoolExtents \cap fallbacks = {}

PoolConsistent ==
  /\ exists \in BOOLEAN
  /\ pool_size \in PoolSizes \cup {0}
  /\ offset \in Nat /\ offset <= pool_size
  /\ base # 0 => exists /\ base \in HeapAddresses
  /\ ~exists => fallbacks = {} /\ blocks = {}

BlocksConsistent ==
  /\ blocks \subseteq [addr : Nat, size : Nat \ {0}, alignment : Alignments]
  /\ \A b \in blocks : Extent(b.addr, b.size) \in fallbacks \/ Within(b)
  /\ \A b, c \in blocks : Contract!Overlap(b, c) => b = c

IInv == HeapAccounted /\ PoolConsistent /\ BlocksConsistent

----------------------------------------------------------------------------
(* Arithmetic. *)

(* A multiple divides without rest ... *)
LEMMA MultipleDivides ==
  ASSUME NEW a \in Nat \ {0}, NEW q \in Nat PROVE (a * q) % a = 0
  BY SMT

(* ... and what divides without rest is a multiple.                        *)
LEMMA DividesMultiple ==
  ASSUME NEW a \in Nat \ {0}, NEW x \in Nat, x % a = 0
  PROVE  \E q \in Nat : x = a * q
<1>1. x = a * (x \div a) + (x % a) /\ x \div a \in Nat
  BY SMT
<1>. QED
  BY <1>1

(* Divisibility is transitive. *)
LEMMA DividesTransitive ==
  ASSUME NEW a \in Nat \ {0}, NEW m \in Nat \ {0}, NEW x \in Nat, m % a = 0, x % m = 0
  PROVE  x % a = 0
<1>1. PICK q \in Nat : m = a * q
  BY DividesMultiple
<1>2. PICK k \in Nat : x = m * k
  BY DividesMultiple
<1>3. x = a * (q * k) /\ q * k \in Nat
  BY <1>1, <1>2, SMT
<1>. QED
  BY <1>3, MultipleDivides

(* The sum of two multiples is one. *)
LEMMA DividesSum ==
  ASSUME NEW a \in Nat \ {0}, NEW x \in Nat, NEW y \in Nat, x % a = 0, y % a = 0
  PROVE  (x + y) % a = 0
<1>1. PICK q \in Nat : x = a * q
  BY DividesMultiple
<1>2. PICK k \in Nat : y = a * k
  BY DividesMultiple
<1>3. x + y = a * (q + k) /\ q + k \in Nat
  BY <1>1, <1>2, SMT
<1>. QED
  BY <1>3, MultipleDivides

(* AlignUp gives the next multiple of the alignment.                       *)
LEMMA AlignUpAligns ==
  ASSUME NEW x \in Nat, NEW alignment \in Nat \ {0}, Word \in Nat,
         x + alignment - 1 < Word
  PROVE  /\ AlignUp(x, alignment) \in Nat
         /\ x <= AlignUp(x, alignment) /\ AlignUp(x, alignment) <= x + alignment - 1
         /\ AlignUp(x, alignment) % alignment = 0
<1> DEFINE sum == x + alignment - 1
           r   == sum % alignment
           q   == sum \div alignment
<1>1. sum \in Nat /\ sum % Word = sum
  BY SMT
<1>2. r \in 0 .. alignment - 1 /\ q \in Nat /\ sum = alignment * q + r
  BY <1>1, SMT
<1>3. AlignUp(x, alignment) = sum - r
  BY <1>1 DEF AlignUp
<1>4. sum - r = alignment * q
  BY <1>2, SMT
<1>5. AlignUp(x, alignment) % alignment = 0
  BY <1>2, <1>3, <1>4, MultipleDivides
<1> HIDE DEF r, q
<1>. QED
  BY <1>2, <1>3, <1>5

----------------------------------------------------------------------------
(* The heap and the blocks in it. *)

(* The constants are words.                                                *)
LEMMA ConstantsAreWords ==
  /\ Word \in Nat /\ MaxAlign \in Nat \ {0} /\ MaxAlign < Word
  /\ PoolSizes \subseteq Nat /\ Sizes \subseteq Nat
  /\ Alignments \subseteq Nat \ {0} /\ HeapAddresses \subseteq Nat \ {0}
  BY WordAssumption

(* The range of the pool is one of the heap's.                             *)
LEMMA PoolRange ==
  ASSUME IInv, base # 0
  PROVE  /\ Extent(base, pool_size) \in heap /\ Extent(base, pool_size) \notin fallbacks
         /\ base \in Nat \ {0} /\ pool_size \in Nat \ {0} /\ base + pool_size <= Word
<1>1. Extent(base, pool_size) \in heap /\ Extent(base, pool_size) \notin fallbacks
  BY DEF IInv, HeapAccounted, PoolExtents
<1>2. Extent(base, pool_size) \in Extents
  BY <1>1 DEF IInv, HeapAccounted
<1>. QED
  BY <1>1, <1>2, ConstantsAreWords DEF IInv, HeapAccounted, Extents, Extent

(* A range the heap gives out is new and disjoint from all others.         *)
LEMMA NewRange ==
  ASSUME IInv, NEW size \in Nat \ {0}, NEW range \in HeapRanges(size)
  PROVE  /\ range \in Extents /\ range.size = size /\ range = Extent(range.addr, size)
         /\ range.addr + range.size <= Word
         /\ range \notin heap
         /\ Disjoint(heap \cup {range})
<1>1. /\ range \in Extents /\ range.size = size /\ range = Extent(range.addr, size)
      /\ range.addr + size <= Word
      /\ \A taken \in heap : ~Contract!Overlap(range, taken)
  BY DEF HeapRanges, Extents, Extent
<1>2. range.addr \in Nat /\ Contract!Overlap(range, range)
  <2>1. range.addr \in Nat
    BY <1>1, ConstantsAreWords DEF Extents
  <2>. QED
    BY <1>1, <2>1 DEF Contract!Overlap
<1>3. \A taken \in heap : ~Contract!Overlap(taken, range)
  BY <1>1 DEF Contract!Overlap
<1>. QED
  BY <1>1, <1>2, <1>3 DEF Disjoint, IInv, HeapAccounted

(* Every block lies in a range of the heap: a fallback or the pool.        *)
LEMMA BlockInRange ==
  ASSUME IInv, NEW b \in blocks
  PROVE  /\ b.addr \in Nat /\ b.size \in Nat \ {0} /\ b.alignment \in Alignments
         /\ \E range \in heap : range.addr <= b.addr
                                /\ b.addr + b.size <= range.addr + range.size
<1>1. b.addr \in Nat /\ b.size \in Nat \ {0} /\ b.alignment \in Alignments
  BY DEF IInv, BlocksConsistent
<1>2. CASE Extent(b.addr, b.size) \in fallbacks
  <2>1. Extent(b.addr, b.size) \in heap
    BY <1>2 DEF IInv, HeapAccounted
  <2>2. Extent(b.addr, b.size).addr = b.addr /\ Extent(b.addr, b.size).size = b.size
    BY DEF Extent
  <2>. QED
    BY <1>1, <2>1, <2>2
<1>3. CASE Within(b)
  <2>1. Extent(base, pool_size) \in heap /\ base \in Nat /\ pool_size \in Nat
        /\ offset \in Nat /\ offset <= pool_size
    BY <1>3, PoolRange DEF Within, IInv, PoolConsistent
  <2>2. Extent(base, pool_size).addr = base /\ Extent(base, pool_size).size = pool_size
    BY DEF Extent
  <2>3. base <= b.addr /\ b.addr + b.size <= base + pool_size
    BY <1>1, <1>3, <2>1 DEF Within
  <2>. QED
    BY <1>1, <2>1, <2>2, <2>3
<1>. QED
  BY <1>1, <1>2, <1>3 DEF IInv, BlocksConsistent

----------------------------------------------------------------------------
(* Allocate. *)

(* Rounding and adding do not wrap, and the block is where no other is.    *)
LEMMA PoolBlock ==
  ASSUME IInv, RequestsFit, NEW size \in Sizes, NEW alignment \in Alignments,
         AllocateFromPool(size, alignment)
  PROVE  LET aligned == AlignUp(offset, alignment)
             b       == Contract!Block(base + aligned, size, alignment)
         IN  /\ aligned \in Nat /\ offset <= aligned /\ aligned + size <= pool_size
             /\ offset' = aligned + size
             /\ blocks' = blocks \cup {b}
             /\ base # 0 /\ size > 0
             /\ b.addr \in 0 .. Word - 1 /\ b.addr % alignment = 0
             /\ \A c \in blocks : ~Contract!Overlap(b, c)
<1> DEFINE aligned == AlignUp(offset, alignment)
           b       == Contract!Block(base + aligned, size, alignment)
<1>1. /\ size > 0 /\ base # 0 /\ pool_size > 0 /\ (aligned + size) % Word <= pool_size
      /\ offset' = (aligned + size) % Word
      /\ blocks' = blocks \cup {Contract!Block((base + aligned) % Word, size, alignment)}
  BY DEF AllocateFromPool, FitsInPool
<1>2. /\ size \in Nat /\ alignment \in Nat \ {0} /\ Word \in Nat
      /\ offset \in Nat /\ offset <= pool_size /\ pool_size \in Nat
      /\ pool_size + alignment + size <= Word
      /\ base \in Nat \ {0} /\ base + pool_size <= Word /\ base \in HeapAddresses
  BY <1>1, ConstantsAreWords, PoolRange DEF IInv, PoolConsistent, RequestsFit
<1>3. /\ aligned \in Nat /\ offset <= aligned /\ aligned <= offset + alignment - 1
      /\ aligned % alignment = 0
  BY <1>2, AlignUpAligns
<1> HIDE DEF aligned
<1>4. (aligned + size) % Word = aligned + size
  BY <1>2, <1>3
<1>5. aligned + size <= pool_size /\ offset' = aligned + size
  BY <1>1, <1>4
<1>6. base + aligned \in 0 .. Word - 1 /\ (base + aligned) % Word = base + aligned
  BY <1>1, <1>2, <1>3, <1>5
<1>7. blocks' = blocks \cup {b}
  BY <1>1, <1>6
<1>8. b.addr = base + aligned /\ b.size = size
  BY DEF Contract!Block
<1>9. b.addr % alignment = 0
  <2>1. base % MaxAlign = 0 /\ MaxAlign % alignment = 0
    BY <1>2, WordAssumption DEF RequestsFit
  <2>2. base % alignment = 0
    BY <1>2, <2>1, ConstantsAreWords, DividesTransitive
  <2>3. (base + aligned) % alignment = 0
    BY <1>2, <1>3, <2>2, DividesSum
  <2>. QED
    BY <1>8, <2>3
<1>10. ASSUME NEW c \in blocks PROVE ~Contract!Overlap(b, c)
  <2>1. c.addr \in Nat /\ c.size \in Nat \ {0}
    BY BlockInRange
  <2>2. CASE Within(c)
    BY <1>2, <1>3, <1>8, <2>1, <2>2 DEF Within, Contract!Overlap
  <2>3. CASE Extent(c.addr, c.size) \in fallbacks
    <3> DEFINE pool == Extent(base, pool_size)
               fall == Extent(c.addr, c.size)
    <3>1. pool \in heap /\ fall \in heap /\ pool # fall
      BY <1>1, <2>3, PoolRange DEF IInv, HeapAccounted
    <3>2. ~Contract!Overlap(pool, fall)
      BY <3>1 DEF IInv, HeapAccounted, Disjoint
    <3>3. pool.addr = base /\ pool.size = pool_size /\ fall.addr = c.addr /\ fall.size = c.size
      BY DEF Extent
    <3>. QED
      BY <1>2, <1>3, <1>5, <1>8, <2>1, <3>2, <3>3 DEF Contract!Overlap
  <2>. QED
    BY <2>2, <2>3 DEF IInv, BlocksConsistent
<1>. QED
  BY <1>1, <1>3, <1>5, <1>6, <1>7, <1>8, <1>9, <1>10 DEF aligned

(* So is the block of a fallback, in a range that is new.                  *)
LEMMA HeapBlock ==
  ASSUME IInv, RequestsFit, NEW size \in Nat \ {0}, NEW alignment \in Alignments,
         NEW range \in HeapRanges(size)
  PROVE  LET b == Contract!Block(range.addr, size, alignment)
         IN  /\ b.addr \in 0 .. Word - 1 /\ b.addr % alignment = 0
             /\ \A c \in blocks : ~Contract!Overlap(b, c)
<1> DEFINE b == Contract!Block(range.addr, size, alignment)
<1>1. /\ range.addr \in HeapAddresses /\ range.addr \in Nat \ {0}
      /\ range.addr + size <= Word /\ range.size = size
      /\ b.addr = range.addr /\ b.size = size
      /\ alignment \in Nat \ {0}
  BY NewRange, ConstantsAreWords DEF Extents, Contract!Block
<1>2. b.addr % alignment = 0
  <2>1. range.addr % MaxAlign = 0 /\ MaxAlign % alignment = 0
    BY <1>1, WordAssumption DEF RequestsFit
  <2>. QED
    BY <1>1, <2>1, ConstantsAreWords, DividesTransitive
<1>3. ASSUME NEW c \in blocks PROVE ~Contract!Overlap(b, c)
  <2>1. PICK taken \in heap :
          taken.addr <= c.addr /\ c.addr + c.size <= taken.addr + taken.size
    BY BlockInRange
  <2>2. ~Contract!Overlap(range, taken)
    BY DEF HeapRanges
  <2>3. c.addr \in Nat /\ c.size \in Nat \ {0} /\ taken.addr \in Nat /\ taken.size \in Nat
    BY BlockInRange, ConstantsAreWords DEF IInv, HeapAccounted, Extents
  <2>. QED
    BY <1>1, <2>1, <2>2, <2>3 DEF Contract!Overlap
<1>. QED
  BY <1>1, <1>2, <1>3, ConstantsAreWords

----------------------------------------------------------------------------
(* The steps keep the invariant. *)

(* A new pool takes its range from the heap, or does without.              *)
LEMMA ConstructKeeps ==
  ASSUME IInv, NEW size \in PoolSizes, Construct(size) PROVE IInv'
<1>1. /\ ~exists /\ exists' = TRUE /\ pool_size' = size /\ offset' = 0
      /\ UNCHANGED <<fallbacks, lost, blocks>> /\ size \in Nat
  BY ConstantsAreWords DEF Construct
<1>2. base = 0 /\ fallbacks = {} /\ blocks = {} /\ heap = lost
  BY <1>1 DEF IInv, PoolConsistent, HeapAccounted, PoolExtents
<1>3. CASE base' = 0 /\ UNCHANGED heap
  <2>1. HeapAccounted'
    BY <1>1, <1>2, <1>3 DEF IInv, HeapAccounted, PoolExtents, Disjoint
  <2>. QED
    BY <1>1, <1>2, <1>3, <2>1 DEF IInv, PoolConsistent, BlocksConsistent
<1>4. ASSUME size > 0, NEW range \in HeapRanges(size),
             base' = range.addr, heap' = heap \cup {range}
      PROVE  IInv'
  <2>1. /\ range \in Extents /\ range = Extent(range.addr, size)
        /\ range.addr + range.size <= Word /\ range \notin heap
        /\ Disjoint(heap \cup {range})
    BY <1>1, <1>4, NewRange
  <2>2. base' \in HeapAddresses /\ base' # 0
    BY <1>4, <2>1, ConstantsAreWords DEF Extents
  <2>3. PoolExtents' = {range}
    BY <1>1, <1>4, <2>1, <2>2 DEF PoolExtents, Extent
  <2>4. HeapAccounted'
    BY <1>1, <1>2, <1>4, <2>1, <2>3 DEF IInv, HeapAccounted, Disjoint
  <2>5. PoolConsistent'
    BY <1>1, <1>2, <2>2 DEF PoolConsistent
  <2>6. BlocksConsistent'
    BY <1>1, <1>2 DEF BlocksConsistent
  <2>. QED
    BY <2>4, <2>5, <2>6 DEF IInv
<1>. QED
  BY <1>3, <1>4 DEF Construct

(* A block from the pool ends where the next one may start.                *)
LEMMA FromPoolKeeps ==
  ASSUME IInv, RequestsFit, NEW size \in Sizes, NEW alignment \in Alignments,
         AllocateFromPool(size, alignment)
  PROVE  IInv'
<1> DEFINE aligned == AlignUp(offset, alignment)
           b       == Contract!Block(base + aligned, size, alignment)
<1>1. /\ aligned \in Nat /\ offset <= aligned /\ aligned + size <= pool_size
      /\ offset' = aligned + size /\ blocks' = blocks \cup {b}
      /\ base # 0 /\ size > 0
      /\ \A c \in blocks : ~Contract!Overlap(b, c)
  BY PoolBlock
<1> HIDE DEF aligned
<1>2. UNCHANGED <<exists, base, pool_size, fallbacks, heap, lost>>
  BY DEF AllocateFromPool
<1>3. size \in Nat \ {0} /\ base \in Nat /\ offset \in Nat /\ pool_size \in Nat
  BY <1>1, PoolRange, ConstantsAreWords DEF IInv, PoolConsistent
<1>4. /\ b.addr = base + aligned /\ b.size = size
      /\ b \in [addr : Nat, size : Nat \ {0}, alignment : Alignments]
  BY <1>1, <1>3 DEF Contract!Block
<1>5. HeapAccounted'
  BY <1>2 DEF IInv, HeapAccounted, PoolExtents, Disjoint
<1>6. PoolConsistent'
  BY <1>1, <1>2, <1>3 DEF IInv, PoolConsistent
<1>7. ASSUME NEW c \in blocks'
      PROVE  Extent(c.addr, c.size) \in fallbacks' \/ Within(c)'
  <2>1. CASE c = b
    BY <1>1, <1>2, <1>3, <1>4, <2>1 DEF Within
  <2>2. CASE c \in blocks
    <3>1. c.addr \in Nat /\ c.size \in Nat
      BY <2>2, BlockInRange
    <3>2. Extent(c.addr, c.size) \in fallbacks \/ Within(c)
      BY <2>2 DEF IInv, BlocksConsistent
    <3>. QED
      BY <1>1, <1>2, <1>3, <3>1, <3>2 DEF Within
  <2>. QED
    BY <1>1, <1>7, <2>1, <2>2
<1>8. \A c \in blocks : ~Contract!Overlap(c, b)
  BY <1>1 DEF Contract!Overlap
<1>9. BlocksConsistent'
  <2>1. blocks' \subseteq [addr : Nat, size : Nat \ {0}, alignment : Alignments]
    BY <1>1, <1>4 DEF IInv, BlocksConsistent
  <2>2. \A c, d \in blocks' : Contract!Overlap(c, d) => c = d
    BY <1>1, <1>8 DEF IInv, BlocksConsistent
  <2>. QED
    BY <1>7, <2>1, <2>2 DEF BlocksConsistent
<1>. QED
  BY <1>5, <1>6, <1>9 DEF IInv

(* A fallback gets a range of its own. *)
LEMMA FromHeapKeeps ==
  ASSUME IInv, RequestsFit, NEW size \in Sizes, NEW alignment \in Alignments,
         AllocateFromHeap(size, alignment)
  PROVE  IInv'
<1>1. /\ exists /\ size \in Nat \ {0}
      /\ UNCHANGED <<exists, base, pool_size, offset, lost>>
  BY ConstantsAreWords DEF AllocateFromHeap
<1>2. PICK range \in HeapRanges(size) :
        /\ heap' = heap \cup {range}
        /\ fallbacks' = fallbacks \cup {range}
        /\ blocks' = blocks \cup {Contract!Block(range.addr, size, alignment)}
  BY DEF AllocateFromHeap
<1> DEFINE b == Contract!Block(range.addr, size, alignment)
<1>3. /\ range \in Extents /\ range = Extent(range.addr, size)
      /\ range.addr + range.size <= Word /\ range \notin heap
      /\ Disjoint(heap \cup {range})
  BY <1>1, NewRange
<1>4. \A c \in blocks : ~Contract!Overlap(b, c)
  BY <1>1, HeapBlock
<1>5. /\ b.addr = range.addr /\ b.size = size
      /\ b \in [addr : Nat, size : Nat \ {0}, alignment : Alignments]
  BY <1>1, <1>3, ConstantsAreWords DEF Contract!Block, Extents
<1>6. HeapAccounted'
  BY <1>1, <1>2, <1>3 DEF IInv, HeapAccounted, PoolExtents, Disjoint
<1>7. PoolConsistent'
  BY <1>1 DEF IInv, PoolConsistent
<1>8. \A c \in blocks : ~Contract!Overlap(c, b)
  BY <1>4 DEF Contract!Overlap
<1>9. BlocksConsistent'
  <2>1. blocks' \subseteq [addr : Nat, size : Nat \ {0}, alignment : Alignments]
    BY <1>2, <1>5 DEF IInv, BlocksConsistent
  <2>2. \A c, d \in blocks' : Contract!Overlap(c, d) => c = d
    BY <1>2, <1>4, <1>8 DEF IInv, BlocksConsistent
  <2>3. \A c \in blocks' : Extent(c.addr, c.size) \in fallbacks' \/ Within(c)'
    BY <1>1, <1>2, <1>3, <1>5 DEF IInv, BlocksConsistent, Within
  <2>. QED
    BY <2>1, <2>2, <2>3 DEF BlocksConsistent
<1>. QED
  BY <1>6, <1>7, <1>9 DEF IInv

(* A lost range belongs to the heap and to nobody else.                    *)
LEMMA LosingKeeps ==
  ASSUME IInv, NEW size \in Sizes, NEW alignment \in Alignments,
         FallbackIsLost(size, alignment)
  PROVE  IInv'
<1>1. size \in Nat \ {0} /\ UNCHANGED <<exists, base, pool_size, offset, fallbacks, blocks>>
  BY ConstantsAreWords DEF FallbackIsLost
<1>2. PICK range \in HeapRanges(size) :
        heap' = heap \cup {range} /\ lost' = lost \cup {range}
  BY DEF FallbackIsLost
<1>3. /\ range \in Extents /\ range.addr + range.size <= Word /\ range \notin heap
      /\ Disjoint(heap \cup {range})
  BY <1>1, NewRange
<1>4. HeapAccounted'
  BY <1>1, <1>2, <1>3 DEF IInv, HeapAccounted, PoolExtents, Disjoint
<1>5. PoolConsistent' /\ BlocksConsistent'
  BY <1>1 DEF IInv, PoolConsistent, BlocksConsistent, Within
<1>. QED
  BY <1>4, <1>5 DEF IInv

(* The destructor returns all but the lost ranges.                         *)
LEMMA FreesAllButLost ==
  ASSUME IInv PROVE heap \ Frees = lost
<1>1. ASSUME NEW range \in lost PROVE range \notin Frees
  <2>1. range \in heap /\ range \notin fallbacks /\ range \notin PoolExtents
    BY DEF IInv, HeapAccounted
  <2>2. ASSUME range.addr = base, base # 0 PROVE FALSE
    <3> DEFINE pool == Extent(base, pool_size)
    <3>1. pool \in heap /\ pool # range /\ base \in Nat /\ pool_size \in Nat \ {0}
      BY <2>1, <2>2, PoolRange DEF PoolExtents
    <3>2. range.size \in Nat \ {0}
      BY <2>1 DEF IInv, HeapAccounted, Extents
    <3>3. pool.addr = base /\ pool.size = pool_size
      BY DEF Extent
    <3>4. Contract!Overlap(pool, range)
      BY <2>2, <3>1, <3>2, <3>3 DEF Contract!Overlap
    <3>. QED
      BY <2>1, <3>1, <3>4 DEF IInv, HeapAccounted, Disjoint
  <2>. QED
    BY <2>1, <2>2 DEF Frees
<1>2. PoolExtents \subseteq Frees /\ fallbacks \subseteq Frees
  BY PoolRange DEF PoolExtents, Frees, Extent
<1>. QED
  BY <1>1, <1>2 DEF IInv, HeapAccounted

(* A destroyed pool leaves the lost ranges.                                *)
LEMMA DestroyKeeps ==
  ASSUME IInv, Destroy PROVE IInv'
<1>1. /\ exists' = FALSE /\ base' = 0 /\ pool_size' = 0 /\ offset' = 0
      /\ fallbacks' = {} /\ blocks' = {} /\ lost' = lost /\ heap' = lost
  BY FreesAllButLost DEF Destroy
<1>2. lost \subseteq heap
  BY DEF IInv, HeapAccounted
<1>3. HeapAccounted'
  BY <1>1, <1>2 DEF IInv, HeapAccounted, PoolExtents, Disjoint
<1>4. 0 \in Nat /\ 0 <= 0
  OBVIOUS
<1>5. PoolConsistent'
  BY <1>1, <1>4, Zenon DEF PoolConsistent
<1>6. BlocksConsistent'
  BY <1>1 DEF BlocksConsistent
<1>. QED
  BY <1>3, <1>5, <1>6 DEF IInv

(* Every step keeps the invariant. *)
LEMMA StepKeeps ==
  ASSUME IInv, RequestsFit, [Next]_vars PROVE IInv'
<1>1. ASSUME NEW b \in blocks, Deallocate(b) PROVE IInv'
  BY <1>1 DEF Deallocate, IInv, HeapAccounted, PoolExtents, Disjoint, PoolConsistent,
              BlocksConsistent, Within
<1>2. CASE UNCHANGED vars
  BY <1>2 DEF vars, IInv, HeapAccounted, PoolExtents, Disjoint, PoolConsistent,
              BlocksConsistent, Within
<1>. QED
  BY <1>1, <1>2, ConstructKeeps, FromPoolKeeps, FromHeapKeeps, LosingKeeps, DestroyKeeps
     DEF Next

(* Before the first pool the heap is untouched.                            *)
LEMMA InitHolds ==
  ASSUME Init PROVE IInv
<1>1. HeapAccounted
  BY DEF Init, HeapAccounted, PoolExtents, Disjoint
<1>2. 0 \in Nat /\ 0 <= 0
  OBVIOUS
<1>3. PoolConsistent
  BY <1>2, Zenon DEF Init, PoolConsistent
<1>4. BlocksConsistent
  BY DEF Init, BlocksConsistent
<1>. QED
  BY <1>1, <1>3, <1>4 DEF IInv

----------------------------------------------------------------------------
(* The refinement. *)

(* Allocations are allocations of the contract; the rest that callers see  *)
(* is Deallocate and Destroy.                                              *)
LEMMA StepRefines ==
  ASSUME IInv, RequestsFit, [Next]_vars PROVE [Contract!Next]_blocks
<1>1. ASSUME NEW size \in Sizes, NEW alignment \in Alignments,
             AllocateFromPool(size, alignment)
      PROVE  Contract!Allocate(size, alignment)
  BY <1>1, PoolBlock DEF Contract!Allocate, Contract!Block
<1>2. ASSUME NEW size \in Sizes, NEW alignment \in Alignments,
             AllocateFromHeap(size, alignment)
      PROVE  Contract!Allocate(size, alignment)
  <2>1. size > 0 /\ size \in Nat \ {0}
    BY <1>2, ConstantsAreWords DEF AllocateFromHeap
  <2>2. PICK range \in HeapRanges(size) :
          blocks' = blocks \cup {Contract!Block(range.addr, size, alignment)}
    BY <1>2 DEF AllocateFromHeap
  <2>. QED
    BY <2>1, <2>2, HeapBlock DEF Contract!Allocate, Contract!Block
<1>3. ASSUME NEW b \in blocks, Deallocate(b) PROVE Contract!Deallocate(b)
  BY <1>3 DEF Deallocate, Contract!Deallocate
<1>4. CASE Destroy
  BY <1>4 DEF Destroy, Contract!Next, Contract!Destroy
<1>5. ASSUME NEW size \in PoolSizes, Construct(size) PROVE UNCHANGED blocks
  BY <1>5 DEF Construct
<1>6. ASSUME NEW size \in Sizes, NEW alignment \in Alignments,
             FallbackIsLost(size, alignment)
      PROVE  UNCHANGED blocks
  BY <1>6 DEF FallbackIsLost
<1>7. CASE UNCHANGED vars
  BY <1>7 DEF vars
<1>. QED
  BY <1>1, <1>2, <1>3, <1>4, <1>5, <1>6, <1>7 DEF Next, Contract!Next

----------------------------------------------------------------------------
(* The theorems, for requests that fit.                                    *)

(* The invariant holds in every reachable state. *)
THEOREM Invariance ==
  ASSUME RequestsFit PROVE Spec => []IInv
<1>1. Init => IInv
  BY InitHolds
<1>2. IInv /\ [Next]_vars => IInv'
  BY StepKeeps
<1>. QED
  BY <1>1, <1>2, PTL DEF Spec

(* offset_ stays within the pool, and nobody holds a block of a pool that  *)
(* does not exist.                                                         *)
THEOREM TypeCorrect ==
  ASSUME RequestsFit PROVE Spec => []TypeOK
<1>1. IInv => TypeOK
  <2> SUFFICES ASSUME IInv PROVE TypeOK
    OBVIOUS
  <2>1. pool_size \in 0 .. Word - 1 /\ offset \in 0 .. Word - 1 /\ offset <= pool_size
    BY WordAssumption DEF IInv, PoolConsistent
  <2>2. base \in 0 .. Word - 1
    <3>1. CASE base = 0
      BY <3>1, ConstantsAreWords
    <3>2. CASE base # 0
      <4>1. base \in HeapAddresses
        BY <3>2 DEF IInv, PoolConsistent
      <4>. QED
        BY <4>1, WordAssumption
    <3>. QED
      BY <3>1, <3>2
  <2>3. base # 0 => exists /\ Extent(base, pool_size) \in heap
    BY PoolRange DEF IInv, PoolConsistent
  <2>4. fallbacks \cup lost \subseteq heap /\ (~exists => fallbacks \cup blocks = {})
    BY DEF IInv, HeapAccounted, PoolConsistent
  <2>. QED
    BY <2>1, <2>2, <2>3, <2>4 DEF TypeOK
<1>2. Spec => []IInv
  BY Invariance
<1>. QED
  BY <1>1, <1>2, PTL

(* Every block lies in memory of the pool.                                 *)
THEOREM Backed ==
  ASSUME RequestsFit PROVE Spec => []BlocksAreBacked
<1>1. IInv => BlocksAreBacked
  <2> SUFFICES ASSUME IInv, NEW b \in blocks, Within(b)
               PROVE  base <= b.addr /\ b.addr + b.size <= base + pool_size
    BY DEF BlocksAreBacked, IInv, BlocksConsistent, Within
  <2>1. base \in Nat /\ pool_size \in Nat /\ offset \in Nat /\ offset <= pool_size
    BY PoolRange DEF Within, IInv, PoolConsistent
  <2>. QED
    BY <2>1, BlockInRange DEF Within
<1>2. Spec => []IInv
  BY Invariance
<1>. QED
  BY <1>1, <1>2, PTL

(* A pool that is gone has given everything back but what was lost.        *)
THEOREM NoOtherLeaks ==
  ASSUME RequestsFit PROVE Spec => []NothingElseLeaks
<1>1. IInv => NothingElseLeaks
  BY DEF IInv, HeapAccounted, PoolConsistent, PoolExtents, NothingElseLeaks
<1>2. Spec => []IInv
  BY Invariance
<1>. QED
  BY <1>1, <1>2, PTL

(* MemoryPool implements Allocator. *)
THEOREM Implements ==
  ASSUME RequestsFit PROVE Spec => KeepsContract
<1>1. Init => Contract!Init
  BY DEF Init, Contract!Init
<1>2. IInv /\ [Next]_vars => [Contract!Next]_blocks
  BY StepRefines
<1>3. Spec => []IInv
  BY Invariance
<1>. QED
  BY <1>1, <1>2, <1>3, PTL DEF Spec, KeepsContract, Contract!Spec

(* What holders of blocks rely on: each of theirs is aligned as asked, and *)
(* no two share a byte.                                                    *)
HeldBlocksAreApart ==
  /\ \A b \in blocks : b.addr % b.alignment = 0
  /\ \A b, c \in blocks : b # c => ~Contract!Overlap(b, c)

(* At every moment, after any mixture of pool and fallback blocks taken    *)
(* and returned, the blocks in use are aligned and apart.                  *)
THEOREM BlocksApart ==
  ASSUME RequestsFit PROVE Spec => []HeldBlocksAreApart
<1> DEFINE Aligned == \A b \in blocks : b.addr % b.alignment = 0
<1>1. Init => Aligned
  BY DEF Init
<1>2. Aligned /\ [Contract!Next]_blocks => Aligned'
  <2>1. ASSUME NEW size \in Sizes, NEW alignment \in Alignments,
               Aligned, Contract!Allocate(size, alignment)
        PROVE  Aligned'
    BY <2>1 DEF Contract!Allocate, Contract!Block
  <2>2. ASSUME NEW b \in blocks, Aligned, Contract!Deallocate(b) PROVE Aligned'
    BY <2>2 DEF Contract!Deallocate
  <2>3. CASE Contract!Destroy
    BY <2>3 DEF Contract!Destroy
  <2>. QED
    BY <2>1, <2>2, <2>3 DEF Contract!Next
<1>3. IInv /\ [Next]_vars => [Contract!Next]_blocks
  BY StepRefines
<1>4. IInv /\ Aligned => HeldBlocksAreApart
  BY DEF IInv, BlocksConsistent, HeldBlocksAreApart
<1>5. Spec => []IInv
  BY Invariance
<1>. HIDE DEF Aligned
<1>. QED
  BY <1>1, <1>2, <1>3, <1>4, <1>5, PTL DEF Spec
=============================================================================
