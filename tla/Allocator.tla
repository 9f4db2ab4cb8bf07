------------------------------ MODULE Allocator ------------------------------
(***************************************************************************)
(* What an Allocator (src/core/memory/allocator.h) promises: Allocate      *)
(* gives `size` bytes with at least `alignment` alignment that nobody else *)
(* holds, until they are given back or the allocator is gone.              *)
(***************************************************************************)
EXTENDS Integers

CONSTANTS
  Addresses,    (* the addresses a block can start at        *)
  Sizes,        (* the sizes callers ask for                 *)
  Alignments    (* the alignments they ask for               *)

VARIABLE blocks (* the blocks callers hold, as they asked for them *)

Block(addr, size, alignment) == [addr |-> addr, size |-> size, alignment |-> alignment]

Overlap(b, c) == b.addr < c.addr + c.size /\ c.addr < b.addr + b.size

Init == blocks = {}

(* A request may be refused, with a null pointer: nothing changes.         *)
Allocate(size, alignment) ==
  /\ size > 0
  /\ \E addr \in Addresses :
       /\ addr % alignment = 0
       /\ \A c \in blocks : ~Overlap(Block(addr, size, alignment), c)
       /\ blocks' = blocks \cup {Block(addr, size, alignment)}

Deallocate(b) == blocks' = blocks \ {b}

(* The allocator is destroyed, and its blocks with it.                     *)
Destroy == blocks' = {}

Next ==
  \/ \E size \in Sizes, alignment \in Alignments : Allocate(size, alignment)
  \/ \E b \in blocks : Deallocate(b)
  \/ Destroy

Spec == Init /\ [][Next]_blocks
=============================================================================
