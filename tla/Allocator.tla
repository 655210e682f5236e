------------------------------ MODULE Allocator ------------------------------
(***************************************************************************)
(* shared_allocator.c: the heap in the shared segment.  A segment is a     *)
(* header followed by memory blocks, each a header and its bytes; the      *)
(* blocks form a doubly linked list in address order.  A pointer is the    *)
(* offset of a block from the start of the segment.                        *)
(*                                                                         *)
(* balloc and bfree run between acquire_semaphore and release_semaphore of *)
(* fixedSharedMemory->semId, so one call is one action, except that a      *)
(* balloc that has to grow the segment first takes one action per resize:  *)
(* each publishes its segment before the next begins, and the process may  *)
(* end there.  The early returns for zero bytes, a null pointer and a free *)
(* block are not reached: nobody asks for zero bytes, and only pops that   *)
(* race with each other (module TupleList) free what is not theirs.  A     *)
(* header that a merge swallows stays in memory but is not part of the     *)
(* model.                                                                  *)
(***************************************************************************)
EXTENDS Integers, FiniteSets

CONSTANTS
  SegmentHeader,  (* ALLOCATION_SEGMENT_HEADER_SIZE                         *)
  BlockHeader,    (* BLOCK_HEADER_SIZE                                      *)
  InitialSize,    (* INITIAL_ALLOCATION_SEGMENT_SIZE                        *)
  Requests,       (* the sizes callers ask for                              *)
  MaxBytes        (* bound of the checked instance: size of the segment     *)
                  (* beyond which callers ask for nothing that needs growth *)

ASSUME AllocatorAssumption ==
  /\ SegmentHeader \in Nat \ {0}
  /\ BlockHeader \in Nat \ {0}
  /\ InitialSize \in Nat /\ InitialSize > BlockHeader
  /\ Requests \subseteq Nat \ {0}
  /\ MaxBytes \in Nat

MINIMAL_MEMORY_BLOCK_SIZE == 1
RESIZE_FACTOR == 2

VARIABLES
  segment,    (* the mapped segment: its header and its blocks              *)
  requested,  (* per live allocation, the bytes its caller asked for        *)
  seams,      (* where resizes have appended a block                        *)
  call        (* the bytes asked for by the balloc that holds semId between *)
              (* two turns of its loop, 0 when semId is free                *)

avars == <<segment, requested, seams, call>>

firstBlock == SegmentHeader

(* get_block_from_pointer gives NULL below firstBlock.                     *)
IsBlock(ptr) == ptr >= firstBlock

Header(isFree, blockSize, nextBlock, prevBlock) ==
  [isFree |-> isFree, blockSize |-> blockSize,
   nextBlock |-> nextBlock, prevBlock |-> prevBlock]

Put(f, key, value) ==
  [k \in DOMAIN f \cup {key} |-> IF k = key THEN value ELSE f[k]]
Drop(f, key) == [k \in DOMAIN f \ {key} |-> f[k]]

(***************************************************************************)
(* create_allocation_segment, initialize_allocation_segment.               *)
(***************************************************************************)
NewSegment(bytes) ==
  [bytes |-> bytes, blockCount |-> 1, usedBlockCount |-> 0,
   lastBlock |-> firstBlock,
   block |-> [ptr \in {firstBlock} |-> Header(TRUE, bytes - BlockHeader, 0, 0)]]

(***************************************************************************)
(* find_first_fit_free_block: the block that the scan visits i-th (0 after *)
(* the last), and the first one it visits that is free and large enough.   *)
(***************************************************************************)
Walk(s) ==
  LET visit[i \in Nat] ==
        IF i = 0 THEN firstBlock
        ELSE LET previous == visit[i - 1]
             IN  IF IsBlock(previous) THEN s.block[previous].nextBlock ELSE 0
  IN  visit

(* Variant with a defect: the scan does not test isFree.                   *)
fits_used_too(s, ptr, bytes) ==
  IsBlock(ptr) /\ s.block[ptr].blockSize >= bytes

Fits(s, ptr, bytes) ==
  IsBlock(ptr) /\ s.block[ptr].isFree /\ s.block[ptr].blockSize >= bytes

FirstFit(s, bytes) ==
  LET visit == Walk(s)
      fitting == {i \in 0..s.blockCount : Fits(s, visit[i], bytes)}
  IN  IF fitting = {} THEN 0
      ELSE visit[CHOOSE i \in fitting : \A j \in fitting : i <= j]

(***************************************************************************)
(* copy_blocks_and_append_new_from_free_space_left: the segment twice as   *)
(* large, with one free block after the old blocks.                        *)
(***************************************************************************)
Resized(s) ==
  LET bytes == s.bytes * RESIZE_FACTOR
      last == s.lastBlock
      new == last + BlockHeader + s.block[last].blockSize
      linked == [s.block EXCEPT ![last].nextBlock = new]
  IN  [s EXCEPT !.bytes = bytes,
                !.blockCount = @ + 1,
                !.lastBlock = new,
                !.block = Put(linked, new,
                              Header(TRUE, bytes - s.bytes - BlockHeader, 0, last))]

(***************************************************************************)
(* make_new_block_with_unused_space.                                       *)
(***************************************************************************)
(* Variant with a defect: the old successor keeps its prevBlock.           *)
split_without_back_link(s, ptr, bytes, unusedBytes) ==
  LET new == ptr + BlockHeader + bytes
      cut == [s.block EXCEPT ![ptr].blockSize = bytes, ![ptr].nextBlock = new]
  IN  [s EXCEPT !.block = Put(cut, new, Header(TRUE, unusedBytes - BlockHeader,
                                               s.block[ptr].nextBlock, ptr)),
                !.lastBlock = IF @ = ptr THEN new ELSE @,
                !.blockCount = @ + 1]

Split(s, ptr, bytes, unusedBytes) ==
  LET oldNext == s.block[ptr].nextBlock
      new == ptr + BlockHeader + bytes
      cut == [s.block EXCEPT ![ptr].blockSize = bytes, ![ptr].nextBlock = new]
      added == Put(cut, new, Header(TRUE, unusedBytes - BlockHeader, oldNext, ptr))
  IN  [s EXCEPT !.block = IF IsBlock(oldNext)
                            THEN [added EXCEPT ![oldNext].prevBlock = new]
                            ELSE added,
                !.lastBlock = IF @ = ptr THEN new ELSE @,
                !.blockCount = @ + 1]

(* The block found is used, what it does not need becomes a block.         *)
Taken(s, ptr, bytes) ==
  LET used == [s EXCEPT !.block[ptr].isFree = FALSE]
      unusedBytes == s.block[ptr].blockSize - bytes
      cut == IF unusedBytes >= BlockHeader + MINIMAL_MEMORY_BLOCK_SIZE
               THEN Split(used, ptr, bytes, unusedBytes)
               ELSE used
  IN  [cut EXCEPT !.usedBlockCount = @ + 1]

(***************************************************************************)
(* merge_with_next_block_if_free, merge_with_previous_block_if_free.       *)
(***************************************************************************)
MergedWithNext(s, ptr) ==
  LET next == s.block[ptr].nextBlock
      nextNext == s.block[next].nextBlock
      joined == [s.block EXCEPT ![ptr].nextBlock = nextNext,
                                ![ptr].blockSize = @ + s.block[next].blockSize + BlockHeader]
      relinked == IF IsBlock(nextNext)
                    THEN [joined EXCEPT ![nextNext].prevBlock = ptr]
                    ELSE joined
  IN  IF IsBlock(next) /\ s.block[next].isFree
        THEN [s EXCEPT !.block = Drop(relinked, next),
                       !.lastBlock = IF @ = next THEN ptr ELSE @,
                       !.blockCount = @ - 1]
        ELSE s

MergedWithPrevious(s, ptr) ==
  LET previous == s.block[ptr].prevBlock
      next == s.block[ptr].nextBlock
      joined == [s.block EXCEPT ![previous].nextBlock = next,
                                ![previous].blockSize = @ + s.block[ptr].blockSize + BlockHeader]
      relinked == IF IsBlock(next)
                    THEN [joined EXCEPT ![next].prevBlock = previous]
                    ELSE joined
  IN  IF IsBlock(previous) /\ s.block[previous].isFree
        THEN [s EXCEPT !.block = Drop(relinked, ptr),
                       !.lastBlock = IF @ = ptr THEN previous ELSE @,
                       !.blockCount = @ - 1]
        ELSE s

(* Variants with a defect: only one neighbour is merged; the used blocks   *)
(* are not counted down.                                                   *)
released_merging_next_only(s, ptr) ==
  MergedWithNext([s EXCEPT !.block[ptr].isFree = TRUE, !.usedBlockCount = @ - 1], ptr)

Released(s, ptr) ==
  LET freed == [s EXCEPT !.block[ptr].isFree = TRUE, !.usedBlockCount = @ - 1]
  IN  MergedWithPrevious(MergedWithNext(freed, ptr), ptr)

-----------------------------------------------------------------------------
AllocatorInit ==
  /\ segment = NewSegment(InitialSize)
  /\ requested = <<>>
  /\ seams = {}
  /\ call = 0

give(ptr, bytes) == requested' = Put(requested, ptr, bytes)

(* The balloc of these bytes is a new one, or the one in progress.         *)
calls(bytes) == call \in {0, bytes}

(* The end of balloc: a free block is large enough.                        *)
balloc(bytes) ==
  LET ptr == FirstFit(segment, bytes)
  IN  /\ calls(bytes)
      /\ IsBlock(ptr)
      /\ segment' = Taken(segment, ptr, bytes)
      /\ give(ptr, bytes)
      /\ call' = 0
      /\ UNCHANGED seams

(***************************************************************************)
(* One turn of balloc's loop: no free block is large enough and            *)
(* resize_allocation_segment publishes a larger copy.  After that it       *)
(* removes the old segment: if no other process has that attached,         *)
(* detaching has already destroyed it, shmctl fails and the process exits. *)
(* SEM_UNDO then frees semId and the others go on with the copy.  The next *)
(* turn may find the copy attached by others too: a guest that joins       *)
(* attaches it without semId (map_fixed_shared_memory).                    *)
(***************************************************************************)
resize(bytes, attachedByOthers) ==
  LET grown == Resized(segment)
  IN  /\ calls(bytes)
      /\ ~IsBlock(FirstFit(segment, bytes))
      /\ grown.bytes <= MaxBytes
      /\ segment' = grown
      /\ seams' = seams \cup {grown.lastBlock}
      /\ call' = IF attachedByOthers THEN bytes ELSE 0
      /\ UNCHANGED requested

(* bfree of a live allocation.                                             *)
bfree(ptr) ==
  /\ call = 0
  /\ ptr \in DOMAIN requested
  /\ segment' = Released(segment, ptr)
  /\ requested' = Drop(requested, ptr)
  /\ UNCHANGED <<seams, call>>

AllocatorNext ==
  \/ \E bytes \in Requests : balloc(bytes)
  \/ \E bytes \in Requests, attachedByOthers \in BOOLEAN :
       resize(bytes, attachedByOthers)
  \/ \E ptr \in DOMAIN requested : bfree(ptr)

AllocatorSpec == AllocatorInit /\ [][AllocatorNext]_avars

-----------------------------------------------------------------------------
(***************************************************************************)
(* Properties.                                                             *)
(***************************************************************************)
Blocks == DOMAIN segment.block

After(ptr) == ptr + BlockHeader + segment.block[ptr].blockSize

(* Types.                                                                  *)
AllocatorTypeOK ==
  /\ segment.bytes \in Nat
  /\ segment.lastBlock \in Blocks
  /\ firstBlock \in Blocks
  /\ Blocks \subseteq Nat
  /\ \A ptr \in Blocks : segment.block[ptr] \in
       [isFree : BOOLEAN, blockSize : Nat \ {0}, nextBlock : Nat, prevBlock : Nat]
  /\ DOMAIN requested \subseteq Blocks
  /\ call \in Requests \cup {0}

(* The blocks tile the segment: each ends where its successor begins and   *)
(* the last ends where the segment ends, through every split, merge and    *)
(* resize.  No byte is lost and no two blocks overlap.                     *)
BlocksTile ==
  /\ \A ptr \in Blocks :
       segment.block[ptr].nextBlock =
         IF After(ptr) = SegmentHeader + segment.bytes THEN 0 ELSE After(ptr)
  /\ \A ptr \in Blocks : After(ptr) <= SegmentHeader + segment.bytes
  /\ After(segment.lastBlock) = SegmentHeader + segment.bytes

(* The list is doubly linked: prevBlock undoes nextBlock.                  *)
BlocksLinked ==
  /\ \A ptr \in Blocks :
       LET next == segment.block[ptr].nextBlock
       IN  IsBlock(next) => next \in Blocks /\ segment.block[next].prevBlock = ptr
  /\ segment.block[firstBlock].prevBlock = 0

(* The counters of the header count, and the used blocks are exactly the   *)
(* live allocations, each as large as its caller asked.                    *)
BlocksCounted ==
  /\ segment.blockCount = Cardinality(Blocks)
  /\ segment.usedBlockCount = Cardinality(DOMAIN requested)
  /\ \A ptr \in Blocks :
       IF ptr \in DOMAIN requested
         THEN ~segment.block[ptr].isFree /\ segment.block[ptr].blockSize >= requested[ptr]
         ELSE segment.block[ptr].isFree

(* The block list is whole after every call and every resize: it tiles the *)
(* segment, it is linked both ways and its counters count.  balloc, bfree  *)
(* and the resize each change all three by hand.                           *)
BlocksWellFormed == AllocatorTypeOK /\ BlocksTile /\ BlocksLinked /\ BlocksCounted

(* bfree merges in both directions, so free blocks have free neighbours    *)
(* only where a resize has appended a block: fragmentation does not build  *)
(* up, and a heap with no live allocation has one block per resize, plus   *)
(* one.                                                                    *)
FreeNeighboursOnlyAtSeams ==
  \A ptr \in Blocks :
    LET next == segment.block[ptr].nextBlock
    IN  IsBlock(next) /\ segment.block[ptr].isFree /\ segment.block[next].isFree
          => next \in seams

(* The allocator is a heap, also when a balloc resizes twice or a process  *)
(* exits between publishing a segment and allocating in it: the refinement *)
(* of module Heap.  An allocation owns the bytes behind its block's        *)
(* header.                                                                 *)
HeapImpl == INSTANCE Heap WITH
  owned <- [a \in {ptr + BlockHeader : ptr \in DOMAIN requested} |->
              requested[a - BlockHeader]],
  limit <- SegmentHeader + segment.bytes

IsHeap == HeapImpl!Spec

=============================================================================
