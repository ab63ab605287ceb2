--------------------------- MODULE AllocatorProps ---------------------------
(* The correctness properties of module Allocator. *)
EXTENDS Allocator

Tag == [size : 0 .. MAX_HEAP, alloc : BOOLEAN]

(* The types, and the alignment of every pointer to a double word that     *)
(* mm_malloc() gets from its rounding.                                     *)
HeapTypeOK ==
  LET Aligned == {a \in 0 .. MAX_HEAP : a % DSIZE = 0}
  IN  /\ heap \in [mem : [Addresses -> Tag], brk : Aligned, last_bp : Aligned]
      /\ DOMAIN owner \subseteq Aligned /\ \A b \in DOMAIN owner : owner[b] \in Sizes
      /\ intact \in BOOLEAN

(* The boundary tags describe the heap from both ends: the blocks follow   *)
(* each other without a gap from the prologue to the epilogue, the last    *)
(* word of the heap, each is large enough for two tags and a payload, and  *)
(* its footer says what its header says.                                   *)
Tiled ==
  intact =>
    /\ heap.mem[heap.brk - 1] = [size |-> 0, alloc |-> TRUE]
    /\ heap.brk \in {NEXT_BLKP(heap.mem, b) : b \in Blocks}
    /\ \A b \in Blocks \ {heap_listp} :
         /\ GET_SIZE(heap.mem, b) >= 2 * DSIZE /\ NEXT_BLKP(heap.mem, b) <= heap.brk
         /\ heap.mem[FTRP(heap.mem, b)] = heap.mem[HDRP(b)]

(* coalesce() is complete: two free blocks are never neighbours, whatever  *)
(* mm_malloc(), mm_free() and mm_realloc() have split, freed and absorbed. *)
Coalesced ==
  intact => \A b \in Blocks :
    LET next == NEXT_BLKP(heap.mem, b)
    IN  next \in Blocks => GET_ALLOC(heap.mem, b) \/ GET_ALLOC(heap.mem, next)

(* The allocated blocks are exactly those that clients hold, so that no    *)
(* block is given away twice and none is leaked by mm_realloc(), and each  *)
(* has room for what was asked for between its two tags.                   *)
Served ==
  intact =>
    /\ DOMAIN owner = {b \in Blocks \ {heap_listp} : GET_ALLOC(heap.mem, b)}
    /\ \A b \in DOMAIN owner : GET_SIZE(heap.mem, b) - DSIZE >= owner[b]

(* The rover of the next-fit search is never left inside a free block, the *)
(* mistake coalesce() avoids by moving it to the merged block: last_bp     *)
(* names a block, or is inside an allocated one that mm_realloc() grew.    *)
LastNotInFree ==
  intact => \A b \in Blocks :
    heap.last_bp \in b + 1 .. NEXT_BLKP(heap.mem, b) - 1 => GET_ALLOC(heap.mem, b)

(* The heap is right between any two calls: what the tags say, in either   *)
(* direction, and where the next search starts.                            *)
HeapRight ==
  /\ HeapTypeOK
  /\ Tiled
  /\ Coalesced
  /\ LastNotInFree

(* The two loops of find_fit() see every block: mm_malloc(), called by a   *)
(* client or by mm_realloc() for a new block of size plus BUFFER, extends  *)
(* the heap only if no free block is large enough.                         *)
ExtendOnlyWhenFull ==
  [][\A ptr \in DOMAIN owner' \ DOMAIN owner :
       LET moved == ~(DOMAIN owner \subseteq DOMAIN owner')
           size == owner'[ptr]
           asize == adjusted(IF moved THEN adjusted(size) + BUFFER ELSE size)
       IN  heap'.brk > heap.brk => \A b \in Blocks : ~Fits(heap.mem, b, asize)]_heap_vars
=============================================================================
