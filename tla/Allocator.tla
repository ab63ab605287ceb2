------------------------------ MODULE Allocator ------------------------------
(***************************************************************************)
(* The allocator of 2024_1st/CSE4100/Project_04/mm.c: an implicit list of  *)
(* blocks with a header and a footer each, searched next fit from last_bp. *)
(*                                                                         *)
(* The unit is the word (WSIZE, 4 bytes in the code), and an address is    *)
(* the number of a word.  Of a word only a tag is kept, the size and the   *)
(* allocated bit that PACK() packs; a word that holds a client's data or   *)
(* nothing is Junk.  A client writes its whole block as soon as it has it. *)
(*                                                                         *)
(* Two calls of mm_realloc() lead to states of which nothing can be said:  *)
(* it grows a block over one that is not its neighbour, or it leaves       *)
(* last_bp inside the grown block and find_fit() then takes the client's   *)
(* data for a header.  The model stops there (intact becomes FALSE).       *)
(***************************************************************************)
EXTENDS Integers

CONSTANTS CHUNKSIZE, BUFFER,    \* in words
          MAX_HEAP,             \* mem_sbrk() fails beyond this many words
          Sizes                 \* the sizes that clients ask for, in words

ASSUME AllocatorAssumption ==
  /\ CHUNKSIZE \in Nat /\ CHUNKSIZE >= 4 /\ BUFFER \in Nat /\ MAX_HEAP \in Nat
  /\ CHUNKSIZE % 2 = 0 /\ BUFFER % 2 = 0 /\ MAX_HEAP >= CHUNKSIZE + 4
  /\ Sizes \subseteq Nat \ {0}

VARIABLES heap,     \* [mem, brk, last_bp]: the words, the end of the heap, last_bp
          owner,    \* the blocks that clients hold, with the sizes they asked for
          intact

heap_vars == <<heap, owner, intact>>

WSIZE == 1
DSIZE == 2
NULL == 0
Addresses == 0 .. MAX_HEAP - 1
Junk == [size |-> 0, alloc |-> FALSE]
heap_listp == 2 * WSIZE

Larger(x, y) == IF x > y THEN x ELSE y

-----------------------------------------------------------------------------
(* The macros *)

HDRP(bp) == bp - WSIZE
GET_SIZE(m, bp) == m[HDRP(bp)].size
GET_ALLOC(m, bp) == m[HDRP(bp)].alloc
FTRP(m, bp) == bp + GET_SIZE(m, bp) - DSIZE
NEXT_BLKP(m, bp) == bp + GET_SIZE(m, bp)
PREV_BLKP(m, bp) == bp - m[bp - DSIZE].size

PUT(m, p, size, alloc) == [m EXCEPT ![p] = [size |-> size, alloc |-> alloc]]

\* PUT(HDRP(bp), ...) and then PUT(FTRP(bp), ...), which finds the new size.
PutBoth(m, bp, size, alloc) == PUT(PUT(m, HDRP(bp), size, alloc), bp + size - DSIZE, size, alloc)

\* What the client of a block does to it.
Written(m, bp) ==
  [a \in Addresses |-> IF a \in bp .. bp + GET_SIZE(m, bp) - DSIZE - 1 THEN Junk ELSE m[a]]

-----------------------------------------------------------------------------
\* Variant: with two free neighbours only the one before is merged.
coalesce_One(h, bp) ==
  LET m == h.mem
      prev == PREV_BLKP(m, bp)
      next == NEXT_BLKP(m, bp)
      prev_alloc == m[FTRP(m, prev)].alloc
      size == GET_SIZE(m, bp) + (IF ~prev_alloc THEN GET_SIZE(m, prev)
                                 ELSE IF GET_ALLOC(m, next) THEN 0 ELSE GET_SIZE(m, next))
      start == IF prev_alloc THEN bp ELSE prev
  IN  [h EXCEPT !.mem = PutBoth(m, start, size, FALSE), !.last_bp = start]

\* The four cases of coalesce(); the result is left in last_bp.
coalesce(h, bp) ==
  LET m == h.mem
      prev == PREV_BLKP(m, bp)
      next == NEXT_BLKP(m, bp)
      prev_alloc == m[FTRP(m, prev)].alloc
      next_alloc == GET_ALLOC(m, next)
      \* with two free neighbours the code reads the footer of the next one
      next_size == IF prev_alloc THEN GET_SIZE(m, next) ELSE m[FTRP(m, next)].size
      size == GET_SIZE(m, bp) + (IF prev_alloc THEN 0 ELSE GET_SIZE(m, prev))
                              + (IF next_alloc THEN 0 ELSE next_size)
      start == IF prev_alloc THEN bp ELSE prev
  IN  [h EXCEPT !.mem = PutBoth(m, start, size, FALSE), !.last_bp = start]

\* mem_sbrk() has room for this many words.
Room(h, words) == h.brk + words <= MAX_HEAP

extend_heap(h, words) ==
  LET bp == h.brk
      size == words + (words % 2)
      free == PutBoth(h.mem, bp, size, FALSE)
  IN  coalesce([h EXCEPT !.mem = PUT(free, HDRP(bp + size), 0, TRUE), !.brk = bp + size], bp)

place(m, bp, asize) ==
  LET csize == GET_SIZE(m, bp)
  IN  IF csize - asize >= 2 * DSIZE
      THEN PutBoth(PutBoth(m, bp, asize, TRUE), bp + asize, csize - asize, FALSE)
      ELSE PutBoth(m, bp, csize, TRUE)

Fits(m, bp, asize) == ~GET_ALLOC(m, bp) /\ GET_SIZE(m, bp) >= asize

\* A block with a size starts at bp. The bound only makes the walks below total:
\* no block reaches beyond the heap, which is what Tiled says.
Starts(m, bp) == GET_SIZE(m, bp) # 0 /\ NEXT_BLKP(m, bp) <= MAX_HEAP

\* The first loop of find_fit(): the first block from bp on that fits.
After(m, asize) ==
  LET after[bp \in 1 .. MAX_HEAP] ==
        IF ~Starts(m, bp) THEN NULL
        ELSE IF Fits(m, bp, asize) THEN bp ELSE after[NEXT_BLKP(m, bp)]
  IN  after

\* The second loop: the first one behind bp, up to the block last.
Upto(m, asize, last) ==
  LET upto[bp \in 1 .. MAX_HEAP] ==
        IF bp >= last \/ ~Starts(m, bp) THEN NULL
        ELSE IF Fits(m, NEXT_BLKP(m, bp), asize) THEN NEXT_BLKP(m, bp)
        ELSE upto[NEXT_BLKP(m, bp)]
  IN  upto

\* Variant: without the second loop.
find_fit_Once(h, asize) == After(h.mem, asize)[NEXT_BLKP(h.mem, h.last_bp)]

\* Next fit: the blocks after last_bp, then those from the first one to last_bp.
find_fit(h, asize) ==
  LET found == After(h.mem, asize)[NEXT_BLKP(h.mem, h.last_bp)]
  IN  IF found # NULL THEN found ELSE Upto(h.mem, asize, h.last_bp)[heap_listp]

\* Variant: rounds up without room for the tags.
adjusted_Bare(size) ==
  IF size <= DSIZE THEN 2 * DSIZE ELSE DSIZE * ((size + (DSIZE - 1)) \div DSIZE)

adjusted(size) ==
  IF size <= DSIZE THEN 2 * DSIZE ELSE DSIZE * ((size + DSIZE + (DSIZE - 1)) \div DSIZE)

\* The heap and the pointer that mm_malloc(size) leaves and returns.
malloc(h, size) ==
  LET asize == adjusted(size)
      fit == find_fit(h, asize)
      extendsize == Larger(asize, CHUNKSIZE)
      more == extend_heap(h, extendsize)
      placed(g, bp) == [ptr |-> bp, heap |-> [g EXCEPT !.mem = Written(place(@, bp, asize), bp),
                                                       !.last_bp = bp]]
  IN  IF fit # NULL THEN placed(h, fit)
      ELSE IF Room(h, extendsize) THEN placed(more, more.last_bp)
      ELSE [ptr |-> NULL, heap |-> h]

free(h, bp) ==
  coalesce([h EXCEPT !.mem = PutBoth(@, bp, GET_SIZE(@, bp), FALSE)], bp)

-----------------------------------------------------------------------------
\* The blocks from b on, found by their headers.
BlocksFrom(m) ==
  LET walk[b \in 1 .. MAX_HEAP] ==
        IF Starts(m, b) THEN {b} \cup walk[NEXT_BLKP(m, b)] ELSE {}
  IN  walk

Blocks == BlocksFrom(heap.mem)[heap_listp]

Give(ptr, size) == [b \in DOMAIN owner \cup {ptr} |-> IF b = ptr THEN size ELSE owner[b]]
Take(own, ptr) == [b \in DOMAIN own \ {ptr} |-> own[b]]

HeapInit ==
  LET start == [[a \in Addresses |-> Junk] EXCEPT ![1] = [size |-> DSIZE, alloc |-> TRUE],
                                                  ![2] = [size |-> DSIZE, alloc |-> TRUE],
                                                  ![3] = [size |-> 0, alloc |-> TRUE]]
  IN  /\ heap = [extend_heap([mem |-> start, brk |-> 4 * WSIZE, last_bp |-> heap_listp], CHUNKSIZE)
                   EXCEPT !.last_bp = heap_listp]
      /\ owner = [b \in {} |-> 0]
      /\ intact = TRUE

\* find_fit() starts in a client's data.
Astray ==
  /\ intact' = FALSE
  /\ UNCHANGED <<heap, owner>>

mm_malloc(size) ==
  /\ intact
  /\ \/ /\ heap.last_bp \in Blocks
        /\ LET r == malloc(heap, size)
           IN  /\ heap' = r.heap
               /\ owner' = IF r.ptr = NULL THEN owner ELSE Give(r.ptr, size)
        /\ UNCHANGED intact
     \/ heap.last_bp \notin Blocks /\ Astray

\* mm_free(ptr), and mm_realloc(ptr, 0).
mm_free(ptr) ==
  /\ intact
  /\ heap' = free(heap, ptr)
  /\ owner' = Take(owner, ptr)
  /\ UNCHANGED intact

\* The block ptr gets total_size words where it is.
Grow(h, ptr, total_size, size) ==
  /\ heap' = [h EXCEPT !.mem = Written(PutBoth(@, ptr, total_size, TRUE), ptr)]
  /\ owner' = [owner EXCEPT ![ptr] = size]
  /\ UNCHANGED intact

mm_realloc(ptr, size) ==
  LET m == heap.mem
      new_size == adjusted(size) + BUFFER
      next == NEXT_BLKP(m, ptr)
      total_size == GET_SIZE(m, ptr) + GET_SIZE(m, next)
      extendsize == Larger(new_size - total_size, CHUNKSIZE)
      last == NEXT_BLKP(m, next) = heap.brk        \* nothing follows the next block
  IN  /\ intact
      /\ IF GET_SIZE(m, ptr) >= new_size
         THEN /\ owner' = [owner EXCEPT ![ptr] = size]
              /\ UNCHANGED <<heap, intact>>
         ELSE \/ /\ ~GET_ALLOC(m, next) \/ GET_SIZE(m, next) = 0
                 /\ \/ total_size >= new_size /\ Grow(heap, ptr, total_size, size)
                    \/ /\ total_size < new_size /\ Room(heap, extendsize) /\ last
                       /\ Grow(extend_heap(heap, extendsize), ptr, total_size + extendsize, size)
                    \/ total_size < new_size /\ Room(heap, extendsize) /\ ~last /\ Astray
                    \/ total_size < new_size /\ ~Room(heap, extendsize) /\ UNCHANGED heap_vars
              \/ /\ GET_ALLOC(m, next) /\ GET_SIZE(m, next) # 0
                 /\ \/ heap.last_bp \notin Blocks /\ Astray
                    \/ /\ heap.last_bp \in Blocks
                       /\ LET r == malloc(heap, new_size)
                          IN  IF r.ptr = NULL THEN UNCHANGED <<heap, owner>>
                              ELSE /\ heap' = free(r.heap, ptr)
                                   /\ owner' = Take(Give(r.ptr, size), ptr)
                       /\ UNCHANGED intact

HeapNext ==
  \/ \E size \in Sizes : mm_malloc(size)
  \/ \E ptr \in DOMAIN owner : mm_free(ptr) \/ \E size \in Sizes : mm_realloc(ptr, size)

HeapSpec == HeapInit /\ [][HeapNext]_heap_vars
=============================================================================
