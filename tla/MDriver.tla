------------------------------ MODULE MDriver -------------------------------
(***************************************************************************)
(* eval_mm_valid of mdriver.c driving the allocator of mm.c: the requests  *)
(* of a trace in any order that a trace can have them, the range list that *)
(* checks each payload, and the payloads' contents.                        *)
(***************************************************************************)
EXTENDS MM, Ranges

CONSTANTS
  Ids,        \* block indices of a trace
  Sizes,      \* request sizes in bytes, multiples of 4 that fit an int
  FillWord    \* FillWord[i] : the word the owner of block i stores in it

ASSUME SizesAssumption ==
  /\ Sizes \subseteq {4 * n : n \in 1..(MaxPages * APAGE_SIZE)}
  /\ \A size \in Sizes : Fits(size)

VARIABLES
  heap,       \* what mm.c and memlib.c keep
  blocks,     \* trace->blocks and trace->block_sizes; NoBlock when freed
  ranges,     \* the range list
  valid       \* eval_mm_valid has not returned 0

vars == <<heap, blocks, ranges, valid>>

NoBlock == [ptr |-> NULL, size |-> 0]

TypeOK ==
  /\ heap.mem \in [WordAddrs -> Int]
  /\ heap.list \in WordAddrs \cup {NULL}
  /\ heap.pages \subseteq Pages
  /\ heap.regions \subseteq (WordAddrs \X Nat)
  /\ blocks \in [Ids -> [ptr : WordAddrs \cup {NULL}, size : Sizes \cup {0}]]
  /\ \A i \in 1..Len(ranges) : ranges[i].lo \in WordAddrs /\ ranges[i].hi \in Nat
  /\ valid \in BOOLEAN

Init ==
  /\ heap = mm_init(EmptyHeap)
  /\ blocks = [i \in Ids |-> NoBlock]
  /\ ranges = <<>>
  /\ valid = TRUE

-----------------------------------------------------------------------------
PayloadWords(ptr, size) == {ptr + 4 * w : w \in 0..((size \div 4) - 1)}

(* The owner fills its payload (the driver's memset). *)
Fill(h, i, ptr, size) ==
  [h EXCEPT !.mem = [a \in WordAddrs |->
                       IF a \in PayloadWords(ptr, size) THEN FillWord[i] ELSE @[a]]]

Admit(h, known, lo, size) == Accepts(known, lo, size, APAGE_SIZE, h.pages)

(* case ALLOC.  When mm_malloc fails or add_range refuses the payload (it  *)
(* refuses NULL, which lies on no page), eval_mm_valid returns.            *)
Alloc(i, size) ==
  /\ valid /\ blocks[i] = NoBlock
  /\ \E r \in mm_malloc(heap, size) :
       IF Admit(r.heap, ranges, r.ptr, size)
       THEN /\ ranges' = add_range(ranges, r.ptr, size)
            /\ heap' = Fill(r.heap, i, r.ptr, size)
            /\ blocks' = [blocks EXCEPT ![i] = [ptr |-> r.ptr, size |-> size]]
            /\ UNCHANGED valid
       ELSE heap' = r.heap /\ valid' = FALSE /\ UNCHANGED <<blocks, ranges>>

(* mutant: the old block is freed before the new one is asked for *)
Realloc_free_first(i, size) ==
  /\ valid /\ blocks[i] # NoBlock
  /\ \E r \in mm_malloc(mm_free(heap, blocks[i].ptr), size) :
       /\ ranges' = add_range(remove_range(ranges, blocks[i].ptr), r.ptr, size)
       /\ heap' = Fill(r.heap, i, r.ptr, size)
       /\ blocks' = [blocks EXCEPT ![i] = [ptr |-> r.ptr, size |-> size]]
       /\ UNCHANGED valid

(* case REALLOC: a new block, the old range forgotten, unless there is no  *)
(* new block, before the new one is checked, the new payload filled, then  *)
(* the old block freed.                                                    *)
Realloc(i, size) ==
  /\ valid /\ blocks[i] # NoBlock
  /\ \E r \in mm_malloc(heap, size) :
       LET old == blocks[i].ptr
           known == remove_range(ranges, old)
       IN  IF Admit(r.heap, known, r.ptr, size)
           THEN /\ ranges' = add_range(known, r.ptr, size)
                /\ heap' = mm_free(Fill(r.heap, i, r.ptr, size), old)
                /\ blocks' = [blocks EXCEPT ![i] = [ptr |-> r.ptr, size |-> size]]
                /\ UNCHANGED valid
           ELSE /\ heap' = r.heap /\ valid' = FALSE
                /\ ranges' = IF r.ptr = NULL THEN ranges ELSE known
                /\ UNCHANGED blocks

(* case FREE *)
Free(i) ==
  /\ valid /\ blocks[i] # NoBlock
  /\ ranges' = remove_range(ranges, blocks[i].ptr)
  /\ heap' = mm_free(heap, blocks[i].ptr)
  /\ blocks' = [blocks EXCEPT ![i] = NoBlock]
  /\ UNCHANGED valid

(* The end of a trace, mem_reset, and the start of the next, clear_ranges  *)
(* and mm_init.                                                            *)
NextTrace ==
  /\ valid
  /\ heap' = mm_init(mem_reset(heap))
  /\ ranges' = <<>>
  /\ blocks' = [i \in Ids |-> NoBlock]
  /\ UNCHANGED valid

Next ==
  \/ \E i \in Ids : \/ \E size \in Sizes : Alloc(i, size) \/ Realloc(i, size)
                    \/ Free(i)
  \/ NextTrace

Spec == Init /\ [][Next]_vars

-----------------------------------------------------------------------------
(* What the heap looks like between two calls *)

(* The payload pointers of a region, walking from header to header up to   *)
(* the terminator; a walk that leaves the region ends it.                  *)
BlocksOf(r) ==
  LET base == r[1]
      end == r[1] + r[2]
      bp[n \in 0..MaxNodes] ==
        IF n = 0 THEN base + PRE_OCCUPIED
        ELSE IF bp[n - 1] = NULL THEN NULL
        ELSE LET next == NEXT_BLKP(heap, bp[n - 1])
             IN  IF next > bp[n - 1] /\ next < end THEN next ELSE NULL
  IN  {bp[n] : n \in 0..MaxNodes} \ {NULL}

AllBlocks == UNION {BlocksOf(r) : r \in heap.regions}
IsFree(bp) == GET_ALLOC(heap, HDPR(bp)) = 0
SizeAt(bp) == GET_SIZE(heap, HDPR(bp))

(* page_set_up, set_allocated and coalesce keep every region tiled: from   *)
(* the prologue, blocks of at least 32 and a multiple of 16 bytes whose    *)
(* footers repeat their headers follow each other up to the terminator,    *)
(* and no two neighbours are free.                                         *)
RegionsTiled ==
  \A r \in heap.regions :
    LET bs == BlocksOf(r)
    IN  /\ PrologueAt(heap, r[1] + 4) /\ PrologueAt(heap, r[1] + 8)
        /\ TerminatorAt(heap, r[1] + r[2] - 4)
        /\ \A bp \in bs :
             /\ SizeAt(bp) >= 32 /\ SizeAt(bp) % 16 = 0
             /\ GET(heap, FTRP(heap, bp)) = GET(heap, HDPR(bp))
             /\ NEXT_BLKP(heap, bp) \in bs \/ NEXT_BLKP(heap, bp) = r[1] + r[2]
             /\ IsFree(bp) /\ NEXT_BLKP(heap, bp) \in bs => ~IsFree(NEXT_BLKP(heap, bp))

(* The free list is exactly the free blocks: it ends, meets no block       *)
(* twice, its prev pointers mirror its next pointers, and coalescing,      *)
(* splitting and unmapping leave no dead or missing node in it.            *)
FreeListExact ==
  LET node == Node(heap)
      ends == {n \in 0..MaxNodes : node[n] = NULL}
  IN  /\ ends # {}
      /\ LET len == CHOOSE n \in ends : \A m \in ends : n <= m
         IN  /\ {node[n] : n \in 0..(len - 1)} = {bp \in AllBlocks : IsFree(bp)}
             /\ Cardinality({node[n] : n \in 0..(len - 1)}) = len
             /\ \A n \in 0..(len - 1) :
                  PREV_NODE(heap, node[n]) = IF n = 0 THEN NULL ELSE node[n - 1]

(* A live payload is a block of its own that is marked allocated, aligned  *)
(* and large enough, and holds what its owner stored, whatever words that  *)
(* are: no header, footer or list node is ever written into it.            *)
PayloadsIntact ==
  \A i \in Ids : blocks[i] # NoBlock =>
    LET b == blocks[i]
    IN  /\ b.ptr \in AllBlocks /\ ~IsFree(b.ptr) /\ b.ptr % ALIGNMENT = 0
        /\ SizeAt(b.ptr) >= b.size + OVERHEAD
        /\ \A a \in PayloadWords(b.ptr, b.size) : GET(heap, a) = FillWord[i]
        /\ \A j \in Ids : blocks[j].ptr = b.ptr => j = i

(* Nothing is kept for nobody: an allocated block belongs to a live index, *)
(* the mapped pages are those of the regions, and mm_free gives a region   *)
(* back as soon as its last block is freed.                                *)
NothingLeaks ==
  /\ \A bp \in AllBlocks : ~IsFree(bp) => \E i \in Ids : blocks[i].ptr = bp
  /\ heap.pages = UNION {RangePages(r[1], r[2]) : r \in heap.regions}
  /\ \A r \in heap.regions : \E bp \in BlocksOf(r) : ~IsFree(bp)

(* The allocator never writes outside its pages, memlib never aborts on a  *)
(* wrong mem_unmap, and the driver never refuses a payload.                *)
NeverCaught == ~heap.fault /\ valid

(* The range list is the live payloads, pairwise disjoint.                 *)
RangesAreBlocks ==
  /\ {<<ranges[i].lo, ranges[i].hi>> : i \in 1..Len(ranges)} =
       {<<blocks[i].ptr, blocks[i].ptr + blocks[i].size - 1>> :
          i \in {j \in Ids : blocks[j] # NoBlock}}
  /\ \A i, j \in 1..Len(ranges) : i # j => Disjoint(ranges[i], ranges[j])

-----------------------------------------------------------------------------
(* The abstract allocator: live payloads and nothing else. *)
Abstract == INSTANCE Malloc WITH Addrs <- WordAddrs

(* mm.c driven by the trace implements malloc and free as Malloc states    *)
(* them.                                                                   *)
Implements == Abstract!Spec
=============================================================================
