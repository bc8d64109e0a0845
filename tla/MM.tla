--------------------------------- MODULE MM ---------------------------------
(***************************************************************************)
(* The allocator of Malloclab/mm.c, word by word, over the pages that      *)
(* memlib.c maps.  The heap is a record h; every C function is an operator *)
(* from the heap before the call to the heap after it.                     *)
(*                                                                         *)
(* Addresses are byte addresses, memory is an array of 4-byte words.  A    *)
(* region as page_set_up leaves it at base b, with size s:                 *)
(*                                                                         *)
(*    b    b+4  b+8   b+12    b+16 ...            b+s-8   b+s-4            *)
(*    0    8|1  8|1   header  first payload ...   footer  0|1              *)
(***************************************************************************)
EXTENDS Integers, Sequences, FiniteSets

CONSTANTS
  APAGE_SIZE,  \* bytes in a page
  GROWTH,      \* pages are mapped GROWTH times over (16 in extend)
  MaxPages,    \* bound: pages of the address space
  INT_MAX      \* the largest int (2^31 - 1)

ASSUME PageAssumption == APAGE_SIZE \in Nat /\ APAGE_SIZE >= 32 /\ APAGE_SIZE % 16 = 0
ASSUME GrowthAssumption == GROWTH \in Nat /\ GROWTH >= 2
ASSUME MaxPagesAssumption == MaxPages \in Nat
ASSUME IntAssumption == INT_MAX \in Nat

NULL == 0
Hole == -1   \* what an unmapped word reads as here

ALIGNMENT == 16
OVERHEAD == 8
PRE_OCCUPIED == 2 * OVERHEAD
ListNodeSize == 16

RoundUp(n, unit) == ((n + unit - 1) \div unit) * unit
ALIGN(size) == RoundUp(size, ALIGNMENT)
PAGE_ALIGN(size) == RoundUp(size, APAGE_SIZE)

(* A size_t stored in an int. *)
ToInt(n) == ((n + INT_MAX + 1) % (2 * (INT_MAX + 1))) - (INT_MAX + 1)

PageOf(p) == p \div APAGE_SIZE
Pages == 1..MaxPages
WordAddrs == {4 * w : w \in (APAGE_SIZE \div 4)..((MaxPages + 1) * (APAGE_SIZE \div 4) - 1)}

(* mem     : the words                                                     *)
(* list    : free_list_ptr                                                 *)
(* pages   : the mapped pages                                              *)
(* regions : history, what mem_map handed out and mem_unmap has not taken  *)
(*           back                                                          *)
(* fault   : a write hit an unmapped word, or memlib aborted               *)
EmptyHeap == [mem |-> [a \in WordAddrs |-> Hole], list |-> NULL, pages |-> {},
              regions |-> {}, fault |-> FALSE]

-----------------------------------------------------------------------------
(* Words, headers and list nodes *)

Mapped(h, p) == p \in WordAddrs /\ PageOf(p) \in h.pages

GET(h, p) == IF Mapped(h, p) THEN h.mem[p] ELSE Hole
PUT(h, p, val) ==
  IF Mapped(h, p) THEN [h EXCEPT !.mem[p] = val] ELSE [h EXCEPT !.fault = TRUE]

PACK(size, alloc) == size + alloc
GET_SIZE(h, p) == GET(h, p) - (GET(h, p) % 8)
GET_ALLOC(h, p) == GET(h, p) % 2

HDPR(bp) == bp - 4
FTRP(h, bp) == bp + GET_SIZE(h, HDPR(bp)) - OVERHEAD
NEXT_BLKP(h, bp) == bp + GET_SIZE(h, HDPR(bp))
PREV_BLKP(h, bp) == bp - GET_SIZE(h, bp - OVERHEAD)

(* A pointer takes two words; every address here fits in the low one.      *)
GetPtr(h, p) == IF GET(h, p + 4) = 0 THEN GET(h, p) ELSE Hole
PutPtr(h, p, ptr) == PUT(PUT(h, p, ptr), p + 4, 0)

PREV_NODE(h, bp) == GetPtr(h, bp)
NEXT_NODE(h, bp) == GetPtr(h, bp + 8)
SetPrev(h, bp, ptr) == PutPtr(h, bp, ptr)
SetNext(h, bp, ptr) == PutPtr(h, bp + 8, ptr)

(* Header and footer of the block at bp.  The footer is found through the  *)
(* header just written.                                                    *)
PutTags(h, bp, word) ==
  LET g == PUT(h, HDPR(bp), word) IN PUT(g, FTRP(g, bp), word)

-----------------------------------------------------------------------------
(* memlib.c *)

RangePages(p, sz) == {PageOf(p) + i : i \in 0..((sz \div APAGE_SIZE) - 1)}

(* mmap picks the address; these are the bases it can pick.  (The page     *)
(* that mem_map maps now and then and never uses only rules some out.)     *)
mmap_bases(h, sz) ==
  {p \in {APAGE_SIZE * n : n \in Pages} :
     RangePages(p, sz) \subseteq Pages \ h.pages}

mem_map(h, p, sz) ==
  [h EXCEPT !.pages = @ \cup RangePages(p, sz),
            !.regions = @ \cup {<<p, sz>>},
            !.mem = [a \in WordAddrs |->
                       IF PageOf(a) \in RangePages(p, sz) THEN 0 ELSE @[a]]]

mem_unmap(h, p, sz) ==
  IF p % APAGE_SIZE # 0 \/ sz % APAGE_SIZE # 0 \/ ~(RangePages(p, sz) \subseteq h.pages)
  THEN [h EXCEPT !.fault = TRUE]
  ELSE [h EXCEPT !.pages = @ \ RangePages(p, sz),
                 !.regions = {r \in @ : r[1] # p},
                 !.mem = [a \in WordAddrs |->
                            IF PageOf(a) \in RangePages(p, sz) THEN Hole ELSE @[a]]]

mem_reset(h) ==
  [h EXCEPT !.pages = {}, !.regions = {}, !.mem = [a \in WordAddrs |-> Hole]]

-----------------------------------------------------------------------------
(* The free list *)

add_to_free_list(h, bp) ==
  IF h.list = NULL
  THEN SetNext(SetPrev([h EXCEPT !.list = bp], bp, NULL), bp, NULL)
  ELSE LET g == SetPrev(SetNext(h, bp, h.list), bp, NULL)
       IN  [SetPrev(g, g.list, bp) EXCEPT !.list = bp]

(* mutant: the next node keeps its prev pointer *)
remove_from_free_list_oneway(h, bp) ==
  LET prev == PREV_NODE(h, bp)
      next == NEXT_NODE(h, bp)
      g == IF prev # NULL THEN SetNext(h, prev, next) ELSE h
  IN  [g EXCEPT !.list = IF bp # @ THEN @ ELSE next]

remove_from_free_list(h, bp) ==
  LET prev == PREV_NODE(h, bp)
      next == NEXT_NODE(h, bp)
      head == IF bp # h.list THEN h.list ELSE IF prev # NULL THEN prev ELSE next
      g == IF next # NULL THEN SetPrev(h, next, prev) ELSE h
      k == IF prev # NULL THEN SetNext(g, prev, next) ELSE g
  IN  [k EXCEPT !.list = head]

(* The list has at most as many nodes as blocks fit in the pages.          *)
MaxNodes == (MaxPages * APAGE_SIZE) \div 32

(* The n-th node from the head, NULL past the end.                         *)
Node(h) ==
  LET node[n \in 0..MaxNodes] ==
        IF n = 0 THEN h.list
        ELSE IF node[n - 1] = NULL THEN NULL ELSE NEXT_NODE(h, node[n - 1])
  IN  node

-----------------------------------------------------------------------------
(* Allocation *)

page_set_up(h, p, sz) ==
  LET bp == p + PRE_OCCUPIED
      g == PUT(PUT(h, p + 4, PACK(8, 1)), p + 8, PACK(8, 1))
      k == PutTags(g, bp, PACK(ToInt(ToInt(sz) - PRE_OCCUPIED), 0))
  IN  PUT(k, FTRP(k, bp) + 4, PACK(0, 1))

RegionSize(size) ==
  PAGE_ALIGN((IF size > APAGE_SIZE THEN size ELSE APAGE_SIZE) * GROWTH)

(* extend, given the address mmap returned; the new block is at p + 16.    *)
extend(h, p, size) ==
  LET sz == RegionSize(size)
  IN  add_to_free_list(page_set_up(PUT(mem_map(h, p, sz), p, PACK(0, 0)), p, sz),
                       p + PRE_OCCUPIED)

(* The remainder is a size_t: a negative one is huge.                      *)
Splits(extra) == extra > ALIGN(1 + OVERHEAD) \/ extra < 0

set_allocated(h, bp, size) ==
  LET full == GET_SIZE(h, HDPR(bp))
      extra == full - size
  IN  IF Splits(extra)
      THEN LET g == remove_from_free_list(PutTags(h, bp, PACK(size, 1)), bp)
               rest == NEXT_BLKP(g, bp)
           IN  add_to_free_list(PutTags(g, rest, PACK(extra, 0)), rest)
      ELSE remove_from_free_list(PutTags(h, bp, PACK(full, 1)), bp)

(* mutant: no room for header and footer *)
BlockSize_bare(size) == ALIGN(IF size > ListNodeSize THEN size ELSE ListNodeSize)

(* needed_size and new_size, both of them ints. *)
BlockSize(size) ==
  ToInt(ALIGN(ToInt(IF size > ListNodeSize THEN size ELSE ListNodeSize) + OVERHEAD))

(* The requests that no int is too small for, neither new_size nor the     *)
(* size of the region that extend maps for it, and that are not empty.     *)
Fits(size) ==
  /\ size >= 1
  /\ RegionSize(ALIGN((IF size > ListNodeSize THEN size ELSE ListNodeSize) + OVERHEAD)) <= INT_MAX

(* The first block of the list that is large enough, NULL if there is none *)
FirstFit(h, new_size) ==
  LET node == Node(h)
      fits == {n \in 0..MaxNodes :
                 /\ node[n] # NULL
                 /\ GET_ALLOC(h, HDPR(node[n])) = 0
                 /\ GET_SIZE(h, HDPR(node[n])) >= new_size}
  IN  IF fits = {} THEN NULL
      ELSE node[CHOOSE n \in fits : \A m \in fits : n <= m]

(* mm_malloc: the possible outcomes, one for each address mmap may return  *)
(* when the heap has to grow.  A negative new_size is a huge size_t for    *)
(* extend, and memlib aborts when mmap refuses it.                         *)
mm_malloc(h, size) ==
  LET new_size == BlockSize(size)
      bp == FirstFit(h, new_size)
  IN  IF size = 0 THEN {[heap |-> h, ptr |-> NULL]}
      ELSE IF bp # NULL
      THEN {[heap |-> set_allocated(h, bp, new_size), ptr |-> bp]}
      ELSE IF new_size < 0 THEN {[heap |-> [h EXCEPT !.fault = TRUE], ptr |-> NULL]}
      ELSE {[heap |-> set_allocated(extend(h, p, new_size), p + PRE_OCCUPIED, new_size),
             ptr |-> p + PRE_OCCUPIED] : p \in mmap_bases(h, RegionSize(new_size))}

-----------------------------------------------------------------------------
(* Freeing *)

PrologueAt(h, p) == GET_ALLOC(h, p) = 1 /\ GET_SIZE(h, p) = OVERHEAD
TerminatorAt(h, p) == GET_ALLOC(h, p) = 1 /\ GET_SIZE(h, p) = 0

(* mutant: a freed block is never merged *)
coalesce_never(h, bp) == [heap |-> add_to_free_list(h, bp), bp |-> bp]

(* coalesce: the heap and the block that now contains bp.                  *)
coalesce(h, bp) ==
  LET size == GET_SIZE(h, HDPR(bp))
      prev == PREV_BLKP(h, bp)
      next == NEXT_BLKP(h, bp)
      prev_alloc == PrologueAt(h, bp - OVERHEAD) \/ GET_ALLOC(h, HDPR(prev)) = 1
      next_alloc == TerminatorAt(h, FTRP(h, bp) + 4) \/ GET_ALLOC(h, HDPR(next)) = 1
      prev_size == GET_SIZE(h, HDPR(prev))
      next_size == GET_SIZE(h, HDPR(next))
  IN  CASE prev_alloc /\ next_alloc ->
             [heap |-> add_to_free_list(h, bp), bp |-> bp]
        [] prev_alloc /\ ~next_alloc ->
             LET g == PutTags(remove_from_free_list(h, next), bp,
                              PACK(size + next_size, 0))
             IN  [heap |-> add_to_free_list(g, bp), bp |-> bp]
        [] ~prev_alloc /\ next_alloc ->
             LET word == PACK(size + prev_size, 0)
             IN  [heap |-> PUT(PUT(h, HDPR(prev), word), FTRP(h, bp), word), bp |-> prev]
        [] ~prev_alloc /\ ~next_alloc ->
             LET g == remove_from_free_list(h, next)
                 word == PACK(size + prev_size + next_size, 0)
             IN  [heap |-> PUT(PUT(g, HDPR(prev), word), FTRP(g, next), word), bp |-> prev]

(* mutants: the region is unmapped without unlinking its block, or not at  *)
(* all                                                                     *)
release_dead_node(h, bp) == mem_unmap(h, HDPR(bp) - 12, GET_SIZE(h, HDPR(bp)) + PRE_OCCUPIED)
release_keeps(h, bp) == h

(* What mm_free does with a region that is one free block.                 *)
release(h, bp) ==
  LET size == GET_SIZE(h, HDPR(bp)) + PRE_OCCUPIED
  IN  mem_unmap(remove_from_free_list(h, bp), HDPR(bp) - 12, size)

mm_free(h, bp) ==
  LET freed == PutTags(h, bp, PACK(GET_SIZE(h, HDPR(bp)), 0))
      merged == coalesce(freed, bp)
      g == merged.heap
      b == merged.bp
      alone == /\ PrologueAt(g, HDPR(b) - 4) /\ PrologueAt(g, HDPR(b) - OVERHEAD)
               /\ TerminatorAt(g, FTRP(g, b) + 4)
  IN  IF GET_ALLOC(h, HDPR(bp)) # 1 THEN h ELSE IF alone THEN release(g, b) ELSE g

mm_init(h) == [h EXCEPT !.list = NULL]
=============================================================================
