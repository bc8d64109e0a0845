------------------------------ MODULE PageMap -------------------------------
(***************************************************************************)
(* The page bookkeeping of Malloclab: memlib.c asks the kernel for runs of *)
(* pages, pagemap.c remembers every mapped page in a table of mpage        *)
(* records that are threaded on a doubly linked list, and mem_reset walks  *)
(* that list while it takes it apart.  One action is one iteration of the  *)
(* loops of mem_map, mem_unmap and pagemap_for_each.                       *)
(***************************************************************************)
EXTENDS Integers

CONSTANT MaxPage    \* bound: page addresses are 1..MaxPage

ASSUME MaxPageAssumption == MaxPage \in Nat

Pages == 1..MaxPage
NoPage == 0

VARIABLES
  all_mapped_pages,  \* head of the list
  in_table,          \* the pages whose mpage record has an addr
  prev, next,        \* links of the mpage records
  page_count,
  kernel,            \* the pages the kernel has given and not taken back
  pc,                \* the loop memlib.c is in
  first, last, cur   \* its run of pages and its next page

pageVars == <<all_mapped_pages, in_table, prev, next, page_count, kernel, pc, first, last, cur>>

PCs == {"idle", "map", "unmap", "reset", "abort_map", "abort_unmap"}

TypeOK ==
  /\ all_mapped_pages \in Pages \cup {NoPage}
  /\ in_table \in SUBSET Pages
  /\ prev \in [Pages -> Pages \cup {NoPage}]
  /\ next \in [Pages -> Pages \cup {NoPage}]
  /\ page_count \in Nat
  /\ kernel \in SUBSET Pages
  /\ pc \in PCs
  /\ first \in 0..MaxPage /\ last \in 0..MaxPage /\ cur \in 0..(MaxPage + 1)

(* No page is mapped and no call is under way. *)
NothingMapped ==
  /\ all_mapped_pages = NoPage
  /\ in_table = {}
  /\ prev = [p \in Pages |-> NoPage] /\ next = [p \in Pages |-> NoPage]
  /\ page_count = 0
  /\ kernel = {}
  /\ first = 0 /\ last = 0 /\ cur = 0

PageInit == NothingMapped /\ pc = "idle"

-----------------------------------------------------------------------------
(* mutant: the head is overwritten before it becomes p's next *)
Link_head_first(p) ==
  /\ in_table' = in_table \cup {p}
  /\ prev' = [prev EXCEPT ![p] = NoPage]
  /\ next' = [next EXCEPT ![p] = p]
  /\ all_mapped_pages' = p

(* pagemap_modify(p, 1): the record goes to the front of the list.         *)
Link(p) ==
  /\ in_table' = in_table \cup {p}
  /\ prev' = [q \in Pages |-> IF q = p THEN NoPage
                              ELSE IF q = all_mapped_pages THEN p ELSE prev[q]]
  /\ next' = [next EXCEPT ![p] = all_mapped_pages]
  /\ all_mapped_pages' = p

(* mutants: the next record keeps its prev; the record keeps its addr *)
Unlink_oneway(p) ==
  /\ in_table' = in_table \ {p}
  /\ IF prev[p] # NoPage
     THEN next' = [next EXCEPT ![prev[p]] = next[p]] /\ UNCHANGED all_mapped_pages
     ELSE all_mapped_pages' = next[p] /\ UNCHANGED next
  /\ UNCHANGED prev

Unlink_keeps_addr(p) ==
  /\ IF prev[p] # NoPage
     THEN next' = [next EXCEPT ![prev[p]] = next[p]] /\ UNCHANGED all_mapped_pages
     ELSE all_mapped_pages' = next[p] /\ UNCHANGED next
  /\ prev' = IF next[p] # NoPage THEN [prev EXCEPT ![next[p]] = prev[p]] ELSE prev
  /\ UNCHANGED in_table

(* pagemap_modify(p, 0): its neighbours close up; its own links stay.      *)
Unlink(p) ==
  /\ in_table' = in_table \ {p}
  /\ IF prev[p] # NoPage
     THEN next' = [next EXCEPT ![prev[p]] = next[p]] /\ UNCHANGED all_mapped_pages
     ELSE all_mapped_pages' = next[p] /\ UNCHANGED next
  /\ prev' = IF next[p] # NoPage THEN [prev EXCEPT ![next[p]] = prev[p]] ELSE prev

-----------------------------------------------------------------------------
(* mem_map: the kernel picks a run of pages nobody has.  The page that     *)
(* mem_map maps now and then, and never uses, to spread the addresses only *)
(* takes some of the choices away; `kernel' does not count it.             *)
mem_map(lo, hi) ==
  /\ pc = "idle" /\ lo <= hi /\ lo..hi \cap kernel = {}
  /\ kernel' = kernel \cup (lo..hi)
  /\ pc' = "map" /\ first' = lo /\ last' = hi /\ cur' = lo
  /\ UNCHANGED <<all_mapped_pages, in_table, prev, next, page_count>>

MapPage ==
  /\ pc = "map" /\ cur <= last
  /\ IF cur \in in_table \/ cur = all_mapped_pages
     THEN pc' = "abort_map" /\ UNCHANGED <<all_mapped_pages, in_table, prev, next, page_count, cur>>
     ELSE Link(cur) /\ page_count' = page_count + 1 /\ cur' = cur + 1 /\ UNCHANGED pc
  /\ UNCHANGED <<kernel, first, last>>

MapDone ==
  /\ pc = "map" /\ cur > last
  /\ pc' = "idle"
  /\ UNCHANGED <<all_mapped_pages, in_table, prev, next, page_count, kernel, first, last, cur>>

(* mem_unmap of any run; a page that is not mapped aborts the program with *)
(* the pages before it already forgotten.                                  *)
mem_unmap(lo, hi) ==
  /\ pc = "idle" /\ lo <= hi
  /\ pc' = "unmap" /\ first' = lo /\ last' = hi /\ cur' = lo
  /\ UNCHANGED <<all_mapped_pages, in_table, prev, next, page_count, kernel>>

UnmapPage ==
  /\ pc = "unmap" /\ cur <= last
  /\ IF cur \notin in_table
     THEN pc' = "abort_unmap" /\ UNCHANGED <<all_mapped_pages, in_table, prev, next, page_count, cur>>
     ELSE Unlink(cur) /\ page_count' = page_count - 1 /\ cur' = cur + 1 /\ UNCHANGED pc
  /\ UNCHANGED <<kernel, first, last>>

(* mutant: no munmap *)
UnmapDone_keeps ==
  /\ pc = "unmap" /\ cur > last
  /\ pc' = "idle"
  /\ UNCHANGED <<all_mapped_pages, in_table, prev, next, page_count, kernel, first, last, cur>>

(* ... and one munmap for the whole run at the end.                        *)
UnmapDone ==
  /\ pc = "unmap" /\ cur > last
  /\ kernel' = kernel \ (first..last)
  /\ pc' = "idle"
  /\ UNCHANGED <<all_mapped_pages, in_table, prev, next, page_count, first, last, cur>>

(* mem_reset: pagemap_for_each(unmap) saves the next record, gives the     *)
(* page back, unlinks it, and goes on from the saved one.                  *)
mem_reset ==
  /\ pc = "idle"
  /\ pc' = "reset" /\ cur' = all_mapped_pages
  /\ UNCHANGED <<all_mapped_pages, in_table, prev, next, page_count, kernel, first, last>>

ResetPage ==
  /\ pc = "reset" /\ cur # NoPage
  /\ kernel' = kernel \ {cur}
  /\ Unlink(cur)
  /\ cur' = next[cur]
  /\ UNCHANGED <<page_count, pc, first, last>>

ResetDone ==
  /\ pc = "reset" /\ cur = NoPage
  /\ all_mapped_pages' = NoPage
  /\ page_count' = 0
  /\ pc' = "idle"
  /\ UNCHANGED <<in_table, prev, next, kernel, first, last, cur>>

(* The iterations of the loop under way *)
Loop == MapPage \/ MapDone \/ UnmapPage \/ UnmapDone \/ ResetPage \/ ResetDone

Call == mem_reset \/ \E lo, hi \in Pages : mem_map(lo, hi) \/ mem_unmap(lo, hi)

PageNext == Loop \/ Call

PageSpec == PageInit /\ [][PageNext]_pageVars

(* A call runs to its end: the program has one thread.                     *)
PageFairSpec == PageSpec /\ WF_pageVars(Loop)

-----------------------------------------------------------------------------
(* s lists the mapped pages in the order of the links, n of them.          *)
Listing(n, s) ==
  /\ in_table = {s[i] : i \in 1..n}
  /\ \A i, j \in 1..n : s[i] = s[j] => i = j
  /\ all_mapped_pages = IF n = 0 THEN NoPage ELSE s[1]
  /\ \A i \in 1..n : /\ prev[s[i]] = IF i = 1 THEN NoPage ELSE s[i - 1]
                     /\ next[s[i]] = IF i = n THEN NoPage ELSE s[i + 1]

(* The list is exact at every iteration of every loop: from                *)
(* all_mapped_pages the next links run through each mapped page once, the  *)
(* prev links mirror them, and page_count is the number of pages listed    *)
(* (mem_reset sets it at its end).  The record pagemap_for_each saved      *)
(* before it unlinked a page is the head of what is left.                  *)
ListExact ==
  /\ \E n \in 0..page_count :
       /\ \E s \in [1..n -> Pages] : Listing(n, s)
       /\ pc # "reset" => n = page_count
  /\ pc = "reset" => cur = all_mapped_pages

(* pagemap.c and the kernel agree on what is mapped: between calls         *)
(* exactly, inside one up to the part of the run that is still to do.      *)
KernelAgrees ==
  /\ pc = "map" => kernel = in_table \cup (cur..last)
  /\ pc = "unmap" => kernel = in_table \cup (first..(cur - 1))
  /\ pc \in {"idle", "reset"} => kernel = in_table

(* A run that is being mapped is not in the table yet, and the part of one *)
(* that was unmapped is no longer there.                                   *)
RunInv ==
  /\ pc = "map" => first >= 1 /\ cur >= first /\ cur..last \cap in_table = {}
  /\ pc = "unmap" => first >= 1 /\ cur >= first /\ cur <= last + 1
                       /\ first..(cur - 1) \cap in_table = {}

(* mem_map never meets a page that is mapped already.                      *)
NoDoubleMap == pc # "abort_map"

(* Every call returns or aborts: no walk of the list goes on forever.      *)
CallsEnd == pc \in {"map", "unmap", "reset"} ~> pc \in {"idle", "abort_unmap"}
=============================================================================
