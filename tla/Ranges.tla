------------------------------- MODULE Ranges -------------------------------
(***************************************************************************)
(* The range list with which mdriver.c checks the allocator it drives: the *)
(* extent of every payload handed out, newest first.                       *)
(***************************************************************************)
EXTENDS Integers, Sequences

(* mutant: only the lower end is looked at *)
Hits_low(lo, hi, r) == lo >= r.lo /\ lo <= r.hi

(* The overlap test of add_range, exactly as the driver writes it: one of  *)
(* the new payload's ends lies in a known range.                           *)
Hits(lo, hi, r) == (lo >= r.lo /\ lo <= r.hi) \/ (hi >= r.lo /\ hi <= r.hi)

pagemap_is_mapped(pages, page, p) == p \div page \in pages

(* assert(size > 0), the first thing add_range does: the driver aborts.    *)
Aborts(size) == size <= 0

(* Whether add_range accepts a payload that passes the assert, when the    *)
(* given pages are mapped.                                                 *)
Accepts(ranges, lo, size, page, pages) ==
  /\ lo % 16 = 0
  /\ \A i \in {n \in 0..(size - 1) : n % page = 0} : pagemap_is_mapped(pages, page, lo + i)
  /\ pagemap_is_mapped(pages, page, lo + size - 1)
  /\ \A i \in 1..Len(ranges) : ~Hits(lo, lo + size - 1, ranges[i])

add_range(ranges, lo, size) == <<[lo |-> lo, hi |-> lo + size - 1]>> \o ranges

(* mutant: the newest record goes, whatever its address *)
remove_range_newest(ranges, lo) == IF ranges = <<>> THEN ranges ELSE Tail(ranges)

(* remove_range unlinks the first record that starts at lo.                *)
remove_range(ranges, lo) ==
  LET found == {i \in 1..Len(ranges) : ranges[i].lo = lo}
      first == CHOOSE i \in found : \A j \in found : i <= j
  IN  IF found = {} THEN ranges
      ELSE SubSeq(ranges, 1, first - 1) \o SubSeq(ranges, first + 1, Len(ranges))

(* What the list is for: no two payloads share a byte.                     *)
Disjoint(r, s) == r.hi < s.lo \/ s.hi < r.lo
=============================================================================
