--------------------------- MODULE MDriverProofs ----------------------------
(***************************************************************************)
(* mm.c under eval_mm_valid, for any page size, growth factor, number of   *)
(* pages, set of blocks, request sizes and contents of the payloads.       *)
(***************************************************************************)
EXTENDS MDriver, MMProofs, SequenceTheorems

LiveIds(bl) == {i \in Ids : bl[i] # NoBlock}
Ptrs(bl) == {bl[i].ptr : i \in LiveIds(bl)}

(* The allocated blocks of h are the live blocks of the trace, one each,   *)
(* large enough and with what their owners stored.                         *)
Owned(h, bl, B, S) ==
  /\ bl \in [Ids -> [ptr : Nat, size : Nat]]
  /\ HeapOK(h, B, S, Ptrs(bl))
  /\ \A i, j \in LiveIds(bl) : bl[i].ptr = bl[j].ptr => i = j
  /\ \A i \in LiveIds(bl) :
       /\ bl[i].size \in Sizes /\ S[bl[i].ptr] >= bl[i].size + 8
       /\ \A a \in PayloadWords(bl[i].ptr, bl[i].size) : GET(h, a) = FillWord[i]

Extent(b) == [lo |-> b.ptr, hi |-> b.ptr + b.size - 1]

(* The range list is the live blocks, once each. *)
Known(rs, bl) ==
  /\ rs \in Seq([lo : Int, hi : Int])
  /\ \A k \in 1..Len(rs) : \E i \in LiveIds(bl) : rs[k] = Extent(bl[i])
  /\ \A i \in LiveIds(bl) : \E k \in 1..Len(rs) : rs[k] = Extent(bl[i])
  /\ \A k, l \in 1..Len(rs) : rs[k].lo = rs[l].lo => k = l

(* Inductive: the tiling, the free list and the contents of every payload  *)
(* hold together or not at all.                                            *)
DriverInv == valid = TRUE /\ Known(ranges, blocks) /\ \E B, S : Owned(heap, blocks, B, S)

-----------------------------------------------------------------------------
(* Payloads *)

LEMMA SizeIs == ASSUME NEW size \in Sizes PROVE size \in Nat /\ size >= 4 /\ size % 4 = 0
  <1>1. PICK n \in 1..(MaxPages * APAGE_SIZE) : size = 4 * n
    BY SizesAssumption
  <1>2. MaxPages * APAGE_SIZE \in Nat
    BY PageAssumption, MaxPagesAssumption
  <1>3. n \in Nat /\ n >= 1
    BY <1>2
  <1>4. (4 * n) % 4 = 0
    BY <1>3
  <1>5. QED
    BY <1>1, <1>3, <1>4

(* Two blocks share no byte. *)
LEMMA BlocksApart ==
  ASSUME NEW R, NEW B, NEW S, Layout(R, B, S), NEW b \in B, NEW c \in B, b # c
  PROVE  b + S[b] <= c \/ c + S[c] <= b
  <1>1. b \in Nat /\ c \in Nat
    BY DEF Layout, BlockOK
  <1>2. (b < c => b + S[b] <= c) /\ (c < b => c + S[c] <= b)
    BY DEF Layout
  <1>3. QED
    BY <1>1, <1>2

(* The words that an owner may use are words of its block. *)
LEMMA PayloadIn ==
  ASSUME NEW R, NEW B, NEW S, Layout(R, B, S), NEW b \in B, NEW size \in Nat, size % 4 = 0,
         S[b] >= size + 8
  PROVE  /\ PayloadWords(b, size) \subseteq Payload(S, b)
         /\ \A a \in PayloadWords(b, size) : a % 4 = 0
  <1>1. b \in Nat /\ b % 4 = 0 /\ S[b] \in Nat
    BY DEF Layout, BlockOK
  <1>2. ASSUME NEW a \in PayloadWords(b, size) PROVE a \in Payload(S, b) /\ a % 4 = 0
    <2>1. PICK w \in 0..((size \div 4) - 1) : a = b + 4 * w
      BY DEF PayloadWords
    <2>2. 4 * (size \div 4) = size
      OBVIOUS
    <2>3. w \in Nat /\ 4 * w + 4 <= size
      BY <2>2
    <2>4. (b + 4 * w) % 4 = 0
      BY <1>1, <2>3
    <2>5. QED
      BY <1>1, <2>1, <2>3, <2>4 DEF Payload
  <1>3. QED
    BY <1>2

(* b has been filled by i, and nothing else has changed.                   *)
Filled(h, g, B, S, A, b, i, size) ==
  /\ HeapOK(g, B, S, A) /\ SamePayloads(h, g, S, A \ {b})
  /\ \A a \in PayloadWords(b, size) : GET(g, a) = FillWord[i]

(* The owner's memset changes its own payload and nothing else. *)
LEMMA FillKeeps ==
  ASSUME NEW h, NEW B, NEW S, NEW A, HeapOK(h, B, S, A), NEW b \in A, NEW size \in Nat, size % 4 = 0,
         S[b] >= size + 8, NEW i, NEW g, g = Fill(h, i, b, size)
  PROVE  Filled(h, g, B, S, A, b, i, size)
  <1> DEFINE D == PayloadWords(b, size)
  <1>1. /\ A \subseteq B /\ b \in B /\ IsHeap(h) /\ PagesOK(h) /\ Layout(h.regions, B, S)
        /\ Marks(h, h.regions) /\ Tags(h, B, S, A) /\ FreeList(h, B \ A)
        /\ Merged(B, S, A) /\ InUse(h.regions, S, A) /\ ~h.fault
    BY DEF HeapOK, Sound, Stage
  <1>2. D \subseteq Payload(S, b) /\ \A a \in D : a % 4 = 0
    BY <1>1, PayloadIn
  <1>3. D \in SUBSET BlockWords(S, b) /\ b - 4 \notin D /\ b + S[b] - 8 \notin D
    <2>1. b \in Nat /\ S[b] \in Nat
      BY <1>1 DEF Layout, BlockOK
    <2>2. QED
      BY <1>2, <2>1 DEF Payload, BlockWords
  <1>4. \A a \in D : Mapped(h, a) /\ a \in WordAddrs
    BY <1>1, <1>2, <1>3, BlockMapped DEF Mapped
  <1> HIDE DEF D
  <1>5. g = [h EXCEPT !.mem = [a \in WordAddrs |-> IF a \in D THEN FillWord[i] ELSE @[a]]]
    BY DEF Fill, D
  <1>6. /\ g.mem = [a \in WordAddrs |-> IF a \in D THEN FillWord[i] ELSE h.mem[a]]
        /\ g.list = h.list /\ g.pages = h.pages /\ g.regions = h.regions /\ g.fault = h.fault
    BY <1>1, <1>5 DEF IsHeap
  <1>7. g = [mem |-> g.mem, list |-> g.list, pages |-> g.pages, regions |-> g.regions,
             fault |-> g.fault]
    BY <1>1, <1>5 DEF IsHeap
  <1>8. IsHeap(g)
    BY <1>6, <1>7 DEF IsHeap
  <1>9. \A a : Mapped(g, a) <=> Mapped(h, a)
    BY <1>6 DEF Mapped
  <1>10. \A a : a \notin D => GET(g, a) = GET(h, a)
    BY <1>6, <1>9 DEF GET, Mapped
  <1>11. \A a \in D : GET(g, a) = FillWord[i]
    BY <1>4, <1>6, <1>9 DEF GET
  <1>12. Writes(h, g, D)
    BY <1>6, <1>8, <1>10 DEF Writes
  <1>13. Tags(g, B \ {b}, S, A) /\ Marks(g, h.regions) /\ SamePayloads(h, g, S, A \ {b}) /\ FreeList(g, B \ A)
    <2>1. B \ {b} \in SUBSET (B \ {b}) /\ A \ {b} \in SUBSET (B \ {b}) /\ B \ A \in SUBSET B
          /\ b \notin B \ A /\ Tags(h, B \ {b}, S, A)
      BY <1>1 DEF Tags
    <2>2. /\ \A C \in SUBSET (B \ {b}) : \A E : Tags(h, C, S, E) => Tags(g, C, S, E)
          /\ Marks(h, h.regions) => Marks(g, h.regions)
          /\ \A E \in SUBSET (B \ {b}) : SamePayloads(h, g, S, E)
          /\ \A F \in SUBSET B : FreeList(h, F) /\ g.list = h.list /\ (b \in F => D \cap NodeWords(b) = {})
                                  => FreeList(g, F)
      BY <1>1, <1>3, <1>12, BlockFrame
    <2>3. QED
      BY <1>1, <1>6, <2>1, <2>2, Zenon
  <1>14. Tags(g, B, S, A)
    BY <1>1, <1>3, <1>10, <1>13 DEF Tags
  <1>15. PagesOK(g)
    BY <1>1, <1>12, PagesKept
  <1>16. HeapOK(g, B, S, A)
    BY <1>1, <1>6, <1>8, <1>13, <1>14, <1>15 DEF HeapOK, Sound, Stage
  <1>17. QED
    BY <1>11, <1>13, <1>16 DEF D, Filled

(* Every byte of a block is in a mapped page. *)
LEMMA BytesMapped ==
  ASSUME NEW h, NEW B, NEW S, NEW A, HeapOK(h, B, S, A), NEW b \in B, NEW a \in Nat,
         b <= a, a < b + S[b]
  PROVE  PageOf(a) \in h.pages
  <1>1. PagesOK(h) /\ Layout(h.regions, B, S)
    BY DEF HeapOK, Sound, Stage
  <1>2. PICK r \in h.regions : Lies(r, b, S[b])
    BY <1>1 DEF Layout
  <1>3. PICK n \in Nat, m \in Nat : r = <<APAGE_SIZE * n, APAGE_SIZE * m>>
    BY <1>1 DEF PagesOK
  <1>4. r[1] = APAGE_SIZE * n /\ r[2] = APAGE_SIZE * m
    BY <1>3
  <1>5. r[1] <= a /\ a < r[1] + r[2]
    <2>1. BlockOK(b, S[b]) /\ RegionOK(r)
      BY <1>1 DEF Layout
    <2>2. QED
      BY <1>2, <2>1 DEF Lies, BlockOK, RegionOK
  <1>6. PageOf(a) \in RangePages(r[1], r[2])
    <2>1. APAGE_SIZE * n <= a /\ a < APAGE_SIZE * n + APAGE_SIZE * m
      BY <1>4, <1>5
    <2>2. PageOf(a) \in RangePages(APAGE_SIZE * n, APAGE_SIZE * m)
      BY <2>1, RangeIs
    <2>3. QED
      BY <1>4, <2>2
  <1>7. QED
    BY <1>1, <1>6 DEF PagesOK

(* Ranges in allocated blocks other than b. *)
Elsewhere(rs, S, A, b) ==
  /\ rs \in Seq([lo : Int, hi : Int])
  /\ \A k \in 1..Len(rs) : \E c \in A \ {b} : rs[k].lo = c /\ rs[k].hi < c + S[c]

(* add_range accepts a payload in an allocated block when the ranges it    *)
(* knows are in other ones.                                                *)
LEMMA Admitted ==
  ASSUME NEW h, NEW B, NEW S, NEW A, HeapOK(h, B, S, A), NEW b \in A, NEW size \in Sizes,
         S[b] >= size + 8, NEW rs, Elsewhere(rs, S, A, b)
  PROVE  Admit(h, rs, b, size)
  <1>1. size \in Nat /\ size >= 4
    BY SizeIs
  <1>2. b \in B /\ A \subseteq B /\ Layout(h.regions, B, S)
    BY DEF HeapOK, Sound, Stage
  <1>3. b \in Nat /\ b % 16 = 0 /\ S[b] \in Nat
    BY <1>2 DEF Layout, BlockOK
  <1>4. ASSUME NEW x \in 0..(size - 1) PROVE pagemap_is_mapped(h.pages, APAGE_SIZE, b + x)
    <2>0. x \in Nat /\ x < size
      BY <1>1
    <2>1. b + x \in Nat /\ b <= b + x /\ b + x < b + S[b]
      BY <1>1, <1>3, <2>0
    <2>2. PageOf(b + x) \in h.pages
      BY <1>2, <2>1, BytesMapped
    <2>3. QED
      BY <2>2 DEF pagemap_is_mapped, PageOf
  <1>5. pagemap_is_mapped(h.pages, APAGE_SIZE, b + size - 1)
    <2>1. size - 1 \in 0..(size - 1) /\ b + (size - 1) = b + size - 1
      BY <1>1, <1>3
    <2>2. QED
      BY <1>4, <2>1
  <1>6. ASSUME NEW k \in 1..Len(rs) PROVE ~Hits(b, b + size - 1, rs[k])
    <2>1. PICK c \in A \ {b} : rs[k].lo = c /\ rs[k].hi < c + S[c]
      BY DEF Elsewhere
    <2>2. c \in B /\ (b + S[b] <= c \/ c + S[c] <= b)
      BY <1>2, BlocksApart
    <2>3. c \in Nat /\ S[c] \in Nat
      BY <1>2, <2>2 DEF Layout, BlockOK
    <2>4. rs[k].hi \in Int
      <3>1. rs[k] \in [lo : Int, hi : Int]
        BY ElementOfSeq DEF Elsewhere
      <3>2. QED
        BY <3>1
    <2>5. PICK x \in Int, y \in Int : x = rs[k].hi /\ y = c + S[c] /\ x < y
      BY <2>1, <2>3, <2>4
    <2>6. ~(b >= c /\ b <= x) /\ ~(b + size - 1 >= c /\ b + size - 1 <= x)
      <3>1. PICK e \in Int, z \in Int : e = b + size - 1 /\ z = b + S[b] /\ e < z /\ b <= e
        BY <1>1, <1>3
      <3>2. z <= c \/ y <= b
        BY <2>2, <2>5, <3>1
      <3>3. ~(b >= c /\ b <= x) /\ ~(e >= c /\ e <= x)
        BY <1>1, <2>3, <2>5, <3>1, <3>2, SMTT(30)
      <3>4. QED
        BY <3>1, <3>3
    <2>7. QED
      BY <2>1, <2>5, <2>6 DEF Hits
  <1>7. QED
    BY <1>3, <1>4, <1>5, <1>6 DEF Admit, Accepts

-----------------------------------------------------------------------------
(* The range list *)

Extents == [lo : Int, hi : Int]

(* remove_range takes out the record at lo and keeps all others. *)
LEMMA RemoveIs ==
  ASSUME NEW rs \in Seq(Extents), NEW f \in 1..Len(rs),
         \A k, l \in 1..Len(rs) : rs[k].lo = rs[l].lo => k = l,
         NEW left, left = remove_range(rs, rs[f].lo)
  PROVE  /\ left \in Seq(Extents) /\ Len(left) = Len(rs) - 1
         /\ \A n \in 1..Len(left) : left[n] = IF n < f THEN rs[n] ELSE rs[n + 1]
  <1> DEFINE found == {i \in 1..Len(rs) : rs[i].lo = rs[f].lo}
             first == CHOOSE i \in found : \A j \in found : i <= j
             a == SubSeq(rs, 1, f - 1)
             b == SubSeq(rs, f + 1, Len(rs))
  <1>1. found = {f} /\ f \in Nat /\ Len(rs) \in Nat
    OBVIOUS
  <1>2. first = f
    <2>1. \E i \in found : \A j \in found : i <= j
      BY <1>1
    <2>2. first \in found
      BY <2>1
    <2>3. QED
      BY <1>1, <2>2
  <1>3. left = a \o b
    BY <1>1, <1>2 DEF remove_range
  <1>4. /\ a \in Seq(Extents) /\ Len(a) = f - 1 /\ b \in Seq(Extents) /\ Len(b) = Len(rs) - f
        /\ \A n \in 1..(f - 1) : a[n] = rs[n]
        /\ \A n \in 1..(Len(rs) - f) : b[n] = rs[f + n]
    OBVIOUS
  <1> HIDE DEF a, b, found, first, Extents
  <1>5. /\ a \o b \in Seq(Extents) /\ Len(a \o b) = Len(a) + Len(b)
        /\ \A n \in 1..(Len(a) + Len(b)) : (a \o b)[n] = IF n <= Len(a) THEN a[n] ELSE b[n - Len(a)]
    <2>1. a \in Seq(Extents) /\ b \in Seq(Extents)
      BY <1>4
    <2>2. QED
      BY ONLY <2>1, ConcatProperties, ZenonT(60)
  <1>6. Len(a \o b) = Len(rs) - 1
    BY <1>1, <1>4, <1>5
  <1>7. ASSUME NEW n \in 1..(Len(rs) - 1) PROVE (a \o b)[n] = IF n < f THEN rs[n] ELSE rs[n + 1]
    <2>1. CASE n < f
      BY <1>1, <1>4, <1>5, <2>1
    <2>2. CASE ~(n < f)
      <3>1. n - (f - 1) \in 1..(Len(rs) - f) /\ f + (n - (f - 1)) = n + 1
        BY <1>1, <2>2
      <3>2. b[n - (f - 1)] = rs[n + 1]
        BY <1>4, <3>1
      <3>3. QED
        BY <1>1, <1>4, <1>5, <2>2, <3>2
    <2>3. QED
      BY <2>1, <2>2
  <1>8. QED
    BY <1>3, <1>5, <1>6, <1>7

(* add_range puts a record in front. *)
LEMMA AddIs ==
  ASSUME NEW rs \in Seq(Extents), NEW lo \in Int, NEW size \in Int,
         NEW more, more = add_range(rs, lo, size)
  PROVE  /\ more \in Seq(Extents) /\ Len(more) = Len(rs) + 1
         /\ \A n \in 1..Len(more) :
              more[n] = IF n = 1 THEN [lo |-> lo, hi |-> lo + size - 1] ELSE rs[n - 1]
  <1> DEFINE a == <<[lo |-> lo, hi |-> lo + size - 1]>>
  <1>1. a \in Seq(Extents) /\ Len(a) = 1 /\ a[1] = [lo |-> lo, hi |-> lo + size - 1]
    BY DEF Extents
  <1>2. more = a \o rs
    BY DEF add_range
  <1> HIDE DEF a
  <1>3. /\ a \o rs \in Seq(Extents) /\ Len(a \o rs) = Len(a) + Len(rs)
        /\ \A n \in 1..(Len(a) + Len(rs)) : (a \o rs)[n] = IF n <= Len(a) THEN a[n] ELSE rs[n - Len(a)]
    BY <1>1, ConcatProperties, Zenon
  <1>4. Len(rs) \in Nat
    OBVIOUS
  <1>5. Len(more) = Len(rs) + 1
    BY <1>1, <1>2, <1>3, <1>4
  <1>6. ASSUME NEW n \in 1..Len(more)
        PROVE  more[n] = IF n = 1 THEN [lo |-> lo, hi |-> lo + size - 1] ELSE rs[n - 1]
    BY <1>1, <1>2, <1>3, <1>4, <1>5
  <1>7. QED
    BY <1>2, <1>3, <1>5, <1>6

(* Block i gets an address, or loses it.                                   *)
Taken(bl, i, ptr, size) == [bl EXCEPT ![i] = [ptr |-> ptr, size |-> size]]
Dropped(bl, i) == [bl EXCEPT ![i] = NoBlock]

IsBlocks(bl) == bl \in [Ids -> [ptr : Nat, size : Nat]]
Distinct(bl) == \A k, l \in LiveIds(bl) : bl[k].ptr = bl[l].ptr => k = l

(* A free block's range is forgotten. *)
LEMMA KnownRemove ==
  ASSUME NEW rs, NEW bl, Known(rs, bl), IsBlocks(bl), NEW i \in LiveIds(bl),
         Distinct(bl), NEW b, b = bl[i].ptr, NEW cl, cl = Dropped(bl, i)
  PROVE  Known(remove_range(rs, b), cl)
  <1>1. /\ rs \in Seq(Extents)
        /\ \A k \in 1..Len(rs) : \E j \in LiveIds(bl) : rs[k] = Extent(bl[j])
        /\ \A j \in LiveIds(bl) : \E k \in 1..Len(rs) : rs[k] = Extent(bl[j])
        /\ \A k, l \in 1..Len(rs) : rs[k].lo = rs[l].lo => k = l
    BY DEF Known, Extents
  <1>2. PICK f \in 1..Len(rs) : rs[f] = Extent(bl[i])
    BY <1>1
  <1>3. rs[f].lo = bl[i].ptr
    BY <1>2 DEF Extent
  <1> DEFINE left == remove_range(rs, b)
  <1>4. left = remove_range(rs, rs[f].lo)
    BY <1>3
  <1> HIDE DEF left
  <1>5. /\ left \in Seq(Extents) /\ Len(left) = Len(rs) - 1
        /\ \A n \in 1..Len(left) : left[n] = IF n < f THEN rs[n] ELSE rs[n + 1]
    <2>1. rs \in Seq(Extents) /\ \A k, l \in 1..Len(rs) : rs[k].lo = rs[l].lo => k = l
      BY <1>1
    <2>2. f \in 1..Len(rs)
      OBVIOUS
    <2>3. \A ff \in 1..Len(rs) : \A l : l = remove_range(rs, rs[ff].lo) =>
             /\ l \in Seq(Extents) /\ Len(l) = Len(rs) - 1
             /\ \A n \in 1..Len(l) : l[n] = IF n < ff THEN rs[n] ELSE rs[n + 1]
      BY <2>1, RemoveIs
    <2>4. QED
      BY <2>2, <2>3, <1>4, Zenon
  <1>6. LiveIds(cl) = LiveIds(bl) \ {i} /\ \A j \in LiveIds(cl) : cl[j] = bl[j]
    BY DEF LiveIds, IsBlocks, Dropped
  <1>7. Len(rs) \in Nat /\ f \in Nat /\ 1 <= f /\ f <= Len(rs)
    BY <1>1
  <1>8. ASSUME NEW n \in 1..Len(left)
        PROVE  \E j \in 1..Len(rs) : j # f /\ left[n] = rs[j] /\ j = IF n < f THEN n ELSE n + 1
    <2>1. CASE n < f
      BY <1>5, <1>7, <2>1
    <2>2. CASE ~(n < f)
      BY <1>5, <1>7, <2>2
    <2>3. QED
      BY <2>1, <2>2
  <1>9. ASSUME NEW j \in 1..Len(rs), j # f PROVE \E n \in 1..Len(left) : left[n] = rs[j]
    <2>1. CASE j < f
      BY <1>5, <1>7, <2>1
    <2>2. CASE f < j
      <3>1. j - 1 \in 1..Len(left) /\ ~(j - 1 < f) /\ (j - 1) + 1 = j
        BY <1>5, <1>7, <2>2
      <3>2. QED
        BY <1>5, <3>1
    <2>3. QED
      BY <1>7, <1>9, <2>1, <2>2
  <1>10. ASSUME NEW n \in 1..Len(left) PROVE \E x \in LiveIds(cl) : left[n] = Extent(cl[x])
    <2>1. PICK j \in 1..Len(rs) : j # f /\ left[n] = rs[j]
      BY <1>8
    <2>2. PICK x \in LiveIds(bl) : rs[j] = Extent(bl[x])
      BY <1>1
    <2>3. x # i
      BY <1>1, <1>3, <2>1, <2>2 DEF Extent
    <2>4. QED
      BY <1>6, <2>1, <2>2, <2>3
  <1>11. ASSUME NEW x \in LiveIds(cl) PROVE \E n \in 1..Len(left) : left[n] = Extent(cl[x])
    <2>1. x \in LiveIds(bl) /\ x # i /\ cl[x] = bl[x]
      BY <1>6
    <2>2. PICK j \in 1..Len(rs) : rs[j] = Extent(bl[x])
      BY <1>1, <2>1
    <2>3. j # f
      <3>1. bl[x].ptr # bl[i].ptr
        BY <2>1 DEF Distinct
      <3>2. rs[j].lo # rs[f].lo
        BY <1>3, <2>2, <3>1 DEF Extent
      <3>3. QED
        BY <3>2
    <2>4. QED
      BY <1>9, <2>1, <2>2, <2>3
  <1>12. ASSUME NEW n \in 1..Len(left), NEW m \in 1..Len(left), left[n].lo = left[m].lo PROVE n = m
    <2>1. PICK j \in 1..Len(rs) : left[n] = rs[j] /\ j = IF n < f THEN n ELSE n + 1
      BY <1>8
    <2>2. PICK l \in 1..Len(rs) : left[m] = rs[l] /\ l = IF m < f THEN m ELSE m + 1
      BY <1>8
    <2>3. j = l
      BY <1>1, <1>12, <2>1, <2>2
    <2>4. n \in Nat /\ m \in Nat
      BY <1>5, <1>7
    <2>5. QED
      BY <1>7, <2>1, <2>2, <2>3, <2>4
  <1>13. QED
    BY <1>5, <1>10, <1>11, <1>12 DEF Known, Extents, left

(* A new block's range is added. *)
LEMMA KnownAdd ==
  ASSUME NEW rs, NEW bl, Known(rs, bl), IsBlocks(bl), NEW i \in Ids, bl[i] = NoBlock,
         NEW ptr \in Nat, ptr \notin Ptrs(bl), NEW size \in Nat, size # 0,
         NEW cl, cl = Taken(bl, i, ptr, size)
  PROVE  Known(add_range(rs, ptr, size), cl)
  <1>1. /\ rs \in Seq(Extents)
        /\ \A k \in 1..Len(rs) : \E j \in LiveIds(bl) : rs[k] = Extent(bl[j])
        /\ \A j \in LiveIds(bl) : \E k \in 1..Len(rs) : rs[k] = Extent(bl[j])
        /\ \A k, l \in 1..Len(rs) : rs[k].lo = rs[l].lo => k = l
    BY DEF Known, Extents
  <1> DEFINE more == add_range(rs, ptr, size)
             new == [lo |-> ptr, hi |-> ptr + size - 1]
  <1>2. more = add_range(rs, ptr, size)
    OBVIOUS
  <1> HIDE DEF more
  <1>3. /\ more \in Seq(Extents) /\ Len(more) = Len(rs) + 1
        /\ \A n \in 1..Len(more) : more[n] = IF n = 1 THEN new ELSE rs[n - 1]
    BY <1>1, <1>2, AddIs
  <1>4. cl[i] = [ptr |-> ptr, size |-> size] /\ cl[i] # NoBlock
    <2>1. cl[i] = [ptr |-> ptr, size |-> size]
      BY DEF IsBlocks, Taken
    <2>2. cl[i].size # NoBlock.size
      BY <2>1 DEF NoBlock
    <2>3. QED
      BY <2>1, <2>2
  <1>5. LiveIds(cl) = LiveIds(bl) \cup {i} /\ i \notin LiveIds(bl) /\ \A j \in LiveIds(bl) : cl[j] = bl[j]
    BY <1>4 DEF LiveIds, IsBlocks, Taken
  <1>6. Extent(cl[i]) = new /\ new.lo = ptr
    BY <1>4 DEF Extent
  <1> HIDE DEF new
  <1>7. Len(rs) \in Nat
    BY <1>1
  <1>8. \A n \in 1..Len(rs) : rs[n].lo # ptr
    <2> SUFFICES ASSUME NEW n \in 1..Len(rs) PROVE rs[n].lo # ptr
      OBVIOUS
    <2>1. PICK j \in LiveIds(bl) : rs[n] = Extent(bl[j])
      BY <1>1
    <2>2. QED
      BY <2>1 DEF Extent, Ptrs
  <1>9. ASSUME NEW n \in 1..Len(more) PROVE \E x \in LiveIds(cl) : more[n] = Extent(cl[x])
    <2>1. CASE n = 1
      BY <1>3, <1>5, <1>6, <2>1
    <2>2. CASE n # 1
      <3>1. n - 1 \in 1..Len(rs) /\ more[n] = rs[n - 1]
        BY <1>3, <1>7, <2>2
      <3>2. PICK x \in LiveIds(bl) : rs[n - 1] = Extent(bl[x])
        BY <1>1, <3>1
      <3>3. QED
        BY <1>5, <3>1, <3>2
    <2>3. QED
      BY <2>1, <2>2
  <1>10. ASSUME NEW x \in LiveIds(cl) PROVE \E n \in 1..Len(more) : more[n] = Extent(cl[x])
    <2>1. CASE x = i
      <3>1. 1 \in 1..Len(more)
        BY <1>3, <1>7
      <3>2. QED
        BY <1>3, <1>6, <2>1, <3>1
    <2>2. CASE x # i
      <3>1. PICK k \in 1..Len(rs) : rs[k] = Extent(bl[x])
        BY <1>1, <1>5, <2>2
      <3>2. k + 1 \in 1..Len(more) /\ k + 1 # 1 /\ (k + 1) - 1 = k
        BY <1>3, <1>7
      <3>3. more[k + 1] = rs[k]
        BY <1>3, <3>2
      <3>4. QED
        BY <1>5, <2>2, <3>1, <3>2, <3>3
    <2>3. QED
      BY <2>1, <2>2
  <1>11. ASSUME NEW n \in 1..Len(more), NEW m \in 1..Len(more), more[n].lo = more[m].lo PROVE n = m
    <2>1. n \in Nat /\ m \in Nat
      BY <1>3, <1>7
    <2>2. (n # 1 => n - 1 \in 1..Len(rs)) /\ (m # 1 => m - 1 \in 1..Len(rs))
      BY <1>3, <1>7
    <2>3. /\ more[n] = IF n = 1 THEN new ELSE rs[n - 1]
          /\ more[m] = IF m = 1 THEN new ELSE rs[m - 1]
      BY <1>3
    <2>4. n = 1 <=> m = 1
      BY <1>6, <1>8, <1>11, <2>2, <2>3
    <2>5. n # 1 => n - 1 = m - 1
      BY <1>1, <1>11, <2>2, <2>3, <2>4
    <2>6. QED
      BY <2>1, <2>4, <2>5
  <1>12. QED
    BY <1>3, <1>9, <1>10, <1>11 DEF Known, Extents, more

-----------------------------------------------------------------------------
(* The requests of a trace *)

(* The live blocks hold what their owners stored, whatever else is         *)
(* allocated in A.                                                         *)
Keeps(h, bl, S, A) ==
  \A j \in LiveIds(bl) :
    /\ bl[j].ptr \in A /\ bl[j].size \in Sizes /\ S[bl[j].ptr] >= bl[j].size + 8
    /\ \A a \in PayloadWords(bl[j].ptr, bl[j].size) : GET(h, a) = FillWord[j]

HasWords(h, i, b, size) == \A a \in PayloadWords(b, size) : GET(h, a) = FillWord[i]

(* In cl block i is b, in bl it was none.                                  *)
Put(bl, cl, i, b, size) ==
  /\ IsBlocks(cl) /\ cl[i].ptr = b /\ cl[i].size = size
  /\ LiveIds(cl) = LiveIds(bl) \cup {i} /\ i \notin LiveIds(bl)
  /\ \A j \in LiveIds(bl) : cl[j] = bl[j]
  /\ Ptrs(cl) = Ptrs(bl) \cup {b}

(* In cl block i is none, in bl it was b.                                  *)
Drop(bl, cl, i, b) ==
  /\ IsBlocks(cl) /\ cl[i] = NoBlock /\ Distinct(cl)
  /\ LiveIds(cl) = LiveIds(bl) \ {i} /\ \A j \in LiveIds(cl) : cl[j] = bl[j]
  /\ Ptrs(cl) = Ptrs(bl) \ {b}

(* The live blocks and their addresses when block i gets a new one.        *)
LEMMA PtrsPut ==
  ASSUME NEW bl, IsBlocks(bl), NEW i \in Ids, bl[i] = NoBlock, NEW b \in Nat, NEW size \in Nat, size # 0,
         NEW cl, cl = Taken(bl, i, b, size)
  PROVE  Put(bl, cl, i, b, size) /\ (Distinct(bl) /\ b \notin Ptrs(bl) => Distinct(cl))
  <1>1. cl[i] = [ptr |-> b, size |-> size] /\ cl[i].ptr = b /\ cl[i].size = size /\ cl[i] # NoBlock
    <2>1. cl[i] = [ptr |-> b, size |-> size]
      BY DEF IsBlocks, Taken
    <2>2. cl[i].size # NoBlock.size
      BY <2>1 DEF NoBlock
    <2>3. QED
      BY <2>1, <2>2
  <1>2. LiveIds(cl) = LiveIds(bl) \cup {i} /\ i \notin LiveIds(bl) /\ \A j \in LiveIds(bl) : cl[j] = bl[j]
    BY <1>1 DEF LiveIds, IsBlocks, Taken
  <1>3. Ptrs(cl) = Ptrs(bl) \cup {b}
    <2>1. \A j \in LiveIds(cl) : cl[j].ptr \in Ptrs(bl) \cup {b}
      BY <1>1, <1>2 DEF Ptrs
    <2>2. \A c \in Ptrs(bl) \cup {b} : \E j \in LiveIds(cl) : cl[j].ptr = c
      BY <1>1, <1>2 DEF Ptrs
    <2>3. \A c : c \in Ptrs(cl) <=> \E j \in LiveIds(cl) : cl[j].ptr = c
      BY DEF Ptrs
    <2>4. (\A c \in Ptrs(cl) : c \in Ptrs(bl) \cup {b}) /\ \A c \in Ptrs(bl) \cup {b} : c \in Ptrs(cl)
      BY <2>1, <2>2, <2>3, Zenon
    <2>5. QED
      BY <2>4, Zenon
  <1>4. IsBlocks(cl)
    BY DEF IsBlocks, Taken
  <1>5. Distinct(bl) /\ b \notin Ptrs(bl) => Distinct(cl)
    <2>1. b \notin Ptrs(bl) => \A k \in LiveIds(bl) : bl[k].ptr # b
      BY DEF Ptrs
    <2>2. QED
      BY <1>1, <1>2, <2>1 DEF Distinct
  <1>6. QED
    BY <1>1, <1>2, <1>3, <1>4, <1>5 DEF Put

(* The live blocks and their addresses when block i is freed.              *)
LEMMA PtrsDrop ==
  ASSUME NEW bl, IsBlocks(bl), NEW i \in LiveIds(bl), Distinct(bl),
         NEW b, b = bl[i].ptr, NEW cl, cl = Dropped(bl, i)
  PROVE  Drop(bl, cl, i, b)
  <1>1. IsBlocks(cl) /\ cl[i] = NoBlock
    BY DEF IsBlocks, Dropped, NoBlock, NULL, LiveIds
  <1>2. LiveIds(cl) = LiveIds(bl) \ {i} /\ \A j \in LiveIds(cl) : cl[j] = bl[j]
    BY DEF LiveIds, IsBlocks, Dropped
  <1>3. Distinct(cl)
    BY <1>2 DEF Distinct
  <1>4. Ptrs(cl) = Ptrs(bl) \ {bl[i].ptr}
    <2>1. \A c : c \in Ptrs(cl) <=> \E j \in LiveIds(cl) : cl[j].ptr = c
      BY DEF Ptrs
    <2>2. \A c : c \in Ptrs(bl) <=> \E j \in LiveIds(bl) : bl[j].ptr = c
      BY DEF Ptrs
    <2>3. \A j \in LiveIds(cl) : j \in LiveIds(bl) /\ cl[j].ptr = bl[j].ptr /\ bl[j].ptr # bl[i].ptr
      BY <1>2 DEF Distinct
    <2>4. \A c \in Ptrs(cl) : c \in Ptrs(bl) \ {bl[i].ptr}
      <3> SUFFICES ASSUME NEW c \in Ptrs(cl) PROVE c \in Ptrs(bl) /\ c # bl[i].ptr
        OBVIOUS
      <3>1. PICK j \in LiveIds(cl) : cl[j].ptr = c
        BY <2>1
      <3>2. QED
        BY <2>2, <2>3, <3>1
    <2>5. ASSUME NEW c \in Ptrs(bl) \ {bl[i].ptr} PROVE c \in Ptrs(cl)
      <3>1. PICK j \in LiveIds(bl) : bl[j].ptr = c
        BY <2>2
      <3>2. j \in LiveIds(cl) /\ cl[j].ptr = c
        BY <1>2, <3>1
      <3>3. QED
        BY <2>1, <3>2
    <2>6. QED
      BY <2>4, <2>5
  <1>5. QED
    BY <1>1, <1>2, <1>3, <1>4 DEF Drop

(* What a call leaves alone stays in the live blocks. *)
LEMMA KeepsOn ==
  ASSUME NEW h, NEW g, NEW bl, NEW B, NEW S, NEW C, NEW T, NEW A, NEW D, NEW cl,
         HeapOK(h, B, S, A), Keeps(h, bl, S, A), SamePayloads(h, g, S, D), D \subseteq A,
         \A c \in D : T[c] = S[c], LiveIds(cl) \subseteq LiveIds(bl),
         \A j \in LiveIds(cl) : cl[j] = bl[j] /\ bl[j].ptr \in D
  PROVE  Keeps(g, cl, T, D)
  <1> SUFFICES ASSUME NEW j \in LiveIds(cl)
               PROVE  /\ cl[j].ptr \in D /\ cl[j].size \in Sizes /\ T[cl[j].ptr] >= cl[j].size + 8
                      /\ \A a \in PayloadWords(cl[j].ptr, cl[j].size) : GET(g, a) = FillWord[j]
    BY DEF Keeps
  <1>1. PICK b, size : b = bl[j].ptr /\ size = bl[j].size
    OBVIOUS
  <1>2. /\ j \in LiveIds(bl) /\ cl[j].ptr = b /\ cl[j].size = size /\ b \in D /\ T[b] = S[b]
    BY <1>1
  <1>3. /\ b \in A /\ size \in Sizes /\ S[b] >= size + 8
        /\ \A a \in PayloadWords(b, size) : GET(h, a) = FillWord[j]
    BY <1>1, <1>2 DEF Keeps
  <1>4. PayloadWords(b, size) \subseteq Payload(S, b)
    <2>1. size \in Nat /\ size % 4 = 0
      BY <1>3, SizeIs
    <2>2. Layout(h.regions, B, S) /\ b \in B
      BY <1>3 DEF HeapOK, Sound, Stage
    <2>3. QED
      BY <1>3, <2>1, <2>2, PayloadIn
  <1>5. \A a \in PayloadWords(b, size) : GET(g, a) = FillWord[j]
    BY <1>2, <1>3, <1>4 DEF SamePayloads
  <1>6. QED
    BY <1>2, <1>3, <1>5

LEMMA OwnedKeeps ==
  ASSUME NEW h, NEW bl, NEW B, NEW S
  PROVE  Owned(h, bl, B, S) <=> /\ IsBlocks(bl) /\ HeapOK(h, B, S, Ptrs(bl))
                                /\ Keeps(h, bl, S, Ptrs(bl)) /\ Distinct(bl)
  BY DEF Owned, Keeps, IsBlocks, Ptrs, Distinct

(* mm_malloc for block i and the memset that follows: f is the heap then.  *)
Given(out, f, bl, i, size, S, C, T) ==
  LET D == Ptrs(bl) \cup {out.ptr}
  IN  /\ out.ptr \in Nat /\ out.ptr # NULL /\ out.ptr % 16 = 0 /\ out.ptr \in WordAddrs
      /\ out.ptr \notin Ptrs(bl)
      /\ HeapOK(out.heap, C, T, D) /\ HeapOK(f, C, T, D)
      /\ T[out.ptr] >= size + 8 /\ \A c \in Ptrs(bl) : T[c] = S[c]
      /\ \A a \in PayloadWords(out.ptr, size) : GET(f, a) = FillWord[i]
      /\ Keeps(f, bl, T, Ptrs(bl))

LEMMA Gives ==
  ASSUME NEW h, NEW bl, NEW B, NEW S, Owned(h, bl, B, S), NEW i \in Ids, NEW size \in Sizes,
         NEW out \in mm_malloc(h, size), NEW f, f = Fill(out.heap, i, out.ptr, size)
  PROVE  \E C, T : Given(out, f, bl, i, size, S, C, T)
  <1>1. size \in Nat /\ size % 4 = 0 /\ Fits(size)
    BY SizeIs, SizesAssumption
  <1>2. PICK A : A = Ptrs(bl)
    OBVIOUS
  <1>3. IsBlocks(bl) /\ HeapOK(h, B, S, A) /\ Keeps(h, bl, S, A)
    BY <1>2, OwnedKeeps
  <1>4. PICK b, g : b = out.ptr /\ g = out.heap
    OBVIOUS
  <1>5. /\ b \notin A /\ SamePayloads(h, g, S, A)
        /\ \E C, T : HeapOK(g, C, T, A \cup {b}) /\ T[b] >= size + 8 /\ \A c \in A : T[c] = S[c]
    <2>1. /\ out.ptr \notin A
          /\ \E C, T : /\ HeapOK(out.heap, C, T, A \cup {out.ptr})
                       /\ T[out.ptr] >= size + 8 /\ \A c \in A : T[c] = S[c]
          /\ SamePayloads(h, out.heap, S, A)
      BY <1>1, <1>3, MallocCorrect
    <2>2. QED
      BY <1>4, <2>1
  <1>6. PICK C, T : HeapOK(g, C, T, A \cup {b}) /\ T[b] >= size + 8 /\ \A c \in A : T[c] = S[c]
    BY <1>5
  <1>7. PICK D : D = A \cup {b}
    OBVIOUS
  <1>8. HeapOK(g, C, T, D) /\ b \in D /\ D \ {b} = A
    BY <1>5, <1>6, <1>7
  <1>9. f = Fill(g, i, b, size)
    BY <1>4
  <1>10. /\ HeapOK(f, C, T, D) /\ SamePayloads(g, f, T, D \ {b})
         /\ \A a \in PayloadWords(b, size) : GET(f, a) = FillWord[i]
    <2>1. T[b] >= size + 8
      BY <1>6
    <2>2. Filled(g, f, C, T, D, b, i, size)
      BY <1>1, <1>8, <1>9, <2>1, FillKeeps
    <2>3. QED
      BY <2>2 DEF Filled
  <1>11. SamePayloads(h, f, S, A)
    BY <1>5, <1>6, <1>8, <1>10 DEF SamePayloads, Payload
  <1>12. Keeps(f, bl, T, A)
    <2>1. \A j \in LiveIds(bl) : bl[j] = bl[j] /\ bl[j].ptr \in A
      BY <1>2 DEF Ptrs
    <2>2. A \subseteq A /\ LiveIds(bl) \subseteq LiveIds(bl)
      OBVIOUS
    <2>3. QED
      BY <1>3, <1>6, <1>11, <2>1, <2>2, KeepsOn
  <1>13. b \in Nat /\ b % 16 = 0 /\ b # NULL /\ b \in WordAddrs
    <2>1. PagesOK(g) /\ Layout(g.regions, C, T) /\ b \in C
      BY <1>8 DEF HeapOK, Sound, Stage
    <2>2. NodePlace(g, b)
      BY <2>1, BlockMapped
    <2>3. QED
      BY <2>2 DEF NodePlace, NodeWords, Mapped
  <1>14. Given(out, f, bl, i, size, S, C, T)
    BY <1>2, <1>4, <1>5, <1>6, <1>7, <1>8, <1>10, <1>12, <1>13 DEF Given
  <1>15. QED
    BY <1>14

(* The driver accepts what mm_malloc returns. *)
LEMMA Admits ==
  ASSUME NEW h, NEW f, NEW bl, NEW rs, NEW C, NEW T, NEW D, NEW b \in D, NEW size \in Sizes,
         HeapOK(h, C, T, D), T[b] >= size + 8, IsBlocks(bl), Known(rs, bl),
         Ptrs(bl) \subseteq D \ {b}, Keeps(f, bl, T, Ptrs(bl))
  PROVE  Admit(h, rs, b, size)
  <1>1. rs \in Seq([lo : Int, hi : Int])
    BY DEF Known
  <1>2. ASSUME NEW k \in 1..Len(rs) PROVE \E c \in D \ {b} : rs[k].lo = c /\ rs[k].hi < c + T[c]
    <2>1. PICK j \in LiveIds(bl) : rs[k] = Extent(bl[j])
      BY DEF Known
    <2>2. PICK c, n : c = bl[j].ptr /\ n = bl[j].size
      OBVIOUS
    <2>3. rs[k].lo = c /\ rs[k].hi = c + n - 1
      BY <2>1, <2>2 DEF Extent
    <2>4. c \in Ptrs(bl) /\ c \in Nat /\ n \in Nat
      BY <2>2 DEF Ptrs, LiveIds, IsBlocks
    <2>5. T[c] >= n + 8
      BY <2>2 DEF Keeps
    <2>6. T[c] \in Nat
      BY <2>4 DEF HeapOK, Sound, Stage, Layout, BlockOK
    <2>7. rs[k].hi < c + T[c]
      BY <2>3, <2>4, <2>5, <2>6
    <2>8. QED
      BY <2>3, <2>4, <2>7
  <1>3. Elsewhere(rs, T, D, b)
    BY <1>1, <1>2 DEF Elsewhere
  <1>4. QED
    BY <1>3, Admitted

(* Block i becomes b, filled by its owner. *)
LEMMA Takes ==
  ASSUME NEW f, NEW bl, IsBlocks(bl), NEW i \in Ids, bl[i] = NoBlock, NEW size \in Sizes,
         NEW b \in Nat, b \notin Ptrs(bl), NEW C, NEW T, HeapOK(f, C, T, Ptrs(bl) \cup {b}),
         T[b] >= size + 8, HasWords(f, i, b, size), Keeps(f, bl, T, Ptrs(bl)), Distinct(bl),
         NEW cl, cl = Taken(bl, i, b, size)
  PROVE  Owned(f, cl, C, T)
  <1>1. size \in Nat /\ size # 0
    BY SizeIs
  <1>2. PICK D : D = Ptrs(bl) \cup {b}
    OBVIOUS
  <1>3. /\ IsBlocks(cl) /\ cl[i].ptr = b /\ cl[i].size = size
        /\ LiveIds(cl) = LiveIds(bl) \cup {i} /\ i \notin LiveIds(bl)
        /\ \A j \in LiveIds(bl) : cl[j] = bl[j]
        /\ Ptrs(cl) = Ptrs(bl) \cup {b}
        /\ Distinct(cl)
    <2>1. Put(bl, cl, i, b, size) /\ (Distinct(bl) /\ b \notin Ptrs(bl) => Distinct(cl))
      BY <1>1, PtrsPut
    <2>2. QED
      BY <2>1 DEF Put
  <1>4. Keeps(f, cl, T, D)
    <2> SUFFICES ASSUME NEW j \in LiveIds(cl)
                 PROVE  /\ cl[j].ptr \in D /\ cl[j].size \in Sizes /\ T[cl[j].ptr] >= cl[j].size + 8
                        /\ \A a \in PayloadWords(cl[j].ptr, cl[j].size) : GET(f, a) = FillWord[j]
      BY DEF Keeps
    <2>1. CASE j = i
      BY <1>2, <1>3, <2>1 DEF HasWords
    <2>2. CASE j # i
      <3>1. j \in LiveIds(bl) /\ cl[j] = bl[j]
        BY <1>3, <2>2
      <3>2. QED
        BY <1>2, <3>1 DEF Keeps
    <2>3. QED
      BY <2>1, <2>2
  <1>5. HeapOK(f, C, T, D)
    BY <1>2
  <1>6. QED
    BY <1>2, <1>3, <1>4, <1>5, OwnedKeeps

(* A request of a new block is served. *)
LEMMA AllocServed ==
  ASSUME NEW h, NEW bl, NEW rs, NEW B, NEW S, Owned(h, bl, B, S), Known(rs, bl),
         NEW i \in Ids, bl[i] = NoBlock, NEW size \in Sizes,
         NEW out, NEW f, NEW C, NEW T, Given(out, f, bl, i, size, S, C, T),
         NEW cl, cl = Taken(bl, i, out.ptr, size)
  PROVE  /\ Admit(out.heap, rs, out.ptr, size) /\ Owned(f, cl, C, T)
         /\ Known(add_range(rs, out.ptr, size), cl)
  <1>1. PICK b, g, D : b = out.ptr /\ g = out.heap /\ D = Ptrs(bl) \cup {b}
    OBVIOUS
  <1>2. /\ b \in Nat /\ b \notin Ptrs(bl) /\ HeapOK(g, C, T, D) /\ HeapOK(f, C, T, D)
        /\ T[b] >= size + 8 /\ Keeps(f, bl, T, Ptrs(bl))
    BY <1>1 DEF Given
  <1>3. HasWords(f, i, b, size) /\ HeapOK(f, C, T, Ptrs(bl) \cup {b})
    BY <1>1 DEF Given, HasWords
  <1>4. IsBlocks(bl) /\ Distinct(bl)
    BY OwnedKeeps
  <1>5. size \in Nat /\ size # 0
    BY SizeIs
  <1>6. Admit(g, rs, b, size)
    <2>1. b \in D /\ Ptrs(bl) \subseteq D \ {b}
      BY <1>1, <1>2
    <2>2. QED
      BY <1>2, <1>4, <2>1, Admits
  <1>7. cl = Taken(bl, i, b, size)
    BY <1>1
  <1>8. Known(add_range(rs, b, size), cl)
    BY <1>2, <1>4, <1>5, <1>7, KnownAdd
  <1>9. Owned(f, cl, C, T)
    BY <1>2, <1>3, <1>4, <1>5, <1>7, Takes
  <1>10. QED
    BY <1>1, <1>6, <1>8, <1>9

(* b is no longer allocated. *)
Released(h, g, S, A, b, C, T) ==
  /\ HeapOK(g, C, T, A \ {b}) /\ \A c \in A \ {b} : T[c] = S[c]
  /\ SamePayloads(h, g, S, A \ {b})

LEMMA FreeReleases ==
  ASSUME NEW h, NEW B, NEW S, NEW A, HeapOK(h, B, S, A), NEW b \in A
  PROVE  \E C, T : Released(h, mm_free(h, b), S, A, b, C, T)
  <1>1. /\ \E C, T : HeapOK(mm_free(h, b), C, T, A \ {b}) /\ \A c \in A \ {b} : T[c] = S[c]
        /\ SamePayloads(h, mm_free(h, b), S, A \ {b})
    BY FreeCorrect
  <1>2. PICK C, T : HeapOK(mm_free(h, b), C, T, A \ {b}) /\ \A c \in A \ {b} : T[c] = S[c]
    BY <1>1
  <1>3. Released(h, mm_free(h, b), S, A, b, C, T)
    BY <1>1, <1>2 DEF Released
  <1>4. QED
    BY <1>3

(* Block b has been freed, the others are as they were.                    *)
Freed(h, g, cl, S, A, b, C, T) ==
  /\ HeapOK(g, C, T, A \ {b}) /\ Keeps(g, cl, T, Ptrs(cl))
  /\ SamePayloads(h, g, S, A \ {b}) /\ \A c \in A \ {b} : T[c] = S[c]

(* mm_free of block i leaves the others to their owners. *)
LEMMA Frees ==
  ASSUME NEW h, NEW bl, IsBlocks(bl), NEW i \in LiveIds(bl), NEW B, NEW S, NEW A,
         HeapOK(h, B, S, A), Ptrs(bl) \subseteq A, Keeps(h, bl, S, Ptrs(bl)), Distinct(bl),
         NEW b, b = bl[i].ptr, NEW cl, cl = Dropped(bl, i)
  PROVE  \E C, T : Freed(h, mm_free(h, b), cl, S, A, b, C, T)
  <1>1. b \in A
    BY DEF Ptrs
  <1>2. PICK g : g = mm_free(h, b)
    OBVIOUS
  <1>3. /\ LiveIds(cl) = LiveIds(bl) \ {i} /\ \A j \in LiveIds(cl) : cl[j] = bl[j]
        /\ Ptrs(cl) = Ptrs(bl) \ {b}
    <2>1. Drop(bl, cl, i, b)
      BY PtrsDrop
    <2>2. QED
      BY <1>1, <2>1 DEF Drop
  <1>4. PICK C, T : Released(h, g, S, A, b, C, T)
    BY <1>1, <1>2, FreeReleases
  <1>5. /\ HeapOK(g, C, T, A \ {b}) /\ \A c \in A \ {b} : T[c] = S[c]
        /\ SamePayloads(h, g, S, A \ {b})
    BY <1>4 DEF Released
  <1>6. Keeps(g, cl, T, Ptrs(cl))
    <2>1. PICK D : D = Ptrs(cl)
      OBVIOUS
    <2>2. /\ SamePayloads(h, g, S, D) /\ D \subseteq A /\ \A c \in D : T[c] = S[c]
          /\ LiveIds(cl) \subseteq LiveIds(bl)
      BY <1>3, <1>5, <2>1 DEF SamePayloads
    <2>3. \A j \in LiveIds(cl) : cl[j] = bl[j] /\ bl[j].ptr \in D
      BY <1>3, <2>1 DEF Ptrs
    <2>4. Keeps(h, bl, S, A)
      BY DEF Keeps
    <2>5. Keeps(g, cl, T, D)
      BY <2>2, <2>3, <2>4, KeepsOn
    <2>6. QED
      BY <2>1, <2>5
  <1>7. Freed(h, g, cl, S, A, b, C, T)
    BY <1>5, <1>6 DEF Freed
  <1>8. QED
    BY <1>2, <1>7

(* A request to free a block is served. *)
LEMMA FreeServed ==
  ASSUME NEW h, NEW bl, NEW rs, NEW B, NEW S, Owned(h, bl, B, S), Known(rs, bl),
         NEW i \in LiveIds(bl), NEW b, b = bl[i].ptr, NEW cl, cl = Dropped(bl, i)
  PROVE  /\ Known(remove_range(rs, b), cl)
         /\ \E C, T : Owned(mm_free(h, b), cl, C, T)
  <1>1. PICK A : A = Ptrs(bl)
    OBVIOUS
  <1>2. /\ IsBlocks(bl) /\ HeapOK(h, B, S, A) /\ Keeps(h, bl, S, Ptrs(bl)) /\ Ptrs(bl) \subseteq A
        /\ Distinct(bl)
    BY <1>1, OwnedKeeps
  <1>3. Known(remove_range(rs, b), cl)
    BY <1>2, KnownRemove
  <1>4. PICK C, T : Freed(h, mm_free(h, b), cl, S, A, b, C, T)
    BY <1>2, Frees
  <1>5. IsBlocks(cl) /\ Distinct(cl) /\ Ptrs(cl) = A \ {b}
    <2>1. Drop(bl, cl, i, b)
      BY <1>1, <1>2, PtrsDrop
    <2>2. QED
      BY <1>1, <2>1 DEF Drop
  <1>6. Owned(mm_free(h, b), cl, C, T)
    BY <1>4, <1>5, OwnedKeeps DEF Freed
  <1>7. QED
    BY <1>3, <1>6

(* A request to resize a block is served: the new block before the old one *)
(* is freed.                                                               *)
LEMMA ReallocServed ==
  ASSUME NEW h, NEW bl, NEW rs, NEW B, NEW S, Owned(h, bl, B, S), Known(rs, bl),
         NEW i \in LiveIds(bl), NEW size \in Sizes,
         NEW out, NEW f, NEW C, NEW T, Given(out, f, bl, i, size, S, C, T),
         NEW old, old = bl[i].ptr, NEW known, known = remove_range(rs, old),
         NEW cl, cl = Taken(bl, i, out.ptr, size)
  PROVE  /\ Admit(out.heap, known, out.ptr, size)
         /\ Known(add_range(known, out.ptr, size), cl)
         /\ \E E, V : Owned(mm_free(f, old), cl, E, V)
  <1>1. PICK b, g, D : b = out.ptr /\ g = out.heap /\ D = Ptrs(bl) \cup {b}
    OBVIOUS
  <1>2. /\ b \in Nat /\ b \notin Ptrs(bl) /\ HeapOK(g, C, T, D) /\ HeapOK(f, C, T, D)
        /\ T[b] >= size + 8 /\ Keeps(f, bl, T, Ptrs(bl)) /\ b \in D /\ Ptrs(bl) \subseteq D
    BY <1>1 DEF Given
  <1>3. HasWords(f, i, b, size)
    BY <1>1 DEF Given, HasWords
  <1>4. IsBlocks(bl) /\ Distinct(bl)
    BY OwnedKeeps
  <1>5. size \in Nat /\ size # 0 /\ size % 4 = 0 /\ i \in Ids
    BY SizeIs DEF LiveIds
  <1>6. PICK ml, k : ml = Dropped(bl, i) /\ k = mm_free(f, old)
    OBVIOUS
  <1>7. Known(known, ml)
    BY <1>4, <1>6, KnownRemove
  <1>8. /\ IsBlocks(ml) /\ ml[i] = NoBlock /\ Distinct(ml)
        /\ LiveIds(ml) = LiveIds(bl) \ {i} /\ \A j \in LiveIds(ml) : ml[j] = bl[j]
        /\ Ptrs(ml) = Ptrs(bl) \ {old}
    <2>1. Drop(bl, ml, i, old)
      BY <1>4, <1>6, PtrsDrop
    <2>2. QED
      BY <2>1 DEF Drop
  <1>9. PICK E, V : Freed(f, k, ml, T, D, old, E, V)
    BY <1>2, <1>4, <1>6, Frees
  <1>10. /\ HeapOK(k, E, V, D \ {old}) /\ Keeps(k, ml, V, Ptrs(ml))
         /\ SamePayloads(f, k, T, D \ {old}) /\ \A c \in D \ {old} : V[c] = T[c]
    BY <1>9 DEF Freed
  <1>11. old \in Ptrs(bl) /\ b # old /\ b \notin Ptrs(ml) /\ D \ {old} = Ptrs(ml) \cup {b}
    <2>1. old \in Ptrs(bl)
      BY DEF Ptrs
    <2>2. QED
      BY <1>1, <1>2, <1>8, <2>1
  <1>12. cl = Taken(ml, i, b, size)
    BY <1>1, <1>4, <1>6 DEF IsBlocks, Taken, Dropped
  <1>13. Known(add_range(known, b, size), cl)
    BY <1>2, <1>5, <1>7, <1>8, <1>11, <1>12, KnownAdd
  <1>14. Admit(g, known, b, size)
    <2>1. Ptrs(ml) \subseteq D \ {b}
      BY <1>2, <1>8
    <2>2. Keeps(f, ml, T, Ptrs(ml))
      <3>1. \A j \in LiveIds(ml) : j \in LiveIds(bl) /\ ml[j] = bl[j] /\ ml[j].ptr \in Ptrs(ml)
        BY <1>8 DEF Ptrs
      <3>2. QED
        BY <1>2, <3>1 DEF Keeps
    <2>3. QED
      BY <1>2, <1>7, <1>8, <2>1, <2>2, Admits
  <1>15. V[b] >= size + 8 /\ HasWords(k, i, b, size)
    <2>1. V[b] = T[b]
      BY <1>2, <1>10, <1>11
    <2>2. Layout(f.regions, C, T) /\ b \in C
      BY <1>2 DEF HeapOK, Sound, Stage
    <2>3. PayloadWords(b, size) \subseteq Payload(T, b)
      BY <1>2, <1>5, <2>2, PayloadIn
    <2>4. \A a \in Payload(T, b) : GET(k, a) = GET(f, a)
      BY <1>2, <1>10, <1>11 DEF SamePayloads
    <2>5. QED
      BY <1>2, <1>3, <2>1, <2>3, <2>4 DEF HasWords
  <1>16. Owned(k, cl, E, V)
    <2>1. HeapOK(k, E, V, Ptrs(ml) \cup {b})
      BY <1>10, <1>11
    <2>2. Keeps(k, ml, V, Ptrs(ml))
      BY <1>10
    <2>3. b \in Nat /\ b \notin Ptrs(ml) /\ i \in Ids /\ IsBlocks(ml) /\ ml[i] = NoBlock /\ Distinct(ml)
      BY <1>2, <1>5, <1>8, <1>11
    <2>4. QED
      BY <1>12, <1>15, <2>1, <2>2, <2>3, Takes
  <1>17. QED
    BY <1>1, <1>6, <1>13, <1>14, <1>16

(* The new payload shares no byte with a live one. *)
LEMMA GivenApart ==
  ASSUME NEW h, NEW bl, NEW B, NEW S, Owned(h, bl, B, S), NEW i, NEW size \in Sizes,
         NEW out, NEW f, NEW C, NEW T, Given(out, f, bl, i, size, S, C, T), NEW j \in LiveIds(bl)
  PROVE  out.ptr + size <= bl[j].ptr \/ bl[j].ptr + bl[j].size <= out.ptr
  <1>1. PICK b, D, c, n : b = out.ptr /\ D = Ptrs(bl) \cup {b} /\ c = bl[j].ptr /\ n = bl[j].size
    OBVIOUS
  <1>2. /\ b \in Nat /\ b \notin Ptrs(bl) /\ HeapOK(f, C, T, D)
        /\ T[b] >= size + 8 /\ Keeps(f, bl, T, Ptrs(bl))
    BY <1>1 DEF Given
  <1>3. c \in Ptrs(bl) /\ c # b /\ T[c] >= n + 8
    BY <1>1, <1>2 DEF Ptrs, Keeps
  <1>4. c \in Nat /\ n \in Nat
    BY <1>1, OwnedKeeps DEF IsBlocks, LiveIds
  <1>5. Layout(f.regions, C, T) /\ D \subseteq C
    BY <1>2 DEF HeapOK, Sound, Stage
  <1>6. b \in C /\ c \in C
    BY <1>1, <1>3, <1>5
  <1>7. b + T[b] <= c \/ c + T[c] <= b
    BY <1>3, <1>5, <1>6, BlocksApart
  <1>8. T[b] \in Nat /\ T[c] \in Nat
    BY <1>5, <1>6 DEF Layout, BlockOK
  <1>9. size \in Nat
    BY SizeIs
  <1>10. QED
    BY <1>1, <1>2, <1>3, <1>4, <1>7, <1>8, <1>9

-----------------------------------------------------------------------------
(* The steps of the driver *)

NoBlocks == [i \in Ids |-> NoBlock]

(* Without a page there is no block, and none is needed. *)
LEMMA NothingOwned ==
  ASSUME NEW g, IsHeap(g), g.list = NULL, g.pages = {}, g.regions = {}, ~g.fault
  PROVE  Known(<<>>, NoBlocks) /\ \E B, S : Owned(g, NoBlocks, B, S)
  <1>1. IsBlocks(NoBlocks) /\ LiveIds(NoBlocks) = {}
    BY DEF IsBlocks, LiveIds, NoBlocks, NoBlock, NULL
  <1>2. Ptrs(NoBlocks) = {}
    BY <1>1 DEF Ptrs
  <1>3. PICK S : S = [x \in {} |-> 0]
    OBVIOUS
  <1>4. FreeList(g, {})
    <2>1. PICK s : s \in [1..0 -> {}]
      <3>1. [x \in 1..0 |-> 0] \in [1..0 -> {}]
        OBVIOUS
      <3>2. QED
        BY <3>1
    <2>2. Chain(g, {}, 0, s)
      BY DEF Chain
    <2>3. QED
      BY <2>1, <2>2 DEF FreeList
  <1>5. PagesOK(g) /\ Layout({}, {}, S) /\ Marks(g, {}) /\ Tags(g, {}, S, {})
    BY DEF PagesOK, Layout, Marks, Tags
  <1>6. Stage(g, {}, S, {}, {}, {})
    BY <1>4, <1>5 DEF Stage
  <1>7. HeapOK(g, {}, S, {})
    <2>1. {} \ {} = {}
      OBVIOUS
    <2>2. Merged({}, S, {}) /\ InUse(g.regions, S, {})
      BY DEF Merged, InUse
    <2>3. QED
      BY <1>6, <2>1, <2>2 DEF HeapOK, Sound
  <1>8. Keeps(g, NoBlocks, S, {}) /\ Distinct(NoBlocks)
    BY <1>1 DEF Keeps, Distinct
  <1>9. Owned(g, NoBlocks, {}, S)
    BY <1>1, <1>2, <1>7, <1>8, OwnedKeeps
  <1>10. Known(<<>>, NoBlocks)
    <2>1. <<>> \in Seq([lo : Int, hi : Int]) /\ Len(<<>>) = 0
      OBVIOUS
    <2>2. QED
      BY <1>1, <2>1 DEF Known
  <1>11. QED
    BY <1>9, <1>10

LEMMA InitInv == ASSUME Init PROVE DriverInv /\ Abstract!Init
  <1>1. heap = mm_init(EmptyHeap) /\ blocks = NoBlocks /\ ranges = <<>> /\ valid = TRUE
    BY DEF Init, NoBlocks
  <1>2. /\ IsHeap(heap) /\ heap.list = NULL /\ heap.pages = {} /\ heap.regions = {} /\ ~heap.fault
    BY <1>1 DEF mm_init, EmptyHeap, IsHeap
  <1>3. Known(<<>>, NoBlocks) /\ \E B, S : Owned(heap, NoBlocks, B, S)
    BY <1>2, NothingOwned
  <1>4. Abstract!Init
    BY <1>1 DEF Abstract!Init, Abstract!None, NoBlocks, NoBlock, NULL
  <1>5. QED
    BY <1>1, <1>3, <1>4 DEF DriverInv

LEMMA NextTraceStep == ASSUME DriverInv, NextTrace PROVE DriverInv' /\ Abstract!Next
  <1>1. /\ heap' = mm_init(mem_reset(heap)) /\ blocks' = NoBlocks /\ ranges' = <<>> /\ valid' = TRUE
    BY DEF NextTrace, NoBlocks, DriverInv
  <1>2. IsHeap(heap) /\ ~heap.fault
    BY DEF DriverInv, Owned, HeapOK, Sound, Stage
  <1>3. /\ IsHeap(heap') /\ heap'.list = NULL /\ heap'.pages = {} /\ heap'.regions = {} /\ ~heap'.fault
    BY <1>1, <1>2 DEF mm_init, mem_reset, IsHeap
  <1>4. Known(<<>>, NoBlocks) /\ \E B, S : Owned(heap', NoBlocks, B, S)
    BY <1>3, NothingOwned
  <1>5. Abstract!Clear
    BY <1>1 DEF Abstract!Clear, Abstract!None, NoBlocks, NoBlock, NULL
  <1>6. QED
    BY <1>1, <1>4, <1>5 DEF DriverInv, Abstract!Next

(* A new payload as the abstract allocator gives it. *)
LEMMA PayloadGiven ==
  ASSUME NEW B, NEW S, Owned(heap, blocks, B, S), NEW i \in Ids, NEW size \in Sizes,
         NEW out, NEW f, NEW C, NEW T, Given(out, f, blocks, i, size, S, C, T),
         blocks' = Taken(blocks, i, out.ptr, size)
  PROVE  Abstract!Next
  <1>1. out.ptr \in WordAddrs /\ out.ptr % 16 = 0
    BY DEF Given
  <1>2. \A j \in Ids : Abstract!Live(j) => j \in LiveIds(blocks)
    BY DEF Abstract!Live, Abstract!None, LiveIds, NoBlock, NULL
  <1>3. Abstract!Apart(out.ptr, size)
    BY <1>2, GivenApart DEF Abstract!Apart
  <1>4. Abstract!Allocate(i, size)
    BY <1>1, <1>3 DEF Abstract!Allocate, Taken
  <1>5. QED
    BY <1>4 DEF Abstract!Next

LEMMA AllocStep ==
  ASSUME DriverInv, NEW i \in Ids, NEW size \in Sizes, Alloc(i, size)
  PROVE  DriverInv' /\ Abstract!Next
  <1>1. PICK B, S : Owned(heap, blocks, B, S) /\ Known(ranges, blocks) /\ valid = TRUE
    BY DEF DriverInv
  <1>2. blocks[i] = NoBlock
    BY DEF Alloc
  <1>3. PICK out \in mm_malloc(heap, size) :
          IF Admit(out.heap, ranges, out.ptr, size)
          THEN /\ ranges' = add_range(ranges, out.ptr, size)
               /\ heap' = Fill(out.heap, i, out.ptr, size)
               /\ blocks' = Taken(blocks, i, out.ptr, size)
               /\ UNCHANGED valid
          ELSE heap' = out.heap /\ valid' = FALSE /\ UNCHANGED <<blocks, ranges>>
    BY DEF Alloc, Taken
  <1>4. PICK f, cl : f = Fill(out.heap, i, out.ptr, size) /\ cl = Taken(blocks, i, out.ptr, size)
    OBVIOUS
  <1>5. PICK C, T : Given(out, f, blocks, i, size, S, C, T)
    BY <1>1, <1>4, Gives
  <1>6. /\ Admit(out.heap, ranges, out.ptr, size) /\ Owned(f, cl, C, T)
        /\ Known(add_range(ranges, out.ptr, size), cl)
    BY <1>1, <1>2, <1>4, <1>5, AllocServed
  <1>7. /\ ranges' = add_range(ranges, out.ptr, size) /\ heap' = f /\ blocks' = cl /\ valid' = TRUE
    BY <1>1, <1>3, <1>4, <1>6
  <1>8. DriverInv'
    BY <1>6, <1>7 DEF DriverInv
  <1>9. Abstract!Next
    BY <1>1, <1>4, <1>5, <1>7, PayloadGiven
  <1>10. QED
    BY <1>8, <1>9

LEMMA ReallocStep ==
  ASSUME DriverInv, NEW i \in Ids, NEW size \in Sizes, Realloc(i, size)
  PROVE  DriverInv' /\ Abstract!Next
  <1>1. PICK B, S : Owned(heap, blocks, B, S) /\ Known(ranges, blocks) /\ valid = TRUE
    BY DEF DriverInv
  <1>2. i \in LiveIds(blocks)
    BY DEF Realloc, LiveIds
  <1>3. PICK old, known : old = blocks[i].ptr /\ known = remove_range(ranges, old)
    OBVIOUS
  <1>4. PICK out \in mm_malloc(heap, size) :
          IF Admit(out.heap, known, out.ptr, size)
          THEN /\ ranges' = add_range(known, out.ptr, size)
               /\ heap' = mm_free(Fill(out.heap, i, out.ptr, size), old)
               /\ blocks' = Taken(blocks, i, out.ptr, size)
               /\ UNCHANGED valid
          ELSE heap' = out.heap /\ valid' = FALSE /\ UNCHANGED blocks
    BY <1>3 DEF Realloc, Taken
  <1>5. PICK f, cl : f = Fill(out.heap, i, out.ptr, size) /\ cl = Taken(blocks, i, out.ptr, size)
    OBVIOUS
  <1>6. PICK C, T : Given(out, f, blocks, i, size, S, C, T)
    BY <1>1, <1>5, Gives
  <1>7. /\ Admit(out.heap, known, out.ptr, size) /\ Known(add_range(known, out.ptr, size), cl)
        /\ \E E, V : Owned(mm_free(f, old), cl, E, V)
    BY <1>1, <1>2, <1>3, <1>5, <1>6, ReallocServed
  <1>8. /\ ranges' = add_range(known, out.ptr, size) /\ heap' = mm_free(f, old) /\ blocks' = cl
        /\ valid' = TRUE
    BY <1>1, <1>4, <1>5, <1>7
  <1>9. DriverInv'
    BY <1>7, <1>8 DEF DriverInv
  <1>10. Abstract!Next
    BY <1>1, <1>5, <1>6, <1>8, PayloadGiven
  <1>11. QED
    BY <1>9, <1>10

LEMMA FreeStep == ASSUME DriverInv, NEW i \in Ids, Free(i) PROVE DriverInv' /\ Abstract!Next
  <1>1. PICK B, S : Owned(heap, blocks, B, S) /\ Known(ranges, blocks) /\ valid = TRUE
    BY DEF DriverInv
  <1>2. i \in LiveIds(blocks)
    BY DEF Free, LiveIds
  <1>3. PICK b, cl : b = blocks[i].ptr /\ cl = Dropped(blocks, i)
    OBVIOUS
  <1>4. Known(remove_range(ranges, b), cl) /\ \E C, T : Owned(mm_free(heap, b), cl, C, T)
    BY <1>1, <1>2, <1>3, FreeServed
  <1>5. /\ ranges' = remove_range(ranges, b) /\ heap' = mm_free(heap, b) /\ blocks' = cl /\ valid' = TRUE
    BY <1>1, <1>3 DEF Free, Dropped
  <1>6. DriverInv'
    BY <1>4, <1>5 DEF DriverInv
  <1>7. Abstract!Release(i)
    <2>1. blocks[i] # NoBlock /\ blocks' = [blocks EXCEPT ![i] = NoBlock]
      BY DEF Free
    <2>2. QED
      BY <2>1 DEF Abstract!Release, Abstract!Live, Abstract!None, NoBlock, NULL
  <1>8. QED
    BY <1>6, <1>7 DEF Abstract!Next

LEMMA NextInv == ASSUME DriverInv, [Next]_vars PROVE DriverInv' /\ [Abstract!Next]_blocks
  <1>1. CASE UNCHANGED vars
    BY <1>1 DEF vars, DriverInv
  <1>2. CASE Next
    <2>1. CASE \E i \in Ids : \E size \in Sizes : Alloc(i, size)
      BY <2>1, AllocStep
    <2>2. CASE \E i \in Ids : \E size \in Sizes : Realloc(i, size)
      BY <2>2, ReallocStep
    <2>3. CASE \E i \in Ids : Free(i)
      BY <2>3, FreeStep
    <2>4. CASE NextTrace
      BY <2>4, NextTraceStep
    <2>5. QED
      BY <1>2, <2>1, <2>2, <2>3, <2>4 DEF Next
  <1>3. QED
    BY <1>1, <1>2

(* The inductive invariant holds of the driver and the allocator.          *)
THEOREM DriverSound == Spec => []DriverInv
  BY InitInv, NextInv, PTL DEF Spec

(* mm.c, driven by any trace, implements malloc and free as Malloc states  *)
(* them: payloads are aligned and share no byte, and no call moves or      *)
(* resizes another.                                                        *)
THEOREM AllocatorImplementsMalloc == Spec => Implements
  <1>1. DriverInv /\ [Next]_vars => [Abstract!Next]_blocks
    BY NextInv
  <1>2. Init => Abstract!Init
    BY InitInv
  <1>3. QED
    BY <1>1, <1>2, DriverSound, PTL DEF Spec, Implements, Abstract!Spec

-----------------------------------------------------------------------------
(* What the invariant says of the heap's blocks *)

(* Nothing is written outside the pages, mem_unmap is never called wrongly *)
(* and eval_mm_valid refuses no payload, whatever the trace.               *)
THEOREM AllocatorNeverCaught == Spec => []NeverCaught
  <1>1. DriverInv => NeverCaught
    BY DEF DriverInv, Owned, HeapOK, NeverCaught
  <1>2. QED
    BY <1>1, DriverSound, PTL

(* The driver's range list is the live payloads, and they are disjoint.    *)
THEOREM DriverRanges == Spec => []RangesAreBlocks
  <1>1. ASSUME DriverInv PROVE RangesAreBlocks
    <2>1. PICK B, S : Owned(heap, blocks, B, S) /\ Known(ranges, blocks)
      BY <1>1 DEF DriverInv
    <2>2. /\ IsBlocks(blocks) /\ HeapOK(heap, B, S, Ptrs(blocks)) /\ Keeps(heap, blocks, S, Ptrs(blocks))
          /\ Distinct(blocks)
      BY <2>1, OwnedKeeps
    <2>3. /\ \A k \in 1..Len(ranges) : \E i \in LiveIds(blocks) : ranges[k] = Extent(blocks[i])
          /\ \A i \in LiveIds(blocks) : \E k \in 1..Len(ranges) : ranges[k] = Extent(blocks[i])
          /\ \A k, l \in 1..Len(ranges) : ranges[k].lo = ranges[l].lo => k = l
      BY <2>1 DEF Known
    <2>4. \A i \in LiveIds(blocks) : /\ Extent(blocks[i]).lo = blocks[i].ptr
                                     /\ Extent(blocks[i]).hi = blocks[i].ptr + blocks[i].size - 1
      BY DEF Extent
    <2>5. LiveIds(blocks) = {j \in Ids : blocks[j] # NoBlock}
      BY DEF LiveIds
    <2>6. {<<ranges[k].lo, ranges[k].hi>> : k \in 1..Len(ranges)} =
            {<<blocks[i].ptr, blocks[i].ptr + blocks[i].size - 1>> : i \in LiveIds(blocks)}
      <3>1. ASSUME NEW k \in 1..Len(ranges)
            PROVE  \E i \in LiveIds(blocks) :
                     <<ranges[k].lo, ranges[k].hi>> = <<blocks[i].ptr, blocks[i].ptr + blocks[i].size - 1>>
        BY <2>3, <2>4
      <3>2. ASSUME NEW i \in LiveIds(blocks)
            PROVE  \E k \in 1..Len(ranges) :
                     <<ranges[k].lo, ranges[k].hi>> = <<blocks[i].ptr, blocks[i].ptr + blocks[i].size - 1>>
        BY <2>3, <2>4
      <3>3. QED
        BY <3>1, <3>2, SMTT(30)
    <2>7. ASSUME NEW k \in 1..Len(ranges), NEW l \in 1..Len(ranges), k # l
          PROVE  Disjoint(ranges[k], ranges[l])
      <3>1. PICK i \in LiveIds(blocks) : ranges[k] = Extent(blocks[i])
        BY <2>3
      <3>2. PICK j \in LiveIds(blocks) : ranges[l] = Extent(blocks[j])
        BY <2>3
      <3>3. PICK b, c, m, n : /\ b = blocks[i].ptr /\ m = blocks[i].size
                              /\ c = blocks[j].ptr /\ n = blocks[j].size
        OBVIOUS
      <3>4. /\ ranges[k].lo = b /\ ranges[k].hi = b + m - 1
            /\ ranges[l].lo = c /\ ranges[l].hi = c + n - 1
        BY <2>4, <3>1, <3>2, <3>3
      <3>5. b # c
        BY <2>3, <2>7, <3>4
      <3>6. b \in Nat /\ c \in Nat /\ m \in Nat /\ n \in Nat
        BY <2>2, <3>3 DEF IsBlocks, LiveIds
      <3>7. b \in Ptrs(blocks) /\ c \in Ptrs(blocks) /\ S[b] >= m + 8 /\ S[c] >= n + 8
        BY <2>2, <3>3 DEF Keeps
      <3>8. Layout(heap.regions, B, S) /\ b \in B /\ c \in B
        BY <2>2, <3>7 DEF HeapOK, Sound, Stage
      <3>9. b + S[b] <= c \/ c + S[c] <= b
        BY <3>5, <3>8, BlocksApart
      <3>10. S[b] \in Nat /\ S[c] \in Nat
        BY <3>8 DEF Layout, BlockOK
      <3>11. ranges[k].hi < ranges[l].lo \/ ranges[l].hi < ranges[k].lo
        BY <3>4, <3>6, <3>7, <3>9, <3>10, SMTT(30)
      <3>12. QED
        BY <3>11 DEF Disjoint
    <2>8. QED
      BY <2>5, <2>6, <2>7 DEF RangesAreBlocks
  <1>2. QED
    BY <1>1, DriverSound, PTL

(* f[0], f[1], ..., f[n] is x, step[x], step[step[x]], ... *)
Walks(f, n, X, step, x) == f \in [0..n -> X] /\ f[0] = x /\ \A k \in 1..n : f[k] = step[f[k - 1]]

(* A walk of n steps exists. *)
LEMMA Iterates ==
  ASSUME NEW X, NEW step, step \in [X -> X], NEW x \in X, NEW N \in Nat
  PROVE  \E f : Walks(f, N, X, step, x)
  <1> DEFINE Walk(n, f) == f \in [0..n -> X] /\ f[0] = x /\ \A k \in 1..n : f[k] = step[f[k - 1]]
             Bad == {n \in Nat : ~\E f : Walk(n, f)}
  <1>1. Bad = {}
    <2> SUFFICES ASSUME Bad # {} PROVE FALSE
      OBVIOUS
    <2>1. Bad \in SUBSET Nat
      OBVIOUS
    <2> HIDE DEF Bad
    <2>2. PICK m \in Bad : \A n \in Bad : m <= n
      BY <2>1, LeastNat
    <2>3. m \in Nat /\ ~\E f : Walk(m, f)
      BY DEF Bad
    <2>4. m # 0
      <3>1. Walk(0, [k \in 0..0 |-> x])
        OBVIOUS
      <3> HIDE DEF Walk
      <3>2. QED
        BY <2>3, <3>1
    <2>5. m - 1 \in Nat /\ m - 1 \notin Bad
      BY <2>2, <2>3, <2>4
    <2>6. PICK f : Walk(m - 1, f)
      BY <2>5 DEF Bad
    <2> DEFINE g == [k \in 0..m |-> IF k = m THEN step[f[m - 1]] ELSE f[k]]
    <2>7. \A k \in 0..(m - 1) : f[k] \in X
      BY <2>6
    <2>8. g \in [0..m -> X]
      BY <2>3, <2>5, <2>7
    <2>9. g[0] = x
      BY <2>3, <2>4, <2>6
    <2>10. ASSUME NEW k \in 1..m PROVE g[k] = step[g[k - 1]]
      <3>1. k - 1 \in 0..m /\ k - 1 # m /\ k \in 0..m
        BY <2>3
      <3>2. g[k - 1] = f[k - 1]
        BY <3>1
      <3>3. CASE k = m
        BY <3>1, <3>2, <3>3
      <3>4. CASE k # m
        <4>1. k \in 1..(m - 1)
          BY <2>3, <3>4
        <4>2. QED
          BY <2>6, <3>1, <3>2, <3>4, <4>1
      <3>5. QED
        BY <3>3, <3>4
    <2> HIDE DEF g
    <2>11. Walk(m, g)
      BY <2>8, <2>9, <2>10
    <2> HIDE DEF Walk
    <2>12. QED
      BY <2>3, <2>11
  <1>2. N \notin Bad
    BY <1>1
  <1>3. PICK f : Walk(N, f)
    BY <1>2
  <1>4. QED
    BY <1>3 DEF Walks

(* A region is no larger than the address space. *)
LEMMA RegionBound ==
  ASSUME NEW h, PagesOK(h), NEW r \in h.regions
  PROVE  r[1] >= APAGE_SIZE /\ r[1] + r[2] <= APAGE_SIZE + MaxPages * APAGE_SIZE
  <1>1. APAGE_SIZE \in Nat /\ APAGE_SIZE > 0 /\ MaxPages \in Nat
    BY PageAssumption, MaxPagesAssumption
  <1>2. PICK n \in Nat, m \in Nat : m >= 1 /\ r = <<APAGE_SIZE * n, APAGE_SIZE * m>>
    BY DEF PagesOK
  <1>3. r[1] = APAGE_SIZE * n /\ r[2] = APAGE_SIZE * m
    BY <1>2
  <1>4. RangePages(r[1], r[2]) = n..(n + m - 1)
    BY <1>3, RangeIs
  <1>5. RangePages(r[1], r[2]) \subseteq 1..MaxPages
    BY DEF PagesOK, Pages
  <1>6. n \in 1..MaxPages /\ n + m - 1 \in 1..MaxPages
    <2>1. n \in n..(n + m - 1) /\ n + m - 1 \in n..(n + m - 1)
      BY <1>2
    <2>2. QED
      BY <1>4, <1>5, <2>1
  <1>7. APAGE_SIZE <= APAGE_SIZE * n /\ APAGE_SIZE * (n + m) <= APAGE_SIZE * (1 + MaxPages)
    BY <1>1, <1>6
  <1>8. /\ APAGE_SIZE * (n + m) = APAGE_SIZE * n + APAGE_SIZE * m
        /\ APAGE_SIZE * (1 + MaxPages) = APAGE_SIZE + MaxPages * APAGE_SIZE
    BY <1>1
  <1>9. QED
    BY <1>3, <1>7, <1>8

(* The walk from header to header meets exactly the blocks of the region.  *)
LEMMA WalkIs ==
  ASSUME NEW B, NEW S, NEW A, Sound(heap, B, S, A), NEW r \in heap.regions
  PROVE  BlocksOf(r) = {b \in B : Lies(r, b, S[b])}
  <1> DEFINE W == {b \in B : Lies(r, b, S[b])}
             base == r[1]
             end == r[1] + r[2]
             Eq(f) == f = [n \in 0..MaxNodes |->
                             IF n = 0 THEN base + PRE_OCCUPIED
                             ELSE IF f[n - 1] = NULL THEN NULL
                             ELSE LET next == NEXT_BLKP(heap, f[n - 1])
                                  IN  IF next > f[n - 1] /\ next < end THEN next ELSE NULL]
             bp == CHOOSE f : Eq(f)
             X == W \cup {NULL}
  <1>1. /\ PagesOK(heap) /\ Layout(heap.regions, B, S) /\ Tags(heap, B, S, A)
    BY DEF Sound, Stage
  <1>2. RegionOK(r) /\ base + 16 \in B /\ MaxNodes \in Nat
    BY <1>1, MaxNodesNat DEF Layout
  <1>3. \A b \in B : b \in Nat /\ S[b] \in Nat /\ S[b] >= 32 /\ NEXT_BLKP(heap, b) = b + S[b]
    <2>1. \A b \in B : NEXT_BLKP(heap, b) = b + S[b]
      BY <1>1, ReadTags
    <2>2. \A b \in B : b \in Nat /\ S[b] \in Nat /\ S[b] >= 32
      BY <1>1 DEF Layout, BlockOK
    <2>3. QED
      BY <2>1, <2>2
  <1>4. base \in Nat /\ end \in Nat /\ r[2] \in Nat
    BY <1>2 DEF RegionOK
  <1>5. base + 16 \in W /\ NULL \notin W
    <2>1. PICK q \in heap.regions : Lies(q, base + 16, S[base + 16])
      BY <1>1, <1>2 DEF Layout
    <2>2. RegionOK(q) /\ (q # r => r[1] + r[2] <= q[1] \/ q[1] + q[2] <= r[1])
      BY <1>1 DEF Layout
    <2>3. S[base + 16] \in Nat /\ S[base + 16] >= 32
      BY <1>2, <1>3
    <2>4. q = r
      BY <1>2, <2>1, <2>2, <2>3 DEF Lies, RegionOK
    <2>5. NULL \notin W
      BY <1>4 DEF Lies, NULL
    <2>6. QED
      BY <1>2, <2>1, <2>4, <2>5
  <1>6. ASSUME NEW b \in W
        PROVE  /\ NEXT_BLKP(heap, b) = b + S[b] /\ b + S[b] > b
               /\ b + S[b] < end <=> b + S[b] \in W
               /\ b + S[b] \in W <=> b + S[b] \in B
    <2>1. b \in B /\ Lies(r, b, S[b]) /\ b \in Nat /\ S[b] \in Nat /\ S[b] >= 32
      BY <1>3
    <2>2. b + S[b] \in B \/ b + S[b] = end
      BY <1>1, <2>1 DEF Layout
    <2>3. b + S[b] \in B => Lies(r, b + S[b], S[b + S[b]])
      BY <1>1, <2>1, SameRegion
    <2>4. b + S[b] \in B => b + S[b] < end
      <3>1. SUFFICES ASSUME b + S[b] \in B PROVE b + S[b] < end
        OBVIOUS
      <3>2. PICK c : c = b + S[b]
        OBVIOUS
      <3>3. c \in Nat /\ S[c] \in Nat /\ S[c] >= 32 /\ Lies(r, c, S[c])
        BY <1>3, <2>3, <3>1, <3>2
      <3>4. QED
        BY <1>4, <3>2, <3>3 DEF Lies
    <2>5. QED
      BY <1>3, <1>4, <2>1, <2>2, <2>3, <2>4
  <1>7. PICK step : step = [b \in X |-> IF b # NULL /\ b + S[b] \in W THEN b + S[b] ELSE NULL]
    OBVIOUS
  <1>8. step \in [X -> X] /\ base + 16 \in X
    BY <1>5, <1>7
  <1> HIDE DEF W
  <1>9. PICK f \in [0..MaxNodes -> X] : f[0] = base + 16 /\ \A k \in 1..MaxNodes : f[k] = step[f[k - 1]]
    <2>1. PICK Y : Y = X
      OBVIOUS
    <2>2. PICK x \in Y, N \in Nat : x = base + 16 /\ N = MaxNodes
      BY <1>2, <1>8, <2>1
    <2>3. step \in [Y -> Y]
      BY <1>8, <2>1
    <2> HIDE DEF X, base
    <2>4. PICK f : Walks(f, N, Y, step, x)
      BY ONLY <2>3, Iterates
    <2>5. QED
      BY <2>1, <2>2, <2>4 DEF Walks
  <1>10. ASSUME NEW k \in 1..MaxNodes
         PROVE  /\ k - 1 \in 0..MaxNodes /\ f[k - 1] \in X
                /\ f[k] = IF f[k - 1] = NULL THEN NULL
                          ELSE LET next == NEXT_BLKP(heap, f[k - 1])
                               IN  IF next > f[k - 1] /\ next < end THEN next ELSE NULL
    <2>1. k - 1 \in 0..MaxNodes
      BY <1>2
    <2>2. f[k - 1] \in X /\ f[k] = step[f[k - 1]]
      BY <1>9, <2>1
    <2>3. CASE f[k - 1] = NULL
      BY <1>7, <2>1, <2>2, <2>3
    <2>4. CASE f[k - 1] # NULL
      <3>1. PICK b \in W : b = f[k - 1]
        BY <2>2, <2>4
      <3>2. NEXT_BLKP(heap, b) = b + S[b] /\ b + S[b] > b /\ (b + S[b] < end <=> b + S[b] \in W)
        BY <1>6
      <3>3. step[b] = IF b + S[b] \in W THEN b + S[b] ELSE NULL
        BY <1>5, <1>7
      <3>4. QED
        BY <2>1, <2>2, <2>4, <3>1, <3>2, <3>3
    <2>5. QED
      BY <2>3, <2>4
  <1>11. Eq(f)
    <2>1. f = [n \in 0..MaxNodes |-> f[n]]
      BY <1>9
    <2>2. ASSUME NEW n \in 0..MaxNodes
          PROVE  f[n] = IF n = 0 THEN base + PRE_OCCUPIED
                        ELSE IF f[n - 1] = NULL THEN NULL
                        ELSE LET next == NEXT_BLKP(heap, f[n - 1])
                             IN  IF next > f[n - 1] /\ next < end THEN next ELSE NULL
      <3>1. CASE n = 0
        BY <1>9, <3>1 DEF PRE_OCCUPIED, OVERHEAD
      <3>2. CASE n # 0
        <4>1. n \in 1..MaxNodes
          BY <1>2, <3>2
        <4>2. QED
          BY <1>10, <3>2, <4>1
      <3>3. QED
        BY <3>1, <3>2
    <2>3. QED
      BY <2>1, <2>2
  <1>12. Eq(bp)
    <2>1. \E g : Eq(g)
      BY <1>11
    <2> HIDE DEF Eq
    <2>2. QED
      BY <2>1, Zenon
  <1>13. BlocksOf(r) = {bp[n] : n \in 0..MaxNodes} \ {NULL}
    BY DEF BlocksOf
  <1> HIDE DEF bp
  <1>14. /\ bp[0] = base + 16
         /\ \A n \in 1..MaxNodes :
              bp[n] = IF bp[n - 1] = NULL THEN NULL
                      ELSE LET next == NEXT_BLKP(heap, bp[n - 1])
                           IN  IF next > bp[n - 1] /\ next < end THEN next ELSE NULL
    <2>1. \A n \in 0..MaxNodes :
            bp[n] = IF n = 0 THEN base + PRE_OCCUPIED
                    ELSE IF bp[n - 1] = NULL THEN NULL
                    ELSE LET next == NEXT_BLKP(heap, bp[n - 1])
                         IN  IF next > bp[n - 1] /\ next < end THEN next ELSE NULL
      BY <1>12
    <2>2. 0 \in 0..MaxNodes /\ \A n \in 1..MaxNodes : n \in 0..MaxNodes /\ n # 0
      BY <1>2
    <2>3. bp[0] = base + 16
      BY <2>1, <2>2 DEF PRE_OCCUPIED, OVERHEAD
    <2>4. QED
      BY <2>1, <2>2, <2>3
  <1> HIDE DEF Eq
  <1>15. ASSUME NEW n \in 1..MaxNodes, bp[n - 1] \in W
         PROVE  bp[n] = IF bp[n - 1] + S[bp[n - 1]] \in W THEN bp[n - 1] + S[bp[n - 1]] ELSE NULL
    <2>1. PICK b \in W : b = bp[n - 1]
      BY <1>15
    <2>2. NEXT_BLKP(heap, b) = b + S[b] /\ b + S[b] > b /\ (b + S[b] < end <=> b + S[b] \in W)
      BY <1>6
    <2>3. b # NULL
      BY <1>5
    <2>4. bp[n] = IF NEXT_BLKP(heap, b) > b /\ NEXT_BLKP(heap, b) < end THEN NEXT_BLKP(heap, b) ELSE NULL
      BY <1>14, <2>1, <2>3
    <2>5. QED
      BY <2>1, <2>2, <2>4
  <1>16. \A n \in 0..MaxNodes : bp[n] \in X
    <2> DEFINE Bad == {n \in 0..MaxNodes : bp[n] \notin X}
    <2> SUFFICES ASSUME Bad # {} PROVE FALSE
      OBVIOUS
    <2>1. Bad \in SUBSET Nat
      BY <1>2
    <2>2. PICK m \in Bad : \A n \in Bad : m <= n
      BY <2>1, LeastNat
    <2>3. m \in 0..MaxNodes /\ bp[m] \notin X
      OBVIOUS
    <2>4. m # 0
      BY <1>5, <1>14, <2>3
    <2>5. m \in 1..MaxNodes /\ m - 1 \in 0..MaxNodes /\ m - 1 \notin Bad
      BY <1>2, <2>2, <2>3, <2>4
    <2>6. bp[m - 1] \in X
      BY <2>5
    <2>7. CASE bp[m - 1] = NULL
      BY <1>14, <2>3, <2>5, <2>7
    <2>8. CASE bp[m - 1] \in W
      BY <1>15, <2>3, <2>5, <2>8
    <2>9. QED
      BY <2>6, <2>7, <2>8
  <1>17. \A b \in W : \E n \in 0..MaxNodes : bp[n] = b /\ 32 * n + base + 16 <= b
    <2> DEFINE Bad == {b \in W : ~\E n \in 0..MaxNodes : bp[n] = b /\ 32 * n + base + 16 <= b}
    <2> SUFFICES ASSUME Bad # {} PROVE FALSE
      OBVIOUS
    <2>1. Bad \in SUBSET Nat
      BY <1>3 DEF W
    <2>2. PICK b \in Bad : \A c \in Bad : b <= c
      BY <2>1, LeastNat
    <2>3. b \in W /\ ~\E n \in 0..MaxNodes : bp[n] = b /\ 32 * n + base + 16 <= b
      OBVIOUS
    <2>4. b # base + 16
      <3>1. 0 \in 0..MaxNodes /\ 32 * 0 + base + 16 <= base + 16
        BY <1>2, <1>4
      <3>2. QED
        BY <1>14, <2>3, <3>1
    <2>5. b \in B /\ Lies(r, b, S[b]) /\ b \in Nat /\ S[b] \in Nat /\ S[b] >= 32
      BY <1>3, <2>3 DEF W
    <2>6. PICK c \in B : c + S[c] = b
      BY <1>1, <2>4, <2>5 DEF Layout
    <2>7. c \in W /\ c \in Nat /\ S[c] \in Nat /\ S[c] >= 32
      BY <1>1, <1>3, <2>5, <2>6, SameRegion DEF W
    <2>8. c \notin Bad
      <3>1. c < b
        BY <2>5, <2>6, <2>7
      <3>2. c \in Bad => b <= c
        BY <2>2
      <3>3. QED
        BY <2>5, <2>7, <3>1, <3>2
    <2>9. PICK n \in 0..MaxNodes : bp[n] = c /\ 32 * n + base + 16 <= c
      BY <2>7, <2>8
    <2>10. n \in Nat /\ 32 * (n + 1) + base + 16 <= b
      <3>1. n \in Nat
        BY <1>2
      <3>2. 32 * n + (base + 16) <= c
        BY <1>4, <2>9, <3>1
      <3>3. 32 * n + (base + 16) + 32 <= b
        BY <1>4, <2>6, <2>7, <3>1, <3>2, SMTT(30)
      <3>4. QED
        BY <1>4, <2>5, <3>1, <3>3
    <2>11. n + 1 <= MaxNodes
      <3>1. PICK u \in Nat, v \in Nat : u = APAGE_SIZE /\ v = MaxPages * APAGE_SIZE
        BY PageAssumption, MaxPagesAssumption
      <3>2. base >= u /\ end <= u + v
        BY <1>1, <3>1, RegionBound
      <3>3. b <= end
        BY <1>4, <2>5 DEF Lies
      <3>4. 32 * (n + 1) <= v
        BY <1>4, <2>5, <2>10, <3>2, <3>3, SMTT(30)
      <3>5. QED
        BY <2>10, <3>1, <3>4, MaxNodesNat
    <2>12. n + 1 \in 1..MaxNodes /\ (n + 1) - 1 = n /\ n + 1 \in 0..MaxNodes
      BY <1>2, <2>10, <2>11
    <2>13. bp[n + 1] = b
      BY <1>15, <2>3, <2>6, <2>7, <2>9, <2>12
    <2>14. QED
      BY <2>3, <2>10, <2>12, <2>13
  <1>18. BlocksOf(r) = W
    <2>1. ASSUME NEW b \in BlocksOf(r) PROVE b \in W
      BY <1>13, <1>16
    <2>2. ASSUME NEW b \in W PROVE b \in BlocksOf(r)
      BY <1>5, <1>13, <1>17
    <2>3. QED
      BY <2>1, <2>2
  <1>19. QED
    BY <1>18 DEF W

(* What the walks and the headers show of a sound heap: its blocks, their  *)
(* sizes and which of them are allocated.                                  *)
LEMMA Seen ==
  ASSUME NEW B, NEW S, NEW A, Sound(heap, B, S, A)
  PROVE  /\ AllBlocks = B
         /\ \A b \in B : /\ SizeAt(b) = S[b] /\ (IsFree(b) <=> b \notin A)
                         /\ NEXT_BLKP(heap, b) = b + S[b] /\ FTRP(heap, b) = b + S[b] - 8
                         /\ GET(heap, FTRP(heap, b)) = GET(heap, HDPR(b))
  <1>1. Layout(heap.regions, B, S) /\ Tags(heap, B, S, A)
    BY DEF Sound, Stage
  <1>2. AllBlocks = B
    <2>1. \A r \in heap.regions : BlocksOf(r) = {b \in B : Lies(r, b, S[b])}
      BY WalkIs
    <2>2. \A b \in B : \E r \in heap.regions : Lies(r, b, S[b])
      BY <1>1 DEF Layout
    <2>3. ASSUME NEW b \in AllBlocks PROVE b \in B
      BY <2>1 DEF AllBlocks
    <2>4. ASSUME NEW b \in B PROVE b \in AllBlocks
      <3>1. PICK r \in heap.regions : b \in BlocksOf(r)
        BY <2>1, <2>2
      <3>2. QED
        BY <3>1 DEF AllBlocks
    <2>5. QED
      BY <2>3, <2>4
  <1>3. ASSUME NEW b \in B
        PROVE  /\ SizeAt(b) = S[b] /\ (IsFree(b) <=> b \notin A)
               /\ NEXT_BLKP(heap, b) = b + S[b] /\ FTRP(heap, b) = b + S[b] - 8
               /\ GET(heap, FTRP(heap, b)) = GET(heap, HDPR(b))
    <2>1. /\ GET_SIZE(heap, HDPR(b)) = S[b] /\ GET_ALLOC(heap, HDPR(b)) = IF b \in A THEN 1 ELSE 0
          /\ FTRP(heap, b) = b + S[b] - 8 /\ NEXT_BLKP(heap, b) = b + S[b]
      BY <1>1, ReadTags
    <2>2. GET(heap, b + S[b] - 8) = GET(heap, b - 4)
      BY <1>1 DEF Tags
    <2>3. QED
      BY <2>1, <2>2 DEF SizeAt, IsFree, HDPR
  <1>4. QED
    BY <1>2, <1>3

(* DriverInv, as the theorems below use it. *)
LEMMA InvSound ==
  ASSUME DriverInv
  PROVE  \E B, S : /\ Owned(heap, blocks, B, S) /\ Sound(heap, B, S, Ptrs(blocks))
                   /\ Merged(B, S, Ptrs(blocks)) /\ InUse(heap.regions, S, Ptrs(blocks))
  BY DEF DriverInv, Owned, HeapOK

LEMMA TiledInv == ASSUME DriverInv PROVE RegionsTiled
  <1>1. PICK B, S : Sound(heap, B, S, Ptrs(blocks)) /\ Merged(B, S, Ptrs(blocks))
    BY InvSound
  <1>2. PICK A : A = Ptrs(blocks)
    OBVIOUS
  <1>3. /\ Sound(heap, B, S, A) /\ Layout(heap.regions, B, S) /\ Marks(heap, heap.regions) /\ Merged(B, S, A)
    BY <1>1, <1>2 DEF Sound, Stage
  <1> SUFFICES ASSUME NEW r \in heap.regions
               PROVE  LET bs == BlocksOf(r)
                      IN  /\ PrologueAt(heap, r[1] + 4) /\ PrologueAt(heap, r[1] + 8)
                          /\ TerminatorAt(heap, r[1] + r[2] - 4)
                          /\ \A bp \in bs :
                               /\ SizeAt(bp) >= 32 /\ SizeAt(bp) % 16 = 0
                               /\ GET(heap, FTRP(heap, bp)) = GET(heap, HDPR(bp))
                               /\ NEXT_BLKP(heap, bp) \in bs \/ NEXT_BLKP(heap, bp) = r[1] + r[2]
                               /\ IsFree(bp) /\ NEXT_BLKP(heap, bp) \in bs => ~IsFree(NEXT_BLKP(heap, bp))
    BY DEF RegionsTiled
  <1>4. PrologueAt(heap, r[1] + 4) /\ PrologueAt(heap, r[1] + 8) /\ TerminatorAt(heap, r[1] + r[2] - 4)
    <2>1. GET(heap, r[1] + 4) = 9 /\ GET(heap, r[1] + 8) = 9 /\ GET(heap, r[1] + r[2] - 4) = 1
      BY <1>3 DEF Marks
    <2>2. 8 \in Nat /\ 8 % 8 = 0 /\ 9 = 8 + 1 /\ 0 \in Nat /\ 0 % 8 = 0 /\ 1 = 0 + 1
      OBVIOUS
    <2>3. /\ GET_SIZE(heap, r[1] + 4) = 8 /\ GET_ALLOC(heap, r[1] + 4) = 1
          /\ GET_SIZE(heap, r[1] + 8) = 8 /\ GET_ALLOC(heap, r[1] + 8) = 1
      BY <2>1, <2>2, ReadTag
    <2>4. GET_SIZE(heap, r[1] + r[2] - 4) = 0 /\ GET_ALLOC(heap, r[1] + r[2] - 4) = 1
      BY <2>1, <2>2, ReadTag
    <2>5. QED
      BY <2>3, <2>4 DEF PrologueAt, TerminatorAt, OVERHEAD
  <1>5. BlocksOf(r) = {b \in B : Lies(r, b, S[b])}
    BY <1>3, WalkIs
  <1>6. ASSUME NEW b \in BlocksOf(r)
        PROVE  /\ SizeAt(b) >= 32 /\ SizeAt(b) % 16 = 0
               /\ GET(heap, FTRP(heap, b)) = GET(heap, HDPR(b))
               /\ NEXT_BLKP(heap, b) \in BlocksOf(r) \/ NEXT_BLKP(heap, b) = r[1] + r[2]
               /\ IsFree(b) /\ NEXT_BLKP(heap, b) \in BlocksOf(r) => ~IsFree(NEXT_BLKP(heap, b))
    <2>1. b \in B /\ Lies(r, b, S[b])
      BY <1>5
    <2>2. /\ SizeAt(b) = S[b] /\ (IsFree(b) <=> b \notin A) /\ NEXT_BLKP(heap, b) = b + S[b]
          /\ GET(heap, FTRP(heap, b)) = GET(heap, HDPR(b))
      BY <1>3, <2>1, Seen
    <2>3. S[b] >= 32 /\ S[b] % 16 = 0 /\ (b + S[b] \in B \/ b + S[b] = r[1] + r[2])
      BY <1>3, <2>1 DEF Layout, BlockOK
    <2>4. b + S[b] \in B => b + S[b] \in BlocksOf(r)
      BY <1>3, <1>5, <2>1, SameRegion
    <2>5. ASSUME b \notin A, b + S[b] \in BlocksOf(r) PROVE ~IsFree(b + S[b])
      <3>1. b + S[b] \in B /\ b + S[b] \in A
        BY <1>3, <1>5, <2>1, <2>5 DEF Merged
      <3>2. QED
        BY <1>3, <3>1, Seen
    <2>6. QED
      BY <2>2, <2>3, <2>4, <2>5
  <1>7. QED
    BY <1>4, <1>6

(* page_set_up, set_allocated and coalesce keep every region tiled, with   *)
(* matching headers and footers and no two free neighbours, whatever is    *)
(* asked for and wherever mmap puts the regions.                           *)
THEOREM TilingKept == Spec => []RegionsTiled
  BY DriverSound, TiledInv, PTL

LEMMA IntactInv == ASSUME DriverInv PROVE PayloadsIntact
  <1>1. PICK B, S : Owned(heap, blocks, B, S) /\ Sound(heap, B, S, Ptrs(blocks))
    BY InvSound
  <1>2. Ptrs(blocks) \subseteq B /\ Layout(heap.regions, B, S)
    BY <1>1 DEF Sound, Stage
  <1>3. ASSUME NEW i \in Ids, blocks[i] # NoBlock
        PROVE  LET b == blocks[i]
               IN  /\ b.ptr \in AllBlocks /\ ~IsFree(b.ptr) /\ b.ptr % ALIGNMENT = 0
                   /\ SizeAt(b.ptr) >= b.size + OVERHEAD
                   /\ \A a \in PayloadWords(b.ptr, b.size) : GET(heap, a) = FillWord[i]
                   /\ \A j \in Ids : blocks[j].ptr = b.ptr => j = i
    <2>1. PICK p : p = blocks[i].ptr
      OBVIOUS
    <2>2. i \in LiveIds(blocks) /\ p \in Ptrs(blocks) /\ p \in B
      BY <1>2, <1>3, <2>1 DEF LiveIds, Ptrs
    <2>3. p \in AllBlocks /\ SizeAt(p) = S[p] /\ ~IsFree(p)
      BY <1>1, <2>2, Seen
    <2>4. p \in Nat /\ p % 16 = 0 /\ S[p] \in Nat
      BY <1>2, <2>2 DEF Layout, BlockOK
    <2>5. p # NULL
      <3>1. PICK r \in heap.regions : Lies(r, p, S[p])
        BY <1>2, <2>2 DEF Layout
      <3>2. r[1] \in Nat
        BY <1>2 DEF Layout, RegionOK
      <3>3. QED
        BY <2>4, <3>1, <3>2 DEF Lies, NULL
    <2>6. S[p] >= blocks[i].size + 8 /\ \A a \in PayloadWords(p, blocks[i].size) : GET(heap, a) = FillWord[i]
      BY <1>1, <2>1, <2>2 DEF Owned
    <2>7. ASSUME NEW j \in Ids, blocks[j].ptr = p PROVE j = i
      <3>1. j \in LiveIds(blocks)
        BY <2>5, <2>7 DEF LiveIds, NoBlock
      <3>2. QED
        BY <1>1, <2>1, <2>2, <2>7, <3>1 DEF Owned
    <2>8. QED
      BY <2>1, <2>3, <2>4, <2>6, <2>7 DEF ALIGNMENT, OVERHEAD
  <1>4. QED
    BY <1>3 DEF PayloadsIntact

(* A live payload is an allocated, aligned and large enough block of its   *)
(* own and holds what its owner stored: mm.c writes no header, footer or   *)
(* list node into it, whatever happens to the blocks around it.            *)
THEOREM PayloadsKept == Spec => []PayloadsIntact
  BY DriverSound, IntactInv, PTL

LEMMA LeaksInv == ASSUME DriverInv PROVE NothingLeaks
  <1>1. PICK B, S : Sound(heap, B, S, Ptrs(blocks)) /\ InUse(heap.regions, S, Ptrs(blocks))
    BY InvSound
  <1>2. Ptrs(blocks) \subseteq B /\ PagesOK(heap)
    BY <1>1 DEF Sound, Stage
  <1>3. ASSUME NEW b \in AllBlocks, ~IsFree(b) PROVE \E i \in Ids : blocks[i].ptr = b
    <2>1. b \in Ptrs(blocks)
      BY <1>1, <1>3, Seen
    <2>2. QED
      BY <2>1 DEF Ptrs, LiveIds
  <1>4. heap.pages = UNION {RangePages(r[1], r[2]) : r \in heap.regions}
    BY <1>2 DEF PagesOK
  <1>5. ASSUME NEW r \in heap.regions PROVE \E b \in BlocksOf(r) : ~IsFree(b)
    <2>1. PICK b \in Ptrs(blocks) : Lies(r, b, S[b])
      BY <1>1 DEF InUse
    <2>2. b \in BlocksOf(r)
      BY <1>1, <1>2, <2>1, WalkIs
    <2>3. ~IsFree(b)
      BY <1>1, <1>2, Seen
    <2>4. QED
      BY <2>2, <2>3
  <1>6. QED
    BY <1>3, <1>4, <1>5 DEF NothingLeaks

(* An allocated block belongs to a live index of the trace, the mapped     *)
(* pages are those of the regions, and mm_free gives a region back with    *)
(* its last block.                                                         *)
THEOREM NothingKept == Spec => []NothingLeaks
  BY DriverSound, LeaksInv, PTL

(* A list that meets no block twice has at most MaxNodes nodes: blocks     *)
(* start in different 32-byte cells of the address space.                  *)
LEMMA ChainBound ==
  ASSUME NEW h, NEW B, NEW S, PagesOK(h), Layout(h.regions, B, S),
         NEW n \in Nat, NEW s \in [1..n -> B], \A i, j \in 1..n : s[i] = s[j] => i = j
  PROVE  n <= MaxNodes
  <1>1. PICK u \in Nat, v \in Nat : u = APAGE_SIZE /\ v = MaxPages * APAGE_SIZE
    BY PageAssumption, MaxPagesAssumption
  <1>2. PICK N \in Nat : N = MaxNodes /\ \A k \in Nat : 32 * k <= v => k <= N
    BY <1>1, MaxNodesNat
  <1> DEFINE Cell(b) == (b - u) \div 32
  <1>3. ASSUME NEW b \in B
        PROVE  /\ b \in Nat /\ S[b] \in Nat /\ S[b] >= 32
               /\ b - u \in Nat /\ b - u + 32 <= v
    <2>1. b \in Nat /\ S[b] \in Nat /\ S[b] >= 32
      BY DEF Layout, BlockOK
    <2>2. PICK r \in h.regions : Lies(r, b, S[b])
      BY DEF Layout
    <2>3. r[1] \in Nat /\ r[2] \in Nat
      BY DEF Layout, RegionOK
    <2>4. r[1] >= u /\ r[1] + r[2] <= u + v
      BY <1>1, RegionBound
    <2>5. b >= u /\ b + 32 <= u + v
      BY <2>1, <2>2, <2>3, <2>4, SMTT(30) DEF Lies
    <2>6. QED
      BY <2>1, <2>5
  <1>4. ASSUME NEW x \in Nat, x + 32 <= v PROVE x \div 32 \in Nat /\ x \div 32 + 1 <= N
    <2>1. x \div 32 \in Nat /\ 32 * (x \div 32) <= x
      OBVIOUS
    <2>2. 32 * (x \div 32 + 1) <= v
      BY <1>4, <2>1
    <2>3. QED
      BY <1>2, <2>1, <2>2
  <1>5. \A b \in B : Cell(b) \in 0..(N - 1)
    <2> SUFFICES ASSUME NEW b \in B PROVE Cell(b) \in 0..(N - 1)
      OBVIOUS
    <2>1. PICK x \in Nat : x = b - u /\ x + 32 <= v
      BY <1>3
    <2>2. QED
      BY <1>4, <2>1
  <1>6. ASSUME NEW b \in B, NEW c \in B, b < c PROVE Cell(b) # Cell(c)
    <2>0. b + S[b] <= c
      BY <1>6 DEF Layout
    <2>1. b + 32 <= c
      BY <1>3, <2>0, SMTT(30)
    <2>2. PICK x \in Nat, y \in Nat : x = b - u /\ y = c - u
      BY <1>3
    <2>3. x + 32 <= y
      BY <1>3, <2>1, <2>2
    <2>4. x \div 32 # y \div 32
      BY <2>3
    <2>5. QED
      BY <2>2, <2>4
  <1> HIDE DEF Cell
  <1>7. \A b, c \in B : Cell(b) = Cell(c) => b = c
    BY <1>3, <1>6
  <1> SUFFICES ASSUME n > N PROVE FALSE
    BY <1>2
  <1>8. IsFiniteSet(1..n) /\ Cardinality(1..n) = n
    <2>1. n - 1 + 1 = n /\ 1 \in Int /\ n \in Int
      OBVIOUS
    <2>2. QED
      BY <2>1, FS_Interval
  <1>9. IsFiniteSet(0..(N - 1)) /\ Cardinality(0..(N - 1)) = N
    <2>1. PICK m \in Int : m = N - 1
      OBVIOUS
    <2>2. IsFiniteSet(0..m) /\ Cardinality(0..m) = IF 0 > m THEN 0 ELSE m - 0 + 1
      BY FS_Interval
    <2>3. QED
      BY <2>1, <2>2
  <1>10. PICK f : f = [i \in 1..n |-> Cell(s[i])]
    OBVIOUS
  <1>11. f \in [1..n -> 0..(N - 1)]
    BY <1>5, <1>10
  <1>12. PICK i \in 1..n, j \in 1..n : i # j /\ f[i] = f[j]
    <2>1. PICK X, Y : X = 1..n /\ Y = 0..(N - 1)
      OBVIOUS
    <2>2. IsFiniteSet(X) /\ IsFiniteSet(Y) /\ Cardinality(Y) < Cardinality(X) /\ f \in [X -> Y]
      BY <1>8, <1>9, <1>11, <2>1
    <2>3. \E x, y \in X : x # y /\ f[x] = f[y]
      BY ONLY <2>2, FS_PigeonHole
    <2>4. QED
      BY <2>1, <2>3
  <1>13. QED
    BY <1>7, <1>10, <1>12

(* The nodes that Node reads are the chain, each once and in its order. *)
LEMMA ListInv == ASSUME DriverInv PROVE FreeListExact
  <1>1. PICK B, S : Sound(heap, B, S, Ptrs(blocks))
    BY InvSound
  <1>2. PICK A, F : A = Ptrs(blocks) /\ F = B \ A
    OBVIOUS
  <1>3. /\ Sound(heap, B, S, A) /\ PagesOK(heap) /\ Layout(heap.regions, B, S)
        /\ F \subseteq B /\ FreeList(heap, F)
    BY <1>1, <1>2 DEF Sound, Stage
  <1>4. PICK n \in Nat : \E s \in [1..n -> F] : Chain(heap, F, n, s)
    BY <1>3 DEF FreeList
  <1>5. PICK s \in [1..n -> F] : Chain(heap, F, n, s)
    BY <1>4
  <1>6. /\ F = {s[i] : i \in 1..n} /\ \A i, j \in 1..n : s[i] = s[j] => i = j
        /\ \A i \in 1..n : PREV_NODE(heap, s[i]) = IF i = 1 THEN NULL ELSE s[i - 1]
    BY <1>5 DEF Chain
  <1>7. NULL \notin F
    BY <1>3 DEF FreeList, NodePlace
  <1>8. MaxNodes \in Nat /\ n <= MaxNodes
    <2>1. s \in [1..n -> B]
      BY <1>3
    <2>2. QED
      BY <1>3, <1>6, <2>1, ChainBound, MaxNodesNat
  <1> DEFINE node == Node(heap)
  <1>10. \A k \in 0..MaxNodes : node[k] = IF k < n THEN s[k + 1] ELSE NULL
    BY <1>5, <1>7, NodeIs
  <1> HIDE DEF node
  <1> DEFINE ends == {k \in 0..MaxNodes : node[k] = NULL}
             Least(k) == k \in ends /\ \A m \in ends : k <= m
             len == CHOOSE k \in ends : \A m \in ends : k <= m
             nodes == {node[k] : k \in 0..(n - 1)}
  <1>11. \A k \in 0..(n - 1) : k \in 0..MaxNodes /\ k + 1 \in 1..n /\ node[k] = s[k + 1]
    <2> SUFFICES ASSUME NEW k \in 0..(n - 1)
                 PROVE  k \in 0..MaxNodes /\ k + 1 \in 1..n /\ node[k] = s[k + 1]
      OBVIOUS
    <2>1. k \in 0..MaxNodes /\ k + 1 \in 1..n /\ k < n
      BY <1>8
    <2>2. QED
      BY <1>10, <2>1
  <1>12. n \in ends /\ \A m \in ends : n <= m
    <2>1. n \in ends
      BY <1>8, <1>10
    <2>2. ASSUME NEW m \in ends, m < n PROVE FALSE
      <3>1. m \in 0..(n - 1) /\ node[m] = NULL
        BY <1>8, <2>2
      <3>2. s[m + 1] = NULL /\ m + 1 \in 1..n
        BY <1>11, <3>1
      <3>3. QED
        BY <1>7, <3>2
    <2>3. QED
      BY <1>8, <2>1, <2>2
  <1>13. len = n
    <2>1. \A k \in ends : k \in Nat
      BY <1>8
    <2> HIDE DEF ends
    <2>2. len \in ends /\ \A m \in ends : len <= m
      BY <1>12, Zenon
    <2> HIDE DEF len
    <2>3. len \in Nat /\ len <= n /\ n <= len
      BY <1>12, <2>1, <2>2
    <2>4. QED
      BY <2>3
  <1>14. nodes = F
    <2>1. ASSUME NEW x \in nodes PROVE x \in F
      <3>1. PICK k \in 0..(n - 1) : x = node[k]
        OBVIOUS
      <3>2. k + 1 \in 1..n /\ x = s[k + 1]
        BY <1>11, <3>1
      <3>3. QED
        BY <1>6, <3>2
    <2>2. ASSUME NEW x \in F PROVE x \in nodes
      <3>1. PICK i \in 1..n : x = s[i]
        BY <1>6
      <3>2. i - 1 \in 0..(n - 1) /\ (i - 1) + 1 = i
        OBVIOUS
      <3>3. x = node[i - 1]
        BY <1>11, <3>1, <3>2
      <3>4. QED
        BY <3>2, <3>3
    <2> HIDE DEF nodes
    <2>3. QED
      BY <2>1, <2>2
  <1>15. nodes = {b \in AllBlocks : IsFree(b)}
    <2>1. AllBlocks = B /\ \A b \in B : IsFree(b) <=> b \notin A
      BY <1>3, Seen
    <2>2. F = {b \in B : IsFree(b)}
      BY <1>2, <2>1
    <2>3. QED
      BY <1>14, <2>1, <2>2
  <1>16. Cardinality(F) = n
    <2>1. s \in Bijection(1..n, F)
      BY <1>5, <1>6 DEF Bijection, Injection, Surjection, IsInjective
    <2>2. ExistsBijection(1..n, F)
      BY <2>1 DEF ExistsBijection
    <2>3. IsFiniteSet(1..n) /\ Cardinality(1..n) = n
      <3>1. n - 1 + 1 = n /\ 1 \in Int /\ n \in Int
        OBVIOUS
      <3>2. QED
        BY <3>1, FS_Interval
    <2>4. QED
      BY <2>2, <2>3, FS_Bijection
  <1>17. ASSUME NEW k \in 0..(n - 1)
         PROVE  PREV_NODE(heap, node[k]) = IF k = 0 THEN NULL ELSE node[k - 1]
    <2>1. k \in Nat /\ k + 1 \in 1..n /\ node[k] = s[k + 1]
      BY <1>11
    <2>2. PREV_NODE(heap, s[k + 1]) = IF k + 1 = 1 THEN NULL ELSE s[(k + 1) - 1]
      BY <1>6, <2>1
    <2>3. CASE k = 0
      BY <2>1, <2>2, <2>3
    <2>4. CASE k # 0
      <3>1. k - 1 \in 0..(n - 1) /\ (k - 1) + 1 = k /\ (k + 1) - 1 = k /\ k + 1 # 1
        BY <2>1, <2>4
      <3>2. node[k - 1] = s[k]
        BY <1>11, <3>1
      <3>3. QED
        BY <2>1, <2>2, <2>4, <3>1, <3>2
    <2>5. QED
      BY <2>3, <2>4
  <1>18. /\ ends # {}
         /\ {node[k] : k \in 0..(len - 1)} = {b \in AllBlocks : IsFree(b)}
         /\ Cardinality({node[k] : k \in 0..(len - 1)}) = len
         /\ \A k \in 0..(len - 1) : PREV_NODE(heap, node[k]) = IF k = 0 THEN NULL ELSE node[k - 1]
    <2> HIDE DEF ends
    <2>1. ends # {}
      BY <1>12
    <2> HIDE DEF len
    <2>2. {node[k] : k \in 0..(len - 1)} = nodes
      BY <1>13
    <2>3. QED
      BY <1>13, <1>14, <1>15, <1>16, <1>17, <2>1, <2>2
  <1>19. QED
    BY <1>18, Zenon DEF node, FreeListExact

(* The free list is exactly the free blocks, each once, and its links go   *)
(* both ways: coalescing, splitting and unmapping leave no dead and no     *)
(* missing node in it.                                                     *)
THEOREM FreeListKept == Spec => []FreeListExact
  BY DriverSound, ListInv, PTL
=============================================================================
