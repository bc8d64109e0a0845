--------------------------- MODULE PageMapProofs ----------------------------
(***************************************************************************)
(* The page list of pagemap.c is exact and agrees with the kernel, for an  *)
(* address space of any size.                                              *)
(***************************************************************************)
EXTENDS PageMap, TLAPS

(* pagemap_modify(p, 1) lists p first.                                     *)
LEMMA LinkListing ==
  ASSUME TypeOK, NEW n \in Nat, NEW s \in [1..n -> Pages], Listing(n, s),
         NEW p \in Pages, p \notin in_table, Link(p)
  PROVE  \E t \in [1..(n + 1) -> Pages] : Listing(n + 1, t)'
  <1>1. PICK t \in [1..(n + 1) -> Pages] :
           t = [i \in 1..(n + 1) |-> IF i = 1 THEN p ELSE s[i - 1]]
    <2>1. [i \in 1..(n + 1) |-> IF i = 1 THEN p ELSE s[i - 1]] \in [1..(n + 1) -> Pages]
      OBVIOUS
    <2>2. QED
      BY <2>1
  <1> USE <1>1
  <1>2. \A i \in 1..n : s[i] # p /\ s[i] \in Pages
    BY DEF Listing
  <1>3. in_table' = {t[i] : i \in 1..(n + 1)}
    <2>1. ASSUME NEW q \in in_table' PROVE \E i \in 1..(n + 1) : t[i] = q
      <3>1. CASE q = p
        BY <3>1
      <3>2. CASE q # p
        <4>1. PICK i \in 1..n : s[i] = q
          BY <3>2, <2>1 DEF Link, Listing
        <4>2. i + 1 \in 1..(n + 1) /\ t[i + 1] = q
          BY <4>1
        <4>3. QED
          BY <4>2
      <3>3. QED
        BY <3>1, <3>2
    <2>2. ASSUME NEW i \in 1..(n + 1) PROVE t[i] \in in_table'
      <3>1. CASE i = 1
        BY <3>1 DEF Link
      <3>2. CASE i # 1
        <4>1. i - 1 \in 1..n
          BY <3>2
        <4>2. QED
          BY <3>2, <4>1 DEF Link, Listing
      <3>3. QED
        BY <3>1, <3>2
    <2>3. QED
      BY <2>1, <2>2
  <1>4. \A i, j \in 1..(n + 1) : t[i] = t[j] => i = j
    BY <1>2 DEF Listing
  <1>5. all_mapped_pages' = t[1]
    BY DEF Link
  <1>6. ASSUME NEW i \in 1..(n + 1)
        PROVE  /\ prev'[t[i]] = IF i = 1 THEN NoPage ELSE t[i - 1]
               /\ next'[t[i]] = IF i = n + 1 THEN NoPage ELSE t[i + 1]
    <2>1. CASE i = 1
      BY <2>1 DEF Link, Listing, TypeOK
    <2>2. CASE i = 2
      <3>1. n > 0 /\ t[2] = s[1] /\ s[1] = all_mapped_pages /\ s[1] # p
        BY <2>2, <1>2 DEF Listing
      <3>2. prev'[t[2]] = p
        BY <3>1, <1>2 DEF Link
      <3>3. next'[t[2]] = next[s[1]]
        BY <3>1, <1>2 DEF Link, TypeOK
      <3>4. next[s[1]] = IF n = 1 THEN NoPage ELSE s[2]
        <4>1. 1 \in 1..n
          BY <3>1
        <4>2. QED
          BY <4>1 DEF Listing
      <3>5. QED
        BY <2>2, <3>1, <3>2, <3>3, <3>4
    <2>3. CASE i > 2
      <3>1. i - 1 \in 1..n /\ 1 \in 1..n /\ t[i] = s[i - 1] /\ t[i - 1] = s[i - 2]
        BY <2>3
      <3>2. s[i - 1] # p /\ s[i - 1] # all_mapped_pages /\ s[i - 1] \in Pages
        BY <2>3, <3>1, <1>2 DEF Listing
      <3>3. prev'[t[i]] = prev[s[i - 1]] /\ next'[t[i]] = next[s[i - 1]]
        BY <3>1, <3>2 DEF Link, TypeOK
      <3>4. prev[s[i - 1]] = s[i - 2]
        BY <2>3, <3>1 DEF Listing
      <3>5. next[s[i - 1]] = IF i - 1 = n THEN NoPage ELSE s[i]
        BY <2>3, <3>1 DEF Listing
      <3>6. QED
        BY <2>3, <3>1, <3>3, <3>4, <3>5
    <2>4. QED
      BY <2>1, <2>2, <2>3
  <1>7. Listing(n + 1, t)'
    BY <1>3, <1>4, <1>5, <1>6, SMTT(30) DEF Listing
  <1>8. QED
    BY <1>7

(* pagemap_modify(p, 0) takes p out of the listing, wherever it stands.    *)
LEMMA UnlinkListing ==
  ASSUME TypeOK, NEW n \in Nat, NEW s \in [1..n -> Pages], Listing(n, s),
         NEW p \in Pages, p \in in_table, Unlink(p)
  PROVE  n > 0 /\ \E t \in [1..(n - 1) -> Pages] : Listing(n - 1, t)'
  <1>1. PICK k \in 1..n : s[k] = p
    BY DEF Listing
  <1>2. n - 1 \in Nat /\ n > 0
    BY <1>1
  <1>3. PICK t \in [1..(n - 1) -> Pages] :
           t = [i \in 1..(n - 1) |-> IF i < k THEN s[i] ELSE s[i + 1]]
    <2>1. [i \in 1..(n - 1) |-> IF i < k THEN s[i] ELSE s[i + 1]] \in [1..(n - 1) -> Pages]
      BY <1>2
    <2>2. QED
      BY <2>1
  <1>4. \A i \in 1..n : s[i] \in Pages /\ (s[i] = p <=> i = k)
    BY <1>1 DEF Listing
  <1>5. prev[p] = (IF k = 1 THEN NoPage ELSE s[k - 1]) /\ next[p] = (IF k = n THEN NoPage ELSE s[k + 1])
    BY <1>1 DEF Listing
  <1>6. /\ k # 1 => k - 1 \in 1..n /\ s[k - 1] # NoPage
        /\ k # n => k + 1 \in 1..n /\ s[k + 1] # NoPage
    BY <1>1, <1>4, MaxPageAssumption, SMTT(30) DEF Pages, NoPage
  <1>7. \A i \in 1..(n - 1) : /\ i < k => i \in 1..n /\ t[i] = s[i]
                              /\ i >= k => i + 1 \in 1..n /\ t[i] = s[i + 1]
    BY <1>1, <1>3
  <1>8. in_table' = {t[i] : i \in 1..(n - 1)}
    <2>1. ASSUME NEW q \in in_table' PROVE \E i \in 1..(n - 1) : t[i] = q
      <3>1. PICK j \in 1..n : s[j] = q /\ j # k
        BY <1>1, <2>1 DEF Unlink, Listing
      <3>2. CASE j < k
        <4>1. j \in 1..(n - 1)
          BY <3>2
        <4>2. QED
          BY <3>1, <3>2, <4>1, <1>7
      <3>3. CASE j > k
        <4>1. j - 1 \in 1..(n - 1) /\ j - 1 >= k /\ (j - 1) + 1 = j
          BY <3>3
        <4>2. QED
          BY <3>1, <4>1, <1>7
      <3>4. QED
        BY <3>1, <3>2, <3>3
    <2>2. ASSUME NEW i \in 1..(n - 1) PROVE t[i] \in in_table'
      <3>1. CASE i < k
        <4>1. i \in 1..n /\ t[i] = s[i] /\ s[i] # p
          BY <3>1, <1>4, <1>7
        <4>2. QED
          BY <4>1 DEF Unlink, Listing
      <3>2. CASE i >= k
        <4>1. i + 1 \in 1..n /\ t[i] = s[i + 1] /\ s[i + 1] # p
          BY <3>2, <1>4, <1>7
        <4>2. QED
          BY <4>1 DEF Unlink, Listing
      <3>3. QED
        BY <3>1, <3>2
    <2>3. QED
      BY <2>1, <2>2
  <1>9. \A i, j \in 1..(n - 1) : t[i] = t[j] => i = j
    BY <1>7 DEF Listing
  <1>10. all_mapped_pages' = IF n - 1 = 0 THEN NoPage ELSE t[1]
    <2>1. CASE k = 1
      <3>1. all_mapped_pages' = next[p]
        BY <2>1, <1>5 DEF Unlink
      <3>2. n # 1 => 1 \in 1..(n - 1) /\ t[1] = s[2]
        BY <2>1, <1>3
      <3>3. QED
        BY <2>1, <3>1, <3>2, <1>5
    <2>2. CASE k # 1
      <3>1. all_mapped_pages' = all_mapped_pages
        BY <2>2, <1>5, <1>6 DEF Unlink
      <3>2. n # 1 /\ 1 \in 1..(n - 1) /\ t[1] = s[1]
        BY <2>2, <1>3
      <3>3. QED
        BY <3>1, <3>2 DEF Listing
    <2>3. QED
      BY <2>1, <2>2
  <1>11. \A i \in 1..n : prev'[s[i]] = IF i = k + 1 THEN prev[p] ELSE prev[s[i]]
    BY <1>4, <1>5, <1>6 DEF Unlink, Listing, TypeOK
  <1>12. \A i \in 1..n : next'[s[i]] = IF i = k - 1 THEN next[p] ELSE next[s[i]]
    BY <1>4, <1>5, <1>6 DEF Unlink, Listing, TypeOK
  <1>13. \A i \in 1..n : /\ prev[s[i]] = IF i = 1 THEN NoPage ELSE s[i - 1]
                         /\ next[s[i]] = IF i = n THEN NoPage ELSE s[i + 1]
    BY DEF Listing
  <1>14. ASSUME NEW i \in 1..(n - 1)
         PROVE  /\ prev'[t[i]] = IF i = 1 THEN NoPage ELSE t[i - 1]
                /\ next'[t[i]] = IF i = n - 1 THEN NoPage ELSE t[i + 1]
    <2>1. CASE i < k
      <3>1. i \in 1..n /\ t[i] = s[i] /\ i # k + 1
        BY <2>1, <1>7
      <3>2. prev'[t[i]] = IF i = 1 THEN NoPage ELSE s[i - 1]
        BY <3>1, <1>11, <1>13
      <3>3. i # 1 => t[i - 1] = s[i - 1]
        BY <2>1, <1>7
      <3>4. CASE i = k - 1
        <4>1. next'[t[i]] = next[p] /\ (k = n <=> i = n - 1)
          BY <3>1, <3>4, <1>12
        <4>2. k # n => t[i + 1] = s[k + 1]
          BY <3>4, <1>7
        <4>3. QED
          BY <3>2, <3>3, <4>1, <4>2, <1>5
      <3>5. CASE i # k - 1
        <4>1. next'[t[i]] = s[i + 1] /\ i # n - 1
          BY <2>1, <3>1, <3>5, <1>12, <1>13
        <4>2. t[i + 1] = s[i + 1]
          BY <2>1, <3>5, <4>1, <1>7
        <4>3. QED
          BY <3>2, <3>3, <4>1, <4>2
      <3>6. QED
        BY <3>4, <3>5
    <2>2. CASE i >= k
      <3>1. i + 1 \in 1..n /\ t[i] = s[i + 1] /\ i + 1 # k - 1
        BY <2>2, <1>7
      <3>2. next'[t[i]] = IF i + 1 = n THEN NoPage ELSE s[(i + 1) + 1]
        BY <3>1, <1>12, <1>13
      <3>3. i # n - 1 => t[i + 1] = s[(i + 1) + 1]
        BY <2>2, <1>7
      <3>4. CASE i = k
        <4>1. prev'[t[i]] = prev[p]
          BY <3>1, <3>4, <1>11
        <4>2. k # 1 => t[i - 1] = s[k - 1]
          BY <3>4, <1>7
        <4>3. QED
          BY <3>2, <3>3, <3>4, <4>1, <4>2, <1>5
      <3>5. CASE i # k
        <4>1. prev'[t[i]] = prev[s[i + 1]] /\ i # 1
          BY <2>2, <3>1, <3>5, <1>11
        <4>2. prev[s[i + 1]] = s[(i + 1) - 1] /\ (i + 1) - 1 = i
          BY <3>1, <1>13
        <4>3. t[i - 1] = s[i]
          <5>1. i - 1 \in 1..(n - 1) /\ i - 1 >= k /\ (i - 1) + 1 = i
            BY <2>2, <3>5, <4>1
          <5>2. QED
            BY <5>1, <1>7
        <4>4. QED
          BY <3>2, <3>3, <4>1, <4>2, <4>3, SMTT(30)
      <3>6. QED
        BY <3>4, <3>5
    <2>3. QED
      BY <2>1, <2>2
  <1>15. Listing(n - 1, t)'
    BY <1>8, <1>9, <1>10, <1>14 DEF Listing
  <1>16. QED
    BY <1>2, <1>15

-----------------------------------------------------------------------------
IInv == TypeOK /\ ListExact /\ KernelAgrees /\ RunInv /\ NoDoubleMap

(* The head is a mapped page, or there is none; with no head there is no   *)
(* mapped page left.                                                       *)
LEMMA HeadMapped ==
  ASSUME IInv
  PROVE  /\ all_mapped_pages # NoPage => all_mapped_pages \in in_table
         /\ all_mapped_pages = NoPage => in_table = {}
  <1>1. PICK n \in 0..page_count : \E s \in [1..n -> Pages] : Listing(n, s)
    BY DEF IInv, ListExact
  <1>2. PICK s \in [1..n -> Pages] : Listing(n, s)
    BY <1>1
  <1>3. n \in Nat
    BY DEF IInv, TypeOK
  <1>4. CASE n = 0
    <2>1. all_mapped_pages = NoPage /\ in_table = {}
      BY <1>2, <1>4 DEF Listing
    <2>2. QED
      BY <2>1
  <1>5. CASE n # 0
    <2>1. 1 \in 1..n
      BY <1>3, <1>5
    <2>2. all_mapped_pages = s[1] /\ s[1] \in in_table /\ s[1] \in Pages
      BY <1>2, <1>5, <2>1 DEF Listing
    <2>3. s[1] # NoPage
      BY <2>2, MaxPageAssumption DEF Pages, NoPage
    <2>4. QED
      BY <2>2, <2>3
  <1>6. QED
    BY <1>4, <1>5

(* A step that leaves the records alone leaves the listing.                *)
LEMMA ListingKept ==
  ASSUME UNCHANGED <<all_mapped_pages, in_table, prev, next>>,
         NEW n, NEW s, Listing(n, s)
  PROVE  Listing(n, s)'
  BY DEF Listing

(* The types under pagemap_modify.                                         *)
LEMMA ModifyType ==
  ASSUME TypeOK, NEW p \in Pages, Link(p) \/ Unlink(p)
  PROVE  /\ all_mapped_pages' \in Pages \cup {NoPage}
         /\ in_table' \in SUBSET Pages
         /\ prev' \in [Pages -> Pages \cup {NoPage}]
         /\ next' \in [Pages -> Pages \cup {NoPage}]
  <1>1. CASE Link(p)
    BY <1>1 DEF TypeOK, Link
  <1>2. CASE Unlink(p)
    BY <1>2 DEF TypeOK, Unlink
  <1>3. QED
    BY <1>1, <1>2

(* One iteration of mem_map's loop.                                        *)
LEMMA MapPageStep == ASSUME IInv, MapPage PROVE IInv'
  <1> USE MaxPageAssumption
  <1>1. pc = "map" /\ cur <= last /\ cur \in Pages /\ cur \notin in_table
    BY DEF MapPage, IInv, RunInv, TypeOK, Pages
  <1>2. cur # all_mapped_pages
    BY <1>1, HeadMapped DEF Pages, NoPage
  <1>3. /\ Link(cur) /\ page_count' = page_count + 1 /\ cur' = cur + 1
        /\ UNCHANGED <<pc, kernel, first, last>>
    BY <1>1, <1>2 DEF MapPage
  <1>4. TypeOK'
    <2>1. page_count' \in Nat /\ cur' \in 0..(MaxPage + 1)
      BY <1>1, <1>3 DEF IInv, TypeOK, Pages
    <2>2. QED
      BY <1>1, <1>3, <2>1, ModifyType DEF IInv, TypeOK
  <1>5. ListExact'
    <2>1. PICK n \in Nat : n = page_count /\ \E s \in [1..n -> Pages] : Listing(n, s)
      BY <1>1 DEF IInv, ListExact, TypeOK
    <2>2. PICK s \in [1..n -> Pages] : Listing(n, s)
      BY <2>1
    <2>3. \E t \in [1..(n + 1) -> Pages] : Listing(n + 1, t)'
      BY <1>1, <1>3, <2>2, LinkListing DEF IInv
    <2>4. n + 1 \in 0..page_count' /\ n + 1 = page_count' /\ pc' # "reset"
      BY <1>1, <1>3, <2>1
    <2>5. QED
      BY <2>3, <2>4 DEF ListExact
  <1>6. in_table' = in_table \cup {cur}
    BY <1>3 DEF Link
  <1>7. KernelAgrees'
    <2>1. cur..last = {cur} \cup ((cur + 1)..last)
      BY <1>1 DEF IInv, TypeOK
    <2>2. QED
      BY <1>1, <1>3, <1>6, <2>1 DEF IInv, KernelAgrees
  <1>8. RunInv' /\ NoDoubleMap'
    BY <1>1, <1>3, <1>6 DEF IInv, RunInv, NoDoubleMap, TypeOK
  <1>9. QED
    BY <1>4, <1>5, <1>7, <1>8 DEF IInv

(* One iteration of mem_unmap's loop.                                      *)
LEMMA UnmapPageStep == ASSUME IInv, UnmapPage PROVE IInv'
  <1> USE MaxPageAssumption
  <1>1. pc = "unmap" /\ cur <= last /\ cur \in Pages
    BY DEF UnmapPage, IInv, RunInv, TypeOK, Pages
  <1>2. CASE cur \notin in_table
    <2>1. pc' = "abort_unmap" /\ UNCHANGED <<all_mapped_pages, in_table, prev, next,
                                  page_count, cur, kernel, first, last>>
      BY <1>2 DEF UnmapPage
    <2>2. TypeOK'
      BY <2>1 DEF IInv, TypeOK, PCs
    <2>3. ListExact'
      <3>1. PICK n \in 0..page_count : n = page_count /\ \E s \in [1..n -> Pages] : Listing(n, s)
        BY <1>1 DEF IInv, ListExact
      <3>2. PICK s \in [1..n -> Pages] : Listing(n, s)
        BY <3>1
      <3>3. Listing(n, s)'
        BY <2>1, <3>2, ListingKept
      <3>4. QED
        BY <2>1, <3>1, <3>3 DEF ListExact
    <2>4. QED
      BY <2>1, <2>2, <2>3 DEF IInv, KernelAgrees, RunInv, NoDoubleMap
  <1>3. CASE cur \in in_table
    <2>1. /\ Unlink(cur) /\ page_count' = page_count - 1 /\ cur' = cur + 1
          /\ UNCHANGED <<pc, kernel, first, last>>
      BY <1>3 DEF UnmapPage
    <2>2. PICK n \in Nat : n = page_count /\ \E s \in [1..n -> Pages] : Listing(n, s)
      BY <1>1 DEF IInv, ListExact, TypeOK
    <2>3. PICK s \in [1..n -> Pages] : Listing(n, s)
      BY <2>2
    <2>4. n > 0 /\ \E t \in [1..(n - 1) -> Pages] : Listing(n - 1, t)'
      BY <1>1, <1>3, <2>1, <2>3, UnlinkListing DEF IInv
    <2>5. TypeOK'
      <3>1. page_count' \in Nat /\ cur' \in 0..(MaxPage + 1)
        BY <1>1, <2>1, <2>2, <2>4 DEF IInv, TypeOK, Pages
      <3>2. QED
        BY <1>1, <2>1, <3>1, ModifyType DEF IInv, TypeOK
    <2>6. ListExact'
      <3>1. n - 1 \in 0..page_count' /\ n - 1 = page_count' /\ pc' # "reset"
        BY <1>1, <2>1, <2>2, <2>4
      <3>2. QED
        BY <2>4, <3>1 DEF ListExact
    <2>7. in_table' = in_table \ {cur}
      BY <2>1 DEF Unlink
    <2>8. first..(cur' - 1) = (first..(cur - 1)) \cup {cur} /\ first >= 1 /\ cur >= first
      BY <1>1, <2>1 DEF IInv, RunInv, TypeOK
    <2>9. KernelAgrees'
      BY <1>1, <1>3, <2>1, <2>7, <2>8 DEF IInv, KernelAgrees
    <2>10. RunInv' /\ NoDoubleMap'
      BY <1>1, <2>1, <2>7, <2>8 DEF IInv, RunInv, NoDoubleMap, TypeOK
    <2>11. QED
      BY <2>5, <2>6, <2>9, <2>10 DEF IInv
  <1>4. QED
    BY <1>2, <1>3

(* One iteration of pagemap_for_each: the saved record is the new head.    *)
LEMMA ResetPageStep == ASSUME IInv, ResetPage PROVE IInv'
  <1> USE MaxPageAssumption
  <1>1. /\ pc = "reset" /\ cur # NoPage /\ Unlink(cur) /\ cur' = next[cur]
        /\ kernel' = kernel \ {cur} /\ UNCHANGED <<page_count, pc, first, last>>
    BY DEF ResetPage
  <1>2. cur = all_mapped_pages /\ cur \in in_table /\ cur \in Pages
    BY <1>1, HeadMapped DEF IInv, ListExact, TypeOK
  <1>3. PICK n \in 0..page_count : \E s \in [1..n -> Pages] : Listing(n, s)
    BY DEF IInv, ListExact
  <1>4. PICK s \in [1..n -> Pages] : Listing(n, s)
    BY <1>3
  <1>5. n \in Nat
    BY DEF IInv, TypeOK
  <1>6. n > 0 /\ \E t \in [1..(n - 1) -> Pages] : Listing(n - 1, t)'
    BY <1>1, <1>2, <1>4, <1>5, UnlinkListing DEF IInv
  <1>7. prev[cur] = NoPage
    <2>1. 1 \in 1..n /\ cur = s[1]
      BY <1>2, <1>4, <1>5, <1>6 DEF Listing
    <2>2. QED
      BY <1>4, <2>1 DEF Listing
  <1>8. cur' = all_mapped_pages'
    BY <1>1, <1>7 DEF Unlink
  <1>9. TypeOK'
    <2>1. cur' \in 0..(MaxPage + 1)
      BY <1>1, <1>2 DEF IInv, TypeOK, Pages, NoPage
    <2>2. QED
      BY <1>1, <1>2, <2>1, ModifyType DEF IInv, TypeOK
  <1>10. ListExact'
    <2>1. n - 1 \in 0..page_count'
      BY <1>1, <1>5, <1>6 DEF IInv, TypeOK
    <2>2. QED
      BY <1>1, <1>6, <1>8, <2>1 DEF ListExact
  <1>11. in_table' = in_table \ {cur}
    BY <1>1 DEF Unlink
  <1>12. QED
    BY <1>1, <1>9, <1>10, <1>11 DEF IInv, KernelAgrees, RunInv, NoDoubleMap

(* A step outside the loops' bodies keeps the list exact, if it starts no  *)
(* walk or starts it at the head.                                          *)
LEMMA ListExactKept ==
  ASSUME IInv, UNCHANGED <<all_mapped_pages, in_table, prev, next, page_count>>,
         pc # "reset", pc' = "reset" => cur' = all_mapped_pages
  PROVE  ListExact'
  <1>1. PICK n \in 0..page_count : n = page_count /\ \E s \in [1..n -> Pages] : Listing(n, s)
    BY DEF IInv, ListExact
  <1>2. PICK s \in [1..n -> Pages] : Listing(n, s)
    BY <1>1
  <1>3. Listing(n, s)'
    BY <1>2, ListingKept
  <1>4. QED
    BY <1>1, <1>3 DEF ListExact

(* The invariant is inductive.                                             *)
LEMMA IInvStep == IInv /\ [PageNext]_pageVars => IInv'
  <1> SUFFICES ASSUME IInv, [PageNext]_pageVars PROVE IInv'
    OBVIOUS
  <1> USE MaxPageAssumption DEF PCs
  <1>1. CASE MapPage
    BY <1>1, MapPageStep
  <1>2. CASE UnmapPage
    BY <1>2, UnmapPageStep
  <1>3. CASE ResetPage
    BY <1>3, ResetPageStep
  <1>4. CASE MapDone
    <2>1. ListExact'
      BY <1>4, ListExactKept DEF MapDone
    <2>2. kernel = in_table
      <3>1. kernel = in_table \cup (cur..last)
        BY <1>4 DEF MapDone, IInv, KernelAgrees
      <3>2. cur..last = {}
        BY <1>4 DEF MapDone, IInv, TypeOK
      <3>3. QED
        BY <3>1, <3>2
    <2>3. QED
      BY <1>4, <2>1, <2>2 DEF MapDone, IInv, TypeOK, KernelAgrees, RunInv, NoDoubleMap
  <1>5. CASE UnmapDone
    <2>1. ListExact'
      BY <1>5, ListExactKept DEF UnmapDone
    <2>2. cur - 1 = last
      BY <1>5 DEF UnmapDone, IInv, RunInv, TypeOK
    <2>3. kernel' = in_table
      BY <1>5, <2>2 DEF UnmapDone, IInv, KernelAgrees, RunInv
    <2>4. TypeOK'
      BY <1>5 DEF UnmapDone, IInv, TypeOK
    <2>5. QED
      BY <1>5, <2>1, <2>3, <2>4 DEF UnmapDone, IInv, KernelAgrees, RunInv, NoDoubleMap
  <1>6. CASE ResetDone
    <2>1. in_table = {} /\ all_mapped_pages = NoPage
      BY <1>6, HeadMapped DEF ResetDone, IInv, ListExact
    <2>2. TypeOK'
      BY <1>6 DEF ResetDone, IInv, TypeOK
    <2>3. ListExact'
      <3>1. PICK n \in Nat : n = 0
        OBVIOUS
      <3>2. PICK s \in [1..n -> Pages] : TRUE
        <4>1. [i \in 1..n |-> i] \in [1..n -> Pages]
          BY <3>1
        <4>2. QED
          BY <4>1
      <3>3. Listing(n, s)'
        BY <1>6, <2>1, <3>1 DEF ResetDone, Listing
      <3>4. n \in 0..page_count' /\ n = page_count' /\ pc' = "idle"
        BY <1>6, <3>1 DEF ResetDone
      <3>5. QED
        BY <3>2, <3>3, <3>4 DEF ListExact
    <2>4. QED
      BY <1>6, <2>1, <2>2, <2>3 DEF ResetDone, IInv, KernelAgrees, RunInv, NoDoubleMap
  <1>7. ASSUME NEW lo \in Pages, NEW hi \in Pages, mem_map(lo, hi) PROVE IInv'
    <2>1. ListExact'
      BY <1>7, ListExactKept DEF mem_map
    <2>2. lo..hi \subseteq Pages /\ lo >= 1 /\ lo \in 0..(MaxPage + 1) /\ lo \in 0..MaxPage /\ hi \in 0..MaxPage
      BY DEF Pages
    <2>3. TypeOK'
      BY <1>7, <2>2 DEF mem_map, IInv, TypeOK
    <2>4. RunInv' /\ KernelAgrees' /\ NoDoubleMap'
      BY <1>7, <2>2 DEF mem_map, IInv, KernelAgrees, RunInv, NoDoubleMap, Pages
    <2>5. QED
      BY <2>1, <2>3, <2>4 DEF IInv
  <1>8. ASSUME NEW lo \in Pages, NEW hi \in Pages, mem_unmap(lo, hi) PROVE IInv'
    <2>1. ListExact'
      BY <1>8, ListExactKept DEF mem_unmap
    <2>2. lo >= 1 /\ lo <= hi /\ lo \in 0..(MaxPage + 1) /\ lo \in 0..MaxPage /\ hi \in 0..MaxPage
      BY <1>8 DEF Pages, mem_unmap
    <2>3. TypeOK'
      BY <1>8, <2>2 DEF mem_unmap, IInv, TypeOK
    <2>4. lo..(lo - 1) = {}
      BY <2>2
    <2>5. RunInv' /\ KernelAgrees' /\ NoDoubleMap'
      BY <1>8, <2>2, <2>4 DEF mem_unmap, IInv, KernelAgrees, RunInv, NoDoubleMap
    <2>6. QED
      BY <2>1, <2>3, <2>5 DEF IInv
  <1>9. CASE mem_reset
    <2>1. ListExact'
      BY <1>9, ListExactKept DEF mem_reset
    <2>2. all_mapped_pages \in 0..(MaxPage + 1)
      BY DEF IInv, TypeOK, Pages, NoPage
    <2>3. TypeOK'
      BY <1>9, <2>2 DEF mem_reset, IInv, TypeOK
    <2>4. QED
      BY <1>9, <2>1, <2>3 DEF mem_reset, IInv, KernelAgrees, RunInv, NoDoubleMap
  <1>10. CASE UNCHANGED pageVars
    BY <1>10 DEF pageVars, IInv, TypeOK, ListExact, Listing, KernelAgrees, RunInv, NoDoubleMap
  <1>11. QED
    BY <1>1, <1>2, <1>3, <1>4, <1>5, <1>6, <1>7, <1>8, <1>9, <1>10 DEF PageNext, Loop, Call

(* The bookkeeping starts right.                                           *)
LEMMA IInvInit == PageInit => IInv
  <1> SUFFICES ASSUME PageInit PROVE IInv
    OBVIOUS
  <1>1. TypeOK
    BY MaxPageAssumption DEF PageInit, NothingMapped, TypeOK, PCs, NoPage, Pages
  <1>2. ListExact
    <2>1. PICK n \in Nat : n = 0
      OBVIOUS
    <2>2. PICK s \in [1..n -> Pages] : TRUE
      <3>1. [i \in 1..n |-> i] \in [1..n -> Pages]
        BY <2>1
      <3>2. QED
        BY <3>1
    <2>3. Listing(n, s)
      BY <2>1 DEF PageInit, NothingMapped, Listing
    <2>4. n \in 0..page_count /\ n = page_count
      BY <2>1 DEF PageInit, NothingMapped
    <2>5. QED
      BY <2>3, <2>4 DEF PageInit, NothingMapped, ListExact
  <1>3. QED
    BY <1>1, <1>2 DEF PageInit, NothingMapped, IInv, KernelAgrees, RunInv, NoDoubleMap

(* At every iteration of every loop of memlib.c and pagemap.c, for any     *)
(* number of pages, the list threads exactly the mapped pages and          *)
(* page_count counts them.                                                 *)
THEOREM ListCorrect == PageSpec => []ListExact
  <1>1. IInv => ListExact
    BY DEF IInv
  <1>2. QED
    BY <1>1, IInvInit, IInvStep, PTL DEF PageSpec

(* pagemap.c and the kernel agree on what is mapped.                       *)
THEOREM KernelCorrect == PageSpec => []KernelAgrees
  <1>1. IInv => KernelAgrees
    BY DEF IInv
  <1>2. QED
    BY <1>1, IInvInit, IInvStep, PTL DEF PageSpec

(* The abort of pagemap_modify for a page that is mapped already is out of *)
(* reach.                                                                  *)
THEOREM DoubleMapUnreachable == PageSpec => []NoDoubleMap
  <1>1. IInv => NoDoubleMap
    BY DEF IInv
  <1>2. QED
    BY <1>1, IInvInit, IInvStep, PTL DEF PageSpec
=============================================================================
