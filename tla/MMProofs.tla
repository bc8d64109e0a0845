------------------------------ MODULE MMProofs ------------------------------
(***************************************************************************)
(* mm.c for any page size, growth factor and number of pages: what its     *)
(* functions do to the tags, to the free list and to the payloads.         *)
(***************************************************************************)
EXTENDS MM, FiniteSetTheorems, WellFoundedInduction, TLAPS

(* A heap is a record of its five fields, memory an array of all words.    *)
IsHeap(h) ==
  /\ h = [mem |-> h.mem, list |-> h.list, pages |-> h.pages, regions |-> h.regions,
          fault |-> h.fault]
  /\ h.mem = [a \in WordAddrs |-> h.mem[a]]

(* From h to g only words in D and the head of the list have changed.      *)
Writes(h, g, D) ==
  /\ IsHeap(g) /\ g.pages = h.pages /\ g.regions = h.regions /\ (g.fault <=> h.fault)
  /\ \A a : a \notin D => GET(g, a) = GET(h, a)

-----------------------------------------------------------------------------
(* Words *)

(* PUT of a mapped word. *)
LEMMA PutWord ==
  ASSUME NEW h, IsHeap(h), NEW p, Mapped(h, p), NEW v
  PROVE  /\ Writes(h, PUT(h, p, v), {p}) /\ GET(PUT(h, p, v), p) = v
         /\ PUT(h, p, v).list = h.list
  <1> DEFINE g == [h EXCEPT !.mem[p] = v]
  <1>1. PUT(h, p, v) = g
    BY DEF PUT
  <1>2. /\ g.mem = [h.mem EXCEPT ![p] = v] /\ g.list = h.list /\ g.pages = h.pages
        /\ g.regions = h.regions /\ g.fault = h.fault
    BY DEF IsHeap
  <1>3. p \in WordAddrs
    BY DEF Mapped
  <1>4. g.mem = [a \in WordAddrs |-> IF a = p THEN v ELSE h.mem[a]]
    BY <1>2, <1>3 DEF IsHeap
  <1>5. IsHeap(g)
    <2>1. g = [mem |-> g.mem, list |-> g.list, pages |-> g.pages, regions |-> g.regions,
               fault |-> g.fault]
      BY DEF IsHeap
    <2>2. g.mem = [a \in WordAddrs |-> g.mem[a]]
      BY <1>4
    <2>3. QED
      BY <2>1, <2>2 DEF IsHeap
  <1>6. GET(g, p) = v /\ \A a : a \notin {p} => GET(g, a) = GET(h, a)
    <2> HIDE DEF g
    <2>1. \A a : (Mapped(g, a) <=> Mapped(h, a)) /\ (Mapped(h, a) => a \in WordAddrs)
      BY <1>2 DEF Mapped
    <2>2. QED
      BY <1>3, <1>4, <2>1 DEF GET
  <1> HIDE DEF g
  <1>7. QED
    BY <1>1, <1>2, <1>5, <1>6 DEF Writes

(* Writes one after the other. *)
LEMMA WritesThen ==
  ASSUME NEW h, NEW g, NEW k, NEW D, NEW E, Writes(h, g, D), Writes(g, k, E)
  PROVE  Writes(h, k, D \cup E)
  BY DEF Writes

(* Fewer words than that may be named. *)
LEMMA WritesMore ==
  ASSUME NEW h, NEW g, NEW D, NEW E, Writes(h, g, D), D \subseteq E
  PROVE  Writes(h, g, E)
  BY DEF Writes

(* A write maps and unmaps nothing. *)
LEMMA WritesMapped ==
  ASSUME NEW h, NEW g, NEW D, Writes(h, g, D)
  PROVE  \A a : Mapped(g, a) <=> Mapped(h, a)
  BY DEF Writes, Mapped

-----------------------------------------------------------------------------
(* The free list *)

NodeWords(b) == {b, b + 4, b + 8, b + 12}

(* Places for list nodes: aligned, hence apart from one another. *)
NodePlace(h, b) == b \in Nat /\ b % 16 = 0 /\ b # NULL /\ \A a \in NodeWords(b) : Mapped(h, a)

(* s runs through the nodes F once, in the order of the links.             *)
Chain(h, F, n, s) ==
  /\ F = {s[i] : i \in 1..n}
  /\ \A i, j \in 1..n : s[i] = s[j] => i = j
  /\ h.list = IF n = 0 THEN NULL ELSE s[1]
  /\ \A i \in 1..n : /\ PREV_NODE(h, s[i]) = IF i = 1 THEN NULL ELSE s[i - 1]
                     /\ NEXT_NODE(h, s[i]) = IF i = n THEN NULL ELSE s[i + 1]

FreeList(h, F) ==
  /\ \A b \in F : NodePlace(h, b)
  /\ \E n \in Nat : \E s \in [1..n -> F] : Chain(h, F, n, s)

(* Different nodes share no word. *)
LEMMA NodesApart ==
  ASSUME NEW h, NEW b, NEW c, NodePlace(h, b), NodePlace(h, c), b # c
  PROVE  NodeWords(b) \cap NodeWords(c) = {}
  <1>1. b \in Nat /\ c \in Nat /\ b % 16 = 0 /\ c % 16 = 0
    BY DEF NodePlace
  <1>2. b + 16 <= c \/ c + 16 <= b
    BY <1>1
  <1>3. QED
    BY <1>1, <1>2 DEF NodeWords

(* The links of a node are in its words. *)
LEMMA LinksKept ==
  ASSUME NEW h, NEW g, NEW b, \A a \in NodeWords(b) : GET(g, a) = GET(h, a), b \in Nat
  PROVE  PREV_NODE(g, b) = PREV_NODE(h, b) /\ NEXT_NODE(g, b) = NEXT_NODE(h, b)
  <1>1. /\ b \in NodeWords(b) /\ b + 4 \in NodeWords(b) /\ b + 8 \in NodeWords(b)
        /\ (b + 8) + 4 \in NodeWords(b)
    BY DEF NodeWords
  <1>2. QED
    BY <1>1 DEF PREV_NODE, NEXT_NODE, GetPtr

(* A pointer is written in two words. *)
LEMMA PutPointer ==
  ASSUME NEW h, IsHeap(h), NEW p \in Nat, Mapped(h, p), Mapped(h, p + 4), NEW ptr
  PROVE  /\ Writes(h, PutPtr(h, p, ptr), {p, p + 4}) /\ GetPtr(PutPtr(h, p, ptr), p) = ptr
         /\ PutPtr(h, p, ptr).list = h.list
  <1> DEFINE g == PUT(h, p, ptr)
             k == PUT(g, p + 4, 0)
  <1>1. Writes(h, g, {p}) /\ GET(g, p) = ptr /\ g.list = h.list
    BY PutWord
  <1>2. IsHeap(g) /\ Mapped(g, p + 4)
    BY <1>1, WritesMapped DEF Writes
  <1>3. Writes(g, k, {p + 4}) /\ GET(k, p + 4) = 0 /\ k.list = g.list
    BY <1>2, PutWord
  <1>4. Writes(h, k, {p, p + 4})
    BY <1>1, <1>3, WritesThen, WritesMore
  <1>5. p \notin {p + 4}
    OBVIOUS
  <1>6. GET(k, p) = ptr
    BY <1>1, <1>3, <1>5 DEF Writes
  <1>7. QED
    BY <1>1, <1>3, <1>4, <1>6 DEF PutPtr, GetPtr

(* The links of a node are set one at a time. *)
LEMMA SetLinks ==
  ASSUME NEW h, IsHeap(h), NEW b, NodePlace(h, b), NEW ptr
  PROVE  /\ Writes(h, SetPrev(h, b, ptr), NodeWords(b)) /\ SetPrev(h, b, ptr).list = h.list
         /\ PREV_NODE(SetPrev(h, b, ptr), b) = ptr
         /\ NEXT_NODE(SetPrev(h, b, ptr), b) = NEXT_NODE(h, b)
         /\ Writes(h, SetNext(h, b, ptr), NodeWords(b)) /\ SetNext(h, b, ptr).list = h.list
         /\ NEXT_NODE(SetNext(h, b, ptr), b) = ptr
         /\ PREV_NODE(SetNext(h, b, ptr), b) = PREV_NODE(h, b)
  <1>1. b \in Nat /\ Mapped(h, b) /\ Mapped(h, b + 4) /\ Mapped(h, b + 8) /\ Mapped(h, (b + 8) + 4)
    BY DEF NodePlace, NodeWords
  <1>2. {b, b + 4} \subseteq NodeWords(b) /\ {b + 8, (b + 8) + 4} \subseteq NodeWords(b)
    BY <1>1 DEF NodeWords
  <1>3. /\ Writes(h, SetPrev(h, b, ptr), {b, b + 4}) /\ SetPrev(h, b, ptr).list = h.list
        /\ PREV_NODE(SetPrev(h, b, ptr), b) = ptr
    BY <1>1, PutPointer DEF SetPrev, PREV_NODE
  <1>4. NEXT_NODE(SetPrev(h, b, ptr), b) = NEXT_NODE(h, b)
    <2>1. b + 8 \notin {b, b + 4} /\ (b + 8) + 4 \notin {b, b + 4}
      BY <1>1
    <2>2. QED
      BY <1>3, <2>1 DEF NEXT_NODE, GetPtr, Writes
  <1>5. /\ Writes(h, SetNext(h, b, ptr), {b + 8, (b + 8) + 4}) /\ SetNext(h, b, ptr).list = h.list
        /\ NEXT_NODE(SetNext(h, b, ptr), b) = ptr
    BY <1>1, PutPointer DEF SetNext, NEXT_NODE
  <1>6. PREV_NODE(SetNext(h, b, ptr), b) = PREV_NODE(h, b)
    <2>1. b \notin {b + 8, (b + 8) + 4} /\ b + 4 \notin {b + 8, (b + 8) + 4}
      BY <1>1
    <2>2. QED
      BY <1>5, <2>1 DEF PREV_NODE, GetPtr, Writes
  <1>7. QED
    BY <1>2, <1>3, <1>4, <1>5, <1>6, WritesMore

(* The head of the list is no word of memory. *)
LEMMA SetHead ==
  ASSUME NEW h, IsHeap(h), NEW x
  PROVE  Writes(h, [h EXCEPT !.list = x], {}) /\ [h EXCEPT !.list = x].list = x
  <1> DEFINE g == [h EXCEPT !.list = x]
  <1>1. /\ g.mem = h.mem /\ g.list = x /\ g.pages = h.pages /\ g.regions = h.regions
        /\ g.fault = h.fault
    BY DEF IsHeap
  <1>2. g = [mem |-> g.mem, list |-> g.list, pages |-> g.pages, regions |-> g.regions,
             fault |-> g.fault]
    BY DEF IsHeap
  <1> HIDE DEF g
  <1>3. \A a : GET(g, a) = GET(h, a)
    BY <1>1 DEF GET, Mapped
  <1>4. IsHeap(g)
    BY <1>1, <1>2 DEF IsHeap
  <1>5. QED
    BY <1>1, <1>3, <1>4 DEF Writes, g

ListWords(F) == UNION {NodeWords(c) : c \in F}

(* A node in front of a chain. *)
LEMMA ChainPush ==
  ASSUME NEW h, NEW F, NEW n \in Nat, NEW s \in [1..n -> F], Chain(h, F, n, s),
         NEW b, b \notin F, NEW g, g.list = b,
         PREV_NODE(g, b) = NULL, NEXT_NODE(g, b) = h.list,
         \A c \in F : /\ NEXT_NODE(g, c) = NEXT_NODE(h, c)
                      /\ PREV_NODE(g, c) = IF c = h.list THEN b ELSE PREV_NODE(h, c)
  PROVE  \E t \in [1..(n + 1) -> F \cup {b}] : Chain(g, F \cup {b}, n + 1, t)
  <1> DEFINE G == F \cup {b}
  <1>1. PICK t \in [1..(n + 1) -> G] : t = [i \in 1..(n + 1) |-> IF i = 1 THEN b ELSE s[i - 1]]
    <2>1. [i \in 1..(n + 1) |-> IF i = 1 THEN b ELSE s[i - 1]] \in [1..(n + 1) -> G]
      OBVIOUS
    <2>2. QED
      BY <2>1
  <1>2. \A i \in 1..n : s[i] # b /\ s[i] \in F /\ (s[i] = h.list <=> i = 1)
    BY DEF Chain
  <1>3. G = {t[i] : i \in 1..(n + 1)}
    <2>1. ASSUME NEW q \in G PROVE \E i \in 1..(n + 1) : t[i] = q
      <3>1. CASE q = b
        BY <3>1, <1>1
      <3>2. CASE q # b
        <4>1. PICK i \in 1..n : s[i] = q
          BY <3>2, <2>1 DEF Chain
        <4>2. i + 1 \in 1..(n + 1) /\ t[i + 1] = q
          BY <4>1, <1>1
        <4>3. QED
          BY <4>2
      <3>3. QED
        BY <3>1, <3>2
    <2>2. QED
      BY <2>1
  <1>4. \A i, j \in 1..(n + 1) : t[i] = t[j] => i = j
    BY <1>1, <1>2 DEF Chain
  <1>5. g.list = IF n + 1 = 0 THEN NULL ELSE t[1]
    BY <1>1
  <1>6. ASSUME NEW i \in 1..(n + 1)
        PROVE  /\ PREV_NODE(g, t[i]) = IF i = 1 THEN NULL ELSE t[i - 1]
               /\ NEXT_NODE(g, t[i]) = IF i = n + 1 THEN NULL ELSE t[i + 1]
    <2>1. CASE i = 1
      BY <2>1, <1>1 DEF Chain
    <2>2. CASE i > 1
      <3>1. i - 1 \in 1..n /\ t[i] = s[i - 1] /\ s[i - 1] \in F
        BY <2>2, <1>1
      <3>2. NEXT_NODE(g, t[i]) = IF i - 1 = n THEN NULL ELSE s[(i - 1) + 1]
        BY <3>1 DEF Chain
      <3>3. i # n + 1 => t[i + 1] = s[(i - 1) + 1]
        BY <2>2, <1>1
      <3>4. PREV_NODE(g, t[i]) = IF i = 2 THEN b ELSE s[(i - 1) - 1]
        BY <2>2, <3>1, <1>2 DEF Chain
      <3>5. t[i - 1] = IF i = 2 THEN b ELSE s[(i - 1) - 1]
        BY <2>2, <1>1
      <3>6. QED
        BY <2>2, <3>2, <3>3, <3>4, <3>5
    <2>3. QED
      BY <2>1, <2>2
  <1>7. Chain(g, G, n + 1, t)
    BY <1>3, <1>4, <1>5, <1>6 DEF Chain
  <1>8. QED
    BY <1>7

(* A node out of a chain, wherever it stands. *)
LEMMA ChainTake ==
  ASSUME NEW h, NEW F, NULL \notin F, NEW n \in Nat, NEW s \in [1..n -> F], Chain(h, F, n, s),
         NEW b \in F, NEW g,
         g.list = (IF b # h.list THEN h.list ELSE NEXT_NODE(h, b)),
         \A c \in F \ {b} :
            /\ PREV_NODE(g, c) = IF c = NEXT_NODE(h, b) THEN PREV_NODE(h, b) ELSE PREV_NODE(h, c)
            /\ NEXT_NODE(g, c) = IF c = PREV_NODE(h, b) THEN NEXT_NODE(h, b) ELSE NEXT_NODE(h, c)
  PROVE  n - 1 \in Nat /\ \E t \in [1..(n - 1) -> F \ {b}] : Chain(g, F \ {b}, n - 1, t)
  <1> DEFINE G == F \ {b}
  <1>1. PICK k \in 1..n : s[k] = b
    BY DEF Chain
  <1>2. n - 1 \in Nat /\ n > 0
    BY <1>1
  <1>4. \A i \in 1..n : s[i] \in F /\ (s[i] = b <=> i = k)
    BY <1>1 DEF Chain
  <1>3. PICK t \in [1..(n - 1) -> G] :
           t = [i \in 1..(n - 1) |-> IF i < k THEN s[i] ELSE s[i + 1]]
    <2>1. ASSUME NEW i \in 1..(n - 1) PROVE (IF i < k THEN s[i] ELSE s[i + 1]) \in G
      BY <1>2, <1>4
    <2>2. [i \in 1..(n - 1) |-> IF i < k THEN s[i] ELSE s[i + 1]] \in [1..(n - 1) -> G]
      BY <2>1
    <2>3. QED
      BY <2>2
  <1>5. /\ PREV_NODE(h, b) = (IF k = 1 THEN NULL ELSE s[k - 1])
        /\ NEXT_NODE(h, b) = (IF k = n THEN NULL ELSE s[k + 1])
    BY <1>1 DEF Chain
  <1>6. /\ k # 1 => k - 1 \in 1..n /\ s[k - 1] # NULL
        /\ k # n => k + 1 \in 1..n /\ s[k + 1] # NULL
    BY <1>1, <1>4
  <1>7. \A i \in 1..(n - 1) : /\ i < k => i \in 1..n /\ t[i] = s[i]
                              /\ i >= k => i + 1 \in 1..n /\ t[i] = s[i + 1]
    BY <1>1, <1>3
  <1>8. G = {t[i] : i \in 1..(n - 1)}
    <2>1. ASSUME NEW q \in G PROVE \E i \in 1..(n - 1) : t[i] = q
      <3>1. PICK j \in 1..n : s[j] = q /\ j # k
        BY <1>1, <2>1 DEF Chain
      <3>2. CASE j < k
        <4>1. j \in 1..(n - 1)
          BY <3>2
        <4>2. QED
          BY <3>1, <3>2, <4>1, <1>7
      <3>3. CASE j > k
        <4>1. j - 1 \in 1..(n - 1) /\ j - 1 >= k /\ (j - 1) + 1 = j
          BY <3>3
        <4>2. QED
          BY <3>1, <4>1, <1>7
      <3>4. QED
        BY <3>1, <3>2, <3>3
    <2>2. QED
      BY <2>1
  <1>9. \A i, j \in 1..(n - 1) : t[i] = t[j] => i = j
    BY <1>7 DEF Chain
  <1>10. g.list = IF n - 1 = 0 THEN NULL ELSE t[1]
    <2>1. CASE k = 1
      <3>1. g.list = NEXT_NODE(h, b)
        BY <2>1, <1>1, <1>2 DEF Chain
      <3>2. n # 1 => 1 \in 1..(n - 1) /\ t[1] = s[2]
        BY <2>1, <1>3
      <3>3. QED
        BY <2>1, <3>1, <3>2, <1>5
    <2>2. CASE k # 1
      <3>1. g.list = h.list
        BY <2>2, <1>1, <1>2, <1>4 DEF Chain
      <3>2. n # 1 /\ 1 \in 1..(n - 1) /\ t[1] = s[1]
        BY <2>2, <1>3
      <3>3. QED
        BY <3>1, <3>2 DEF Chain
    <2>3. QED
      BY <2>1, <2>2
  <1>11. \A i \in 1..n : i # k =>
           PREV_NODE(g, s[i]) = IF i = k + 1 THEN PREV_NODE(h, b) ELSE PREV_NODE(h, s[i])
    BY <1>4, <1>5, <1>6 DEF Chain
  <1>12. \A i \in 1..n : i # k =>
           NEXT_NODE(g, s[i]) = IF i = k - 1 THEN NEXT_NODE(h, b) ELSE NEXT_NODE(h, s[i])
    BY <1>4, <1>5, <1>6 DEF Chain
  <1>13. \A i \in 1..n : /\ PREV_NODE(h, s[i]) = IF i = 1 THEN NULL ELSE s[i - 1]
                         /\ NEXT_NODE(h, s[i]) = IF i = n THEN NULL ELSE s[i + 1]
    BY DEF Chain
  <1>14. ASSUME NEW i \in 1..(n - 1)
         PROVE  /\ PREV_NODE(g, t[i]) = IF i = 1 THEN NULL ELSE t[i - 1]
                /\ NEXT_NODE(g, t[i]) = IF i = n - 1 THEN NULL ELSE t[i + 1]
    <2>1. CASE i < k
      <3>1. i \in 1..n /\ t[i] = s[i] /\ i # k + 1 /\ i # k
        BY <2>1, <1>7
      <3>2. PREV_NODE(g, t[i]) = IF i = 1 THEN NULL ELSE s[i - 1]
        BY <3>1, <1>11, <1>13
      <3>3. i # 1 => t[i - 1] = s[i - 1]
        BY <2>1, <1>7
      <3>4. CASE i = k - 1
        <4>1. NEXT_NODE(g, t[i]) = NEXT_NODE(h, b) /\ (k = n <=> i = n - 1)
          BY <3>1, <3>4, <1>12
        <4>2. k # n => t[i + 1] = s[k + 1]
          BY <3>4, <1>7
        <4>3. QED
          BY <3>2, <3>3, <4>1, <4>2, <1>5
      <3>5. CASE i # k - 1
        <4>1. NEXT_NODE(g, t[i]) = s[i + 1] /\ i # n - 1
          BY <2>1, <3>1, <3>5, <1>12, <1>13
        <4>2. t[i + 1] = s[i + 1]
          BY <2>1, <3>5, <4>1, <1>7
        <4>3. QED
          BY <3>2, <3>3, <4>1, <4>2
      <3>6. QED
        BY <3>4, <3>5
    <2>2. CASE i >= k
      <3>1. i + 1 \in 1..n /\ t[i] = s[i + 1] /\ i + 1 # k - 1 /\ i + 1 # k
        BY <2>2, <1>7
      <3>2. NEXT_NODE(g, t[i]) = IF i + 1 = n THEN NULL ELSE s[(i + 1) + 1]
        BY <3>1, <1>12, <1>13
      <3>3. i # n - 1 => t[i + 1] = s[(i + 1) + 1]
        BY <2>2, <1>7
      <3>4. CASE i = k
        <4>1. PREV_NODE(g, t[i]) = PREV_NODE(h, b)
          BY <3>1, <3>4, <1>11
        <4>2. k # 1 => t[i - 1] = s[k - 1]
          BY <3>4, <1>7
        <4>3. QED
          BY <3>2, <3>3, <3>4, <4>1, <4>2, <1>5
      <3>5. CASE i # k
        <4>1. PREV_NODE(g, t[i]) = PREV_NODE(h, s[i + 1]) /\ i # 1
          BY <2>2, <3>1, <3>5, <1>11
        <4>2. PREV_NODE(h, s[i + 1]) = s[(i + 1) - 1] /\ (i + 1) - 1 = i
          BY <3>1, <1>13
        <4>3. t[i - 1] = s[i]
          <5>1. i - 1 \in 1..(n - 1) /\ i - 1 >= k /\ (i - 1) + 1 = i
            BY <2>2, <3>5, <4>1
          <5>2. QED
            BY <5>1, <1>7
        <4>4. QED
          BY <3>2, <3>3, <4>1, <4>2, <4>3
      <3>6. QED
        BY <3>4, <3>5
    <2>3. QED
      BY <2>1, <2>2
  <1>15. Chain(g, G, n - 1, t)
    BY <1>8, <1>9, <1>10, <1>14 DEF Chain
  <1>16. QED
    BY <1>2, <1>15

(* A node keeps its place while no page goes. *)
LEMMA PlacesKept ==
  ASSUME NEW h, NEW g, NEW D, Writes(h, g, D), NEW b
  PROVE  NodePlace(g, b) <=> NodePlace(h, b)
  BY WritesMapped DEF NodePlace

(* Both links of a node survive a write elsewhere. *)
LEMMA OtherNode ==
  ASSUME NEW h, NEW g, NEW b, NEW c, NodePlace(h, b), NodePlace(h, c), b # c,
         Writes(h, g, NodeWords(b))
  PROVE  PREV_NODE(g, c) = PREV_NODE(h, c) /\ NEXT_NODE(g, c) = NEXT_NODE(h, c)
  <1>1. c \in Nat /\ \A a \in NodeWords(c) : GET(g, a) = GET(h, a)
    BY NodesApart DEF Writes, NodePlace
  <1>2. QED
    BY <1>1, LinksKept

(* add_to_free_list writes the nodes of the list and nothing else, and the *)
(* list is then the old one and bp.                                        *)
LEMMA AddList ==
  ASSUME NEW h, IsHeap(h), NEW F, FreeList(h, F), NEW b, NodePlace(h, b), b \notin F
  PROVE  /\ FreeList(add_to_free_list(h, b), F \cup {b})
         /\ Writes(h, add_to_free_list(h, b), ListWords(F \cup {b}))
  <1>0. PICK n \in Nat : \E s \in [1..n -> F] : Chain(h, F, n, s)
    BY DEF FreeList
  <1>1. PICK s \in [1..n -> F] : Chain(h, F, n, s)
    BY <1>0
  <1>2. \A c \in F : NodePlace(h, c) /\ c # NULL
    BY DEF FreeList, NodePlace
  <1>3. \A c \in F \cup {b} : NodeWords(c) \subseteq ListWords(F \cup {b})
    BY DEF ListWords
  <1>4. PICK g : g = add_to_free_list(h, b)
    OBVIOUS
  <1> DEFINE Goal == /\ Writes(h, g, ListWords(F \cup {b})) /\ g.list = b
                     /\ PREV_NODE(g, b) = NULL /\ NEXT_NODE(g, b) = h.list
                     /\ \A c \in F : /\ NEXT_NODE(g, c) = NEXT_NODE(h, c)
                                     /\ PREV_NODE(g, c) = IF c = h.list THEN b ELSE PREV_NODE(h, c)
  <1>5. ASSUME h.list = NULL PROVE Goal
    <2> DEFINE h1 == [h EXCEPT !.list = b]
               h2 == SetPrev(h1, b, NULL)
               h3 == SetNext(h2, b, NULL)
    <2>1. Writes(h, h1, {}) /\ h1.list = b
      BY SetHead
    <2> HIDE DEF h1
    <2>2. IsHeap(h1) /\ NodePlace(h1, b)
      BY <2>1, PlacesKept DEF Writes
    <2>3. Writes(h1, h2, NodeWords(b)) /\ h2.list = b /\ PREV_NODE(h2, b) = NULL
      BY <2>1, <2>2, SetLinks
    <2> HIDE DEF h2
    <2>4. IsHeap(h2) /\ NodePlace(h2, b)
      BY <2>2, <2>3, PlacesKept DEF Writes
    <2>5. /\ Writes(h2, h3, NodeWords(b)) /\ h3.list = b /\ PREV_NODE(h3, b) = NULL
          /\ NEXT_NODE(h3, b) = NULL
      BY <2>3, <2>4, SetLinks
    <2> HIDE DEF h3
    <2>6. g = h3
      BY <1>4, <1>5 DEF add_to_free_list, h1, h2, h3
    <2>7. F = {}
      <3>1. n # 0 => s[1] \in F /\ h.list = s[1]
        BY <1>1 DEF Chain
      <3>2. n = 0
        BY <3>1, <1>2, <1>5
      <3>3. QED
        BY <1>1, <3>2 DEF Chain
    <2>8. Writes(h, g, ListWords(F \cup {b}))
      <3>1. Writes(h, h2, {} \cup NodeWords(b))
        BY <2>1, <2>3, WritesThen
      <3>2. Writes(h, h3, ({} \cup NodeWords(b)) \cup NodeWords(b))
        BY <3>1, <2>5, WritesThen
      <3>3. ({} \cup NodeWords(b)) \cup NodeWords(b) \subseteq ListWords(F \cup {b})
        BY <1>3
      <3>4. QED
        BY <3>2, <3>3, <2>6, WritesMore
    <2>9. QED
      BY <1>5, <2>5, <2>6, <2>7, <2>8
  <1>6. ASSUME h.list # NULL PROVE Goal
    <2> DEFINE x == h.list
               h1 == SetNext(h, b, x)
               h2 == SetPrev(h1, b, NULL)
               h3 == SetPrev(h2, x, b)
               h4 == [h3 EXCEPT !.list = b]
    <2>1. x \in F /\ x # b
      BY <1>1, <1>6 DEF Chain
    <2>2. Writes(h, h1, NodeWords(b)) /\ h1.list = x /\ NEXT_NODE(h1, b) = x
      BY SetLinks
    <2>3. g = [SetPrev(h2, h2.list, b) EXCEPT !.list = b]
      BY <1>4, <1>6 DEF add_to_free_list
    <2> HIDE DEF h1, x
    <2>4. IsHeap(h1) /\ NodePlace(h1, b) /\ \A c \in F : NodePlace(h1, c)
      BY <2>2, <1>2, PlacesKept DEF Writes
    <2>5. /\ Writes(h1, h2, NodeWords(b)) /\ h2.list = x /\ PREV_NODE(h2, b) = NULL
          /\ NEXT_NODE(h2, b) = x
      BY <2>2, <2>4, SetLinks
    <2> HIDE DEF h2
    <2>6. IsHeap(h2) /\ NodePlace(h2, b) /\ \A c \in F : NodePlace(h2, c)
      BY <2>4, <2>5, PlacesKept DEF Writes
    <2>7. \A c \in F : PREV_NODE(h2, c) = PREV_NODE(h, c) /\ NEXT_NODE(h2, c) = NEXT_NODE(h, c)
      BY <1>2, <2>2, <2>4, <2>5, OtherNode
    <2>8. /\ Writes(h2, h3, NodeWords(x)) /\ PREV_NODE(h3, x) = b
          /\ NEXT_NODE(h3, x) = NEXT_NODE(h2, x)
      BY <2>1, <2>6, SetLinks
    <2> HIDE DEF h3
    <2>9. \A c \in (F \cup {b}) \ {x} :
            PREV_NODE(h3, c) = PREV_NODE(h2, c) /\ NEXT_NODE(h3, c) = NEXT_NODE(h2, c)
      BY <2>1, <2>6, <2>8, OtherNode
    <2>10. IsHeap(h3)
      BY <2>8 DEF Writes
    <2>11. Writes(h3, h4, {}) /\ h4.list = b
      BY <2>10, SetHead
    <2> HIDE DEF h4
    <2>12. \A c \in F \cup {b} :
             PREV_NODE(h4, c) = PREV_NODE(h3, c) /\ NEXT_NODE(h4, c) = NEXT_NODE(h3, c)
      <3>1. \A c \in F \cup {b} : c \in Nat
        BY <1>2 DEF NodePlace
      <3>2. \A a : GET(h4, a) = GET(h3, a)
        BY <2>11 DEF Writes
      <3>3. QED
        BY <3>1, <3>2, LinksKept
    <2>13. g = h4
      BY <2>3, <2>5 DEF h4, h3
    <2>14. Writes(h, g, ListWords(F \cup {b}))
      <3>1. Writes(h, h2, NodeWords(b) \cup NodeWords(b))
        BY <2>2, <2>5, WritesThen
      <3>2. Writes(h, h3, (NodeWords(b) \cup NodeWords(b)) \cup NodeWords(x))
        BY <3>1, <2>8, WritesThen
      <3>3. Writes(h, h4, ((NodeWords(b) \cup NodeWords(b)) \cup NodeWords(x)) \cup {})
        BY <3>2, <2>11, WritesThen
      <3>4. ((NodeWords(b) \cup NodeWords(b)) \cup NodeWords(x)) \cup {} \subseteq ListWords(F \cup {b})
        BY <1>3, <2>1
      <3>5. QED
        BY <3>3, <3>4, <2>13, WritesMore
    <2>15. /\ PREV_NODE(g, b) = NULL /\ NEXT_NODE(g, b) = x
           /\ \A c \in F : /\ NEXT_NODE(g, c) = NEXT_NODE(h, c)
                           /\ PREV_NODE(g, c) = IF c = x THEN b ELSE PREV_NODE(h, c)
      BY <2>1, <2>5, <2>7, <2>8, <2>9, <2>12, <2>13
    <2>16. g.list = b
      BY <2>11, <2>13
    <2>17. QED
      BY ONLY <2>14, <2>15, <2>16 DEF x, Goal
  <1>7. Goal
    BY <1>5, <1>6
  <1>8. \E t \in [1..(n + 1) -> F \cup {b}] : Chain(g, F \cup {b}, n + 1, t)
    <2>1. /\ g.list = b /\ PREV_NODE(g, b) = NULL /\ NEXT_NODE(g, b) = h.list
          /\ \A c \in F : /\ NEXT_NODE(g, c) = NEXT_NODE(h, c)
                          /\ PREV_NODE(g, c) = IF c = h.list THEN b ELSE PREV_NODE(h, c)
      BY <1>7
    <2>2. QED
      BY ONLY b \notin F, n \in Nat, s \in [1..n -> F], <1>1, <2>1, ChainPush, ZenonT(60)
  <1>9. \A c \in F \cup {b} : NodePlace(g, c)
    BY <1>2, <1>7, PlacesKept
  <1>10. n + 1 \in Nat
    OBVIOUS
  <1>11. FreeList(g, F \cup {b})
    BY <1>8, <1>9, <1>10 DEF FreeList
  <1>12. QED
    BY <1>4, <1>7, <1>11

(* remove_from_free_list writes the other nodes of the list and nothing    *)
(* else, and the list is then the old one without bp.                      *)
LEMMA RemoveList ==
  ASSUME NEW h, IsHeap(h), NEW F, FreeList(h, F), NEW b \in F
  PROVE  /\ FreeList(remove_from_free_list(h, b), F \ {b})
         /\ Writes(h, remove_from_free_list(h, b), ListWords(F \ {b}))
  <1>0. PICK n \in Nat : \E s \in [1..n -> F] : Chain(h, F, n, s)
    BY DEF FreeList
  <1>1. PICK s \in [1..n -> F] : Chain(h, F, n, s)
    BY <1>0
  <1>2. NULL \notin F /\ \A c \in F : NodePlace(h, c)
    BY DEF FreeList, NodePlace
  <1>3. \A c \in F \ {b} : NodeWords(c) \subseteq ListWords(F \ {b})
    BY DEF ListWords
  <1> DEFINE prev == PREV_NODE(h, b)
             next == NEXT_NODE(h, b)
             head == IF b # h.list THEN h.list ELSE IF prev # NULL THEN prev ELSE next
             h1 == IF next # NULL THEN SetPrev(h, next, prev) ELSE h
             h2 == IF prev # NULL THEN SetNext(h1, prev, next) ELSE h1
             h3 == [h2 EXCEPT !.list = head]
  <1>4. /\ prev # NULL => prev \in F \ {b}
        /\ next # NULL => next \in F \ {b}
        /\ b = h.list => prev = NULL
        /\ prev # NULL /\ next # NULL => prev # next
    <2>1. PICK k \in 1..n : s[k] = b
      BY <1>1 DEF Chain
    <2>2. prev = (IF k = 1 THEN NULL ELSE s[k - 1]) /\ next = (IF k = n THEN NULL ELSE s[k + 1])
      BY <1>1, <2>1 DEF Chain
    <2>3. \A i, j \in 1..n : s[i] = s[j] => i = j
      BY <1>1 DEF Chain
    <2>4. b = h.list => k = 1
      BY <1>1, <2>1 DEF Chain
    <2> HIDE DEF prev, next
    <2>5. QED
      BY <2>1, <2>2, <2>3, <2>4
  <1>5. remove_from_free_list(h, b) = h3
    BY DEF remove_from_free_list
  <1> HIDE DEF prev, next, head
  <1>6. /\ Writes(h, h1, ListWords(F \ {b}))
        /\ next # NULL => PREV_NODE(h1, next) = prev /\ NEXT_NODE(h1, next) = NEXT_NODE(h, next)
        /\ \A c \in F \ {next} : PREV_NODE(h1, c) = PREV_NODE(h, c) /\ NEXT_NODE(h1, c) = NEXT_NODE(h, c)
    <2>1. CASE next # NULL
      <3>1. /\ Writes(h, h1, NodeWords(next)) /\ PREV_NODE(h1, next) = prev
            /\ NEXT_NODE(h1, next) = NEXT_NODE(h, next)
        BY <2>1, <1>2, <1>4, SetLinks
      <3> HIDE DEF h1
      <3>2. \A c \in F \ {next} : PREV_NODE(h1, c) = PREV_NODE(h, c) /\ NEXT_NODE(h1, c) = NEXT_NODE(h, c)
        BY <2>1, <3>1, <1>2, <1>4, OtherNode
      <3>3. QED
        BY <2>1, <3>1, <3>2, <1>3, <1>4, WritesMore
    <2>2. CASE next = NULL
      BY <2>2 DEF Writes
    <2>3. QED
      BY <2>1, <2>2
  <1> HIDE DEF h1
  <1>7. IsHeap(h1) /\ \A c \in F : NodePlace(h1, c)
    BY <1>2, <1>6, PlacesKept DEF Writes
  <1>8. /\ Writes(h1, h2, ListWords(F \ {b}))
        /\ prev # NULL => NEXT_NODE(h2, prev) = next /\ PREV_NODE(h2, prev) = PREV_NODE(h1, prev)
        /\ \A c \in F \ {prev} : PREV_NODE(h2, c) = PREV_NODE(h1, c) /\ NEXT_NODE(h2, c) = NEXT_NODE(h1, c)
    <2>1. CASE prev # NULL
      <3>1. /\ Writes(h1, h2, NodeWords(prev)) /\ NEXT_NODE(h2, prev) = next
            /\ PREV_NODE(h2, prev) = PREV_NODE(h1, prev)
        BY <2>1, <1>7, <1>4, SetLinks
      <3> HIDE DEF h2
      <3>2. \A c \in F \ {prev} : PREV_NODE(h2, c) = PREV_NODE(h1, c) /\ NEXT_NODE(h2, c) = NEXT_NODE(h1, c)
        BY <2>1, <3>1, <1>7, <1>4, OtherNode
      <3>3. QED
        BY <2>1, <3>1, <3>2, <1>3, <1>4, WritesMore
    <2>2. CASE prev = NULL
      BY <2>2, <1>7 DEF Writes
    <2>3. QED
      BY <2>1, <2>2
  <1> HIDE DEF h2
  <1>9. IsHeap(h2)
    BY <1>8 DEF Writes
  <1>10. Writes(h2, h3, {}) /\ h3.list = head
    BY <1>9, SetHead
  <1> HIDE DEF h3
  <1>11. \A c \in F : PREV_NODE(h3, c) = PREV_NODE(h2, c) /\ NEXT_NODE(h3, c) = NEXT_NODE(h2, c)
    <2>1. \A c \in F : c \in Nat
      BY <1>2 DEF NodePlace
    <2>2. \A a : GET(h3, a) = GET(h2, a)
      BY <1>10 DEF Writes
    <2>3. QED
      BY <2>1, <2>2, LinksKept
  <1>12. Writes(h, h3, ListWords(F \ {b}))
    <2>1. Writes(h, h2, ListWords(F \ {b}) \cup ListWords(F \ {b}))
      BY <1>6, <1>8, WritesThen
    <2>2. Writes(h, h3, (ListWords(F \ {b}) \cup ListWords(F \ {b})) \cup {})
      BY <2>1, <1>10, WritesThen
    <2>3. QED
      BY <2>2, WritesMore
  <1>13. \A c \in F \ {b} :
            /\ PREV_NODE(h3, c) = IF c = next THEN prev ELSE PREV_NODE(h, c)
            /\ NEXT_NODE(h3, c) = IF c = prev THEN next ELSE NEXT_NODE(h, c)
    BY <1>2, <1>4, <1>6, <1>8, <1>11
  <1>14. h3.list = IF b # h.list THEN h.list ELSE next
    BY <1>4, <1>10 DEF head
  <1>15. n - 1 \in Nat /\ \E t \in [1..(n - 1) -> F \ {b}] : Chain(h3, F \ {b}, n - 1, t)
    BY <1>1, <1>2, <1>13, <1>14, ChainTake DEF prev, next
  <1>16. \A c \in F \ {b} : NodePlace(h3, c)
    BY <1>2, <1>12, PlacesKept
  <1>17. FreeList(h3, F \ {b})
    BY <1>15, <1>16 DEF FreeList
  <1>18. QED
    BY <1>5, <1>12, <1>17

-----------------------------------------------------------------------------
(* Where the blocks lie *)

(* n bytes of blocks starting at payload b fit between the prologue and    *)
(* the terminator of region r.                                             *)
Lies(r, b, n) == r[1] + 16 <= b /\ b + n <= r[1] + r[2]

BlockOK(b, n) == b \in Nat /\ n \in Nat /\ n >= 32 /\ b % 16 = 0 /\ n % 16 = 0

RegionOK(r) == r[1] \in Nat /\ r[2] \in Nat /\ r[2] >= 48 /\ r[1] % 16 = 0 /\ r[2] % 16 = 0

(* Blocks B of sizes S tile the regions R: each region has a first block,  *)
(* each block a block or an end of its region on either side, and no two   *)
(* overlap.                                                                *)
Layout(R, B, S) ==
  /\ \A r \in R : RegionOK(r) /\ r[1] + 16 \in B
  /\ \A r, q \in R : r # q => r[1] + r[2] <= q[1] \/ q[1] + q[2] <= r[1]
  /\ \A b \in B : BlockOK(b, S[b]) /\ \E r \in R : Lies(r, b, S[b])
  /\ \A b, c \in B : b < c => b + S[b] <= c
  /\ \A r \in R : \A b \in B : Lies(r, b, S[b]) =>
       /\ b + S[b] \in B \/ b + S[b] = r[1] + r[2]
       /\ b = r[1] + 16 \/ \E c \in B : c + S[c] = b

(* A block is in one region. *)
LEMMA OneRegion ==
  ASSUME NEW R, NEW B, NEW S, Layout(R, B, S), NEW r \in R, NEW q \in R, NEW b \in B,
         Lies(r, b, S[b]), Lies(q, b, S[b])
  PROVE  r = q
  <1>1. BlockOK(b, S[b]) /\ RegionOK(r) /\ RegionOK(q)
    BY DEF Layout
  <1>2. r # q => r[1] + r[2] <= q[1] \/ q[1] + q[2] <= r[1]
    BY DEF Layout
  <1>3. QED
    BY <1>1, <1>2 DEF Lies, BlockOK, RegionOK

(* A block follows another in the same region. *)
LEMMA SameRegion ==
  ASSUME NEW R, NEW B, NEW S, Layout(R, B, S), NEW r \in R, NEW b \in B, NEW c \in B,
         b + S[b] = c
  PROVE  Lies(r, b, S[b]) <=> Lies(r, c, S[c])
  <1>1. PICK q \in R : Lies(q, c, S[c])
    BY DEF Layout
  <1>2. PICK p \in R : Lies(p, b, S[b])
    BY DEF Layout
  <1>3. BlockOK(b, S[b]) /\ BlockOK(c, S[c]) /\ RegionOK(q) /\ RegionOK(p) /\ RegionOK(r)
    BY DEF Layout
  <1>4. \A x, y \in R : x # y => x[1] + x[2] <= y[1] \/ y[1] + y[2] <= x[1]
    BY DEF Layout
  <1>5. p = q
    <2>1. p # q => p[1] + p[2] <= q[1] \/ q[1] + q[2] <= p[1]
      BY <1>4
    <2>2. QED
      BY <1>1, <1>2, <1>3, <2>1 DEF Lies, BlockOK, RegionOK
  <1>6. (Lies(r, b, S[b]) => r = p) /\ (Lies(r, c, S[c]) => r = q)
    BY <1>1, <1>2, OneRegion
  <1>7. QED
    BY <1>1, <1>2, <1>5, <1>6

(* set_allocated cuts a block in two. *)
LEMMA SplitLayout ==
  ASSUME NEW R, NEW B, NEW S, Layout(R, B, S), NEW b \in B, NEW n \in Nat,
         n >= 32, n % 16 = 0, S[b] - n >= 32,
         NEW T, T = [c \in B \cup {b + n} |-> IF c = b THEN n ELSE IF c = b + n THEN S[b] - n ELSE S[c]]
  PROVE  b + n \notin B /\ Layout(R, B \cup {b + n}, T)
  <1> DEFINE d == b + n
             C == B \cup {d}
  <1>1. \A c \in B : BlockOK(c, S[c])
    BY DEF Layout
  <1>2. BlockOK(b, S[b]) /\ d \in Nat
    BY <1>1 DEF BlockOK
  <1>3. d \notin B
    <2>1. d \in B => b + S[b] <= d
      BY <1>2 DEF Layout, BlockOK
    <2>2. QED
      BY <2>1, <1>2 DEF BlockOK
  <1>4. T[b] = n /\ T[d] = S[b] - n /\ b # d /\ \A c \in B \ {b} : T[c] = S[c]
    BY <1>2, <1>3 DEF BlockOK
  <1>5. BlockOK(b, n) /\ BlockOK(d, S[b] - n)
    BY <1>2 DEF BlockOK
  <1>6. \A r \in R : RegionOK(r) /\ r[1] + 16 \in C
    BY DEF Layout
  <1>7. \A r, q \in R : r # q => r[1] + r[2] <= q[1] \/ q[1] + q[2] <= r[1]
    BY DEF Layout
  <1>8. \A r \in R : /\ \A c \in B \ {b} : Lies(r, c, T[c]) <=> Lies(r, c, S[c])
                     /\ Lies(r, b, T[b]) <=> Lies(r, b, S[b])
                     /\ Lies(r, d, T[d]) <=> Lies(r, b, S[b])
    <2> SUFFICES ASSUME NEW r \in R
                 PROVE  (Lies(r, b, T[b]) <=> Lies(r, b, S[b])) /\ (Lies(r, d, T[d]) <=> Lies(r, b, S[b]))
      BY <1>4
    <2>1. PICK q \in R : Lies(q, b, S[b])
      BY DEF Layout
    <2>2. RegionOK(r) /\ RegionOK(q)
      BY <1>6
    <2>3. r # q => r[1] + r[2] <= q[1] \/ q[1] + q[2] <= r[1]
      BY <1>7
    <2>4. QED
      BY <2>1, <2>2, <2>3, <1>2, <1>4 DEF Lies, BlockOK, RegionOK
  <1>9. \A c \in C : BlockOK(c, T[c]) /\ \E r \in R : Lies(r, c, T[c])
    BY <1>1, <1>4, <1>5, <1>8 DEF Layout
  <1>10. ASSUME NEW x \in C, NEW y \in C, x < y PROVE x + T[x] <= y
    <2>1. \A u, v \in B : u < v => u + S[u] <= v
      BY DEF Layout
    <2>2. \A u \in B : u \in Nat /\ S[u] \in Nat /\ S[u] >= 32
      BY <1>1 DEF BlockOK
    <2>3. QED
      BY <2>1, <2>2, <1>4, <1>10, <1>2
  <1>11. ASSUME NEW r \in R, NEW x \in C, Lies(r, x, T[x])
         PROVE  /\ x + T[x] \in C \/ x + T[x] = r[1] + r[2]
                /\ x = r[1] + 16 \/ \E c \in C : c + T[c] = x
    <2>1. /\ b + S[b] \in B \/ b + S[b] = r[1] + r[2] \/ ~Lies(r, b, S[b])
          /\ b = r[1] + 16 \/ (\E c \in B : c + S[c] = b) \/ ~Lies(r, b, S[b])
      BY DEF Layout
    <2>2. CASE x = b
      <3>1. x + T[x] = d
        BY <2>2, <1>4
      <3>2. ASSUME NEW c \in B, c + S[c] = b PROVE c + T[c] = b
        BY <3>2, <1>1, <1>4 DEF BlockOK
      <3>3. QED
        BY <2>1, <2>2, <3>1, <3>2, <1>8, <1>11
    <2>3. CASE x = d
      <3>1. x + T[x] = b + S[b] /\ b + T[b] = x
        BY <2>3, <1>2, <1>4 DEF BlockOK
      <3>2. QED
        BY <2>1, <2>3, <3>1, <1>8, <1>11
    <2>4. CASE x \in B \ {b}
      <3>1. T[x] = S[x] /\ Lies(r, x, S[x])
        BY <2>4, <1>4, <1>8, <1>11
      <3>2. x + S[x] \in B \/ x + S[x] = r[1] + r[2]
        BY <2>4, <3>1 DEF Layout
      <3>3. x = r[1] + 16 \/ \E c \in B : c + S[c] = x
        BY <2>4, <3>1 DEF Layout
      <3>4. ASSUME NEW c \in B, c + S[c] = x PROVE \E e \in C : e + T[e] = x
        <4>1. CASE c = b
          <5>1. d + T[d] = x
            BY <4>1, <3>4, <1>2, <1>4 DEF BlockOK
          <5>2. QED
            BY <5>1
        <4>2. CASE c # b
          BY <4>2, <3>4, <1>4
        <4>3. QED
          BY <4>1, <4>2
      <3>5. QED
        BY <3>1, <3>2, <3>3, <3>4
    <2>5. QED
      BY <2>2, <2>3, <2>4
  <1>12. QED
    BY <1>3, <1>6, <1>7, <1>9, <1>10, <1>11 DEF Layout

(* coalesce joins a block with the one behind it. *)
LEMMA MergeLayout ==
  ASSUME NEW R, NEW B, NEW S, Layout(R, B, S), NEW b \in B, NEW d \in B, b + S[b] = d,
         NEW T, T = [c \in B \ {d} |-> IF c = b THEN S[b] + S[d] ELSE S[c]]
  PROVE  Layout(R, B \ {d}, T) /\ \A r \in R : Lies(r, b, T[b]) <=> Lies(r, b, S[b])
  <1> DEFINE C == B \ {d}
  <1>1. \A c \in B : BlockOK(c, S[c])
    BY DEF Layout
  <1>2. BlockOK(b, S[b]) /\ BlockOK(d, S[d])
    BY <1>1
  <1>3. b # d
    BY <1>2 DEF BlockOK
  <1>4. T[b] = S[b] + S[d] /\ \A c \in C \ {b} : T[c] = S[c]
    BY <1>3
  <1>5. BlockOK(b, S[b] + S[d])
    BY <1>2 DEF BlockOK
  <1>7. \A r, q \in R : r # q => r[1] + r[2] <= q[1] \/ q[1] + q[2] <= r[1]
    BY DEF Layout
  <1>8. \A r \in R : /\ \A c \in C \ {b} : Lies(r, c, T[c]) <=> Lies(r, c, S[c])
                     /\ Lies(r, b, T[b]) <=> Lies(r, b, S[b])
    <2> SUFFICES ASSUME NEW r \in R
                 PROVE  (Lies(r, b, T[b]) <=> Lies(r, b, S[b]))
      BY <1>4
    <2>1. RegionOK(r)
      BY DEF Layout
    <2>2. Lies(r, b, S[b]) <=> Lies(r, d, S[d])
      BY SameRegion
    <2>3. QED
      BY <2>1, <2>2, <1>2, <1>4 DEF Lies, BlockOK, RegionOK
  <1>6. ASSUME NEW r \in R PROVE RegionOK(r) /\ r[1] + 16 \in C
    <2>1. RegionOK(r) /\ r[1] + 16 \in B
      BY DEF Layout
    <2>2. Lies(r, b, S[b]) <=> Lies(r, d, S[d])
      BY SameRegion
    <2>3. PICK q \in R : Lies(q, d, S[d])
      BY DEF Layout
    <2>4. RegionOK(q)
      BY DEF Layout
    <2>5. Lies(q, b, S[b])
      BY <2>3, SameRegion
    <2>6. r # q => r[1] + r[2] <= q[1] \/ q[1] + q[2] <= r[1]
      BY <1>7
    <2>7. PICK p \in R : Lies(p, r[1] + 16, S[r[1] + 16])
      BY <2>1 DEF Layout
    <2>8. RegionOK(p) /\ BlockOK(r[1] + 16, S[r[1] + 16]) /\ (r # p => r[1] + r[2] <= p[1] \/ p[1] + p[2] <= r[1])
      BY <1>1, <1>7, <2>1, <2>7 DEF Layout
    <2>9. Lies(p, b, S[b]) => p = q
      BY <2>5, OneRegion
    <2>10. r[1] + 16 = d => Lies(p, b, S[b])
      BY <2>7, SameRegion
    <2>11. ASSUME r[1] + 16 = d PROVE FALSE
      <3>1. p = q /\ Lies(p, d, S[d]) /\ Lies(p, b, S[b])
        BY <2>7, <2>9, <2>10, <2>11
      <3>2. r # p => r[1] + r[2] <= p[1] \/ p[1] + p[2] <= r[1]
        BY <2>8
      <3>3. r = p
        BY <1>2, <2>1, <2>8, <2>11, <3>1, <3>2 DEF Lies, RegionOK, BlockOK
      <3>4. QED
        BY <1>2, <2>1, <2>11, <3>1, <3>3 DEF Lies, RegionOK, BlockOK
    <2>12. QED
      BY <2>1, <2>11
  <1>9. ASSUME NEW c \in C PROVE BlockOK(c, T[c]) /\ \E r \in R : Lies(r, c, T[c])
    <2>1. PICK r \in R : Lies(r, c, S[c])
      BY DEF Layout
    <2>2. Lies(r, c, T[c])
      BY <1>8, <2>1
    <2>3. BlockOK(c, T[c])
      BY <1>1, <1>4, <1>5
    <2>4. QED
      BY <2>2, <2>3
  <1>10. ASSUME NEW x \in C, NEW y \in C, x < y PROVE x + T[x] <= y
    <2>1. \A u, v \in B : u < v => u + S[u] <= v
      BY DEF Layout
    <2>2. \A u \in B : u \in Nat /\ S[u] \in Nat /\ S[u] >= 32
      BY <1>1 DEF BlockOK
    <2>3. CASE x = b
      <3>1. d <= y
        BY <2>1, <2>3, <1>10
      <3>2. d < y
        BY <2>2, <3>1
      <3>3. d + S[d] <= y
        BY <3>2, <2>1
      <3>4. QED
        BY <3>3, <2>2, <2>3, <1>4
    <2>4. CASE x # b
      BY <2>1, <2>4, <1>4, <1>10
    <2>5. QED
      BY <2>3, <2>4
  <1>11. ASSUME NEW r \in R, NEW x \in C, Lies(r, x, T[x])
         PROVE  /\ x + T[x] \in C \/ x + T[x] = r[1] + r[2]
                /\ x = r[1] + 16 \/ \E c \in C : c + T[c] = x
    <2>1. Lies(r, x, S[x])
      BY <1>8, <1>11
    <2>2. /\ x + S[x] \in B \/ x + S[x] = r[1] + r[2]
          /\ x = r[1] + 16 \/ \E c \in B : c + S[c] = x
      BY <2>1 DEF Layout
    <2>3. ASSUME NEW c \in B, c + S[c] = x PROVE \E e \in C : e + T[e] = x
      <3>1. CASE c = d
        <4>1. b + T[b] = x /\ b \in C
          BY <3>1, <2>3, <1>2, <1>3, <1>4 DEF BlockOK
        <4>2. QED
          BY <4>1
      <3>2. CASE c # d
        <4>1. c # b
          BY <2>3
        <4>2. QED
          BY <3>2, <4>1, <2>3, <1>4
      <3>3. QED
        BY <3>1, <3>2
    <2>4. CASE x = b
      <3>1. Lies(r, d, S[d])
        BY <2>1, <2>4, SameRegion
      <3>2. d + S[d] \in B \/ d + S[d] = r[1] + r[2]
        BY <3>1 DEF Layout
      <3>3. x + T[x] = d + S[d] /\ d + S[d] # d
        BY <2>4, <1>2, <1>4 DEF BlockOK
      <3>4. QED
        BY <2>2, <2>3, <3>2, <3>3
    <2>5. CASE x # b
      <3>1. T[x] = S[x]
        BY <2>5, <1>4
      <3>2. x + S[x] # d
        <4>1. \A u, v \in B : u < v => u + S[u] <= v
          BY DEF Layout
        <4>2. BlockOK(x, S[x])
          BY <1>1
        <4>3. QED
          BY <4>1, <4>2, <2>5, <1>2 DEF BlockOK
      <3>3. QED
        BY <2>2, <2>3, <3>1, <3>2
    <2>6. QED
      BY <2>4, <2>5
  <1>12. QED
    BY <1>6, <1>7, <1>8, <1>9, <1>10, <1>11 DEF Layout

(* extend adds a region of one block. *)
LEMMA AddLayout ==
  ASSUME NEW R, NEW B, NEW S, Layout(R, B, S), NEW r, RegionOK(r),
         \A q \in R : r[1] + r[2] <= q[1] \/ q[1] + q[2] <= r[1],
         NEW T, T = [c \in B \cup {r[1] + 16} |-> IF c = r[1] + 16 THEN r[2] - 16 ELSE S[c]]
  PROVE  /\ r[1] + 16 \notin B /\ Layout(R \cup {r}, B \cup {r[1] + 16}, T)
         /\ \A c \in B : c + S[c] <= r[1] \/ r[1] + r[2] + 16 <= c
  <1> DEFINE d == r[1] + 16
             C == B \cup {d}
             Q == R \cup {r}
  <1>1. \A c \in B : BlockOK(c, S[c]) /\ \E q \in R : Lies(q, c, S[c])
    BY DEF Layout
  <1>2. ASSUME NEW c \in B PROVE c + S[c] <= r[1] \/ r[1] + r[2] + 16 <= c
    <2>1. PICK q \in R : Lies(q, c, S[c])
      BY <1>1
    <2>2. RegionOK(q) /\ BlockOK(c, S[c]) /\ (r[1] + r[2] <= q[1] \/ q[1] + q[2] <= r[1])
      BY <1>1 DEF Layout
    <2>3. QED
      BY <2>1, <2>2 DEF Lies, RegionOK, BlockOK
  <1>3. d \notin B
    BY <1>1, <1>2 DEF RegionOK, BlockOK
  <1>4. T[d] = r[2] - 16 /\ \A c \in B : T[c] = S[c]
    BY <1>3
  <1>5. BlockOK(d, r[2] - 16) /\ Lies(r, d, r[2] - 16)
    BY DEF RegionOK, BlockOK, Lies
  <1>6. \A q \in Q : RegionOK(q) /\ q[1] + 16 \in C
    BY DEF Layout
  <1>7. \A p, q \in Q : p # q => p[1] + p[2] <= q[1] \/ q[1] + q[2] <= p[1]
    BY DEF Layout
  <1>8. \A c \in C : BlockOK(c, T[c]) /\ \E q \in Q : Lies(q, c, T[c])
    BY <1>1, <1>4, <1>5
  <1>9. ASSUME NEW x \in C, NEW y \in C, x < y PROVE x + T[x] <= y
    <2>1. x \in B /\ y \in B => x + S[x] <= y
      BY <1>9 DEF Layout
    <2>2. QED
      BY <2>1, <1>1, <1>2, <1>4, <1>9 DEF RegionOK, BlockOK
  <1>10. ASSUME NEW q \in Q, NEW x \in C, Lies(q, x, T[x])
         PROVE  /\ x + T[x] \in C \/ x + T[x] = q[1] + q[2]
                /\ x = q[1] + 16 \/ \E c \in C : c + T[c] = x
    <2>1. CASE x = d
      <3>1. q = r
        <4>1. q # r => q \in R /\ (r[1] + r[2] <= q[1] \/ q[1] + q[2] <= r[1])
          OBVIOUS
        <4>2. RegionOK(q)
          BY <1>6
        <4>3. Lies(q, d, r[2] - 16)
          BY <2>1, <1>4, <1>10
        <4> HIDE DEF Q
        <4>4. CASE q # r
          BY <4>1, <4>2, <4>3, <4>4 DEF Lies, RegionOK
        <4>5. QED
          BY <4>4
      <3>2. d + T[d] = r[1] + r[2]
        BY <1>4 DEF RegionOK
      <3>3. QED
        BY <2>1, <3>1, <3>2
    <2>2. CASE x # d
      <3>1. x \in B /\ T[x] = S[x] /\ Lies(q, x, S[x])
        BY <2>2, <1>4, <1>10
      <3>2. q # r
        BY <3>1, <1>1, <1>2 DEF Lies, RegionOK, BlockOK
      <3>3. q \in R
        BY <3>2
      <3>4. /\ x + S[x] \in B \/ x + S[x] = q[1] + q[2]
            /\ x = q[1] + 16 \/ \E c \in B : c + S[c] = x
        BY <3>1, <3>3 DEF Layout
      <3>5. QED
        BY <3>1, <3>4, <1>4
    <2>3. QED
      BY <2>1, <2>2
  <1>11. QED
    BY <1>2, <1>3, <1>6, <1>7, <1>8, <1>9, <1>10 DEF Layout

(* mm_free gives back a region of one block. *)
LEMMA DropLayout ==
  ASSUME NEW R, NEW B, NEW S, Layout(R, B, S), NEW r \in R, NEW b \in B,
         b = r[1] + 16, b + S[b] = r[1] + r[2]
  PROVE  /\ Layout(R \ {r}, B \ {b}, S)
         /\ \A c \in B \ {b} : ~Lies(r, c, S[c])
         /\ \A q \in R : q[1] = r[1] => q = r
  <1> DEFINE C == B \ {b}
             Q == R \ {r}
  <1>1. RegionOK(r) /\ \A q \in R : RegionOK(q)
    BY DEF Layout
  <1>2. \A c \in B : BlockOK(c, S[c])
    BY DEF Layout
  <1>3. ASSUME NEW c \in C PROVE ~Lies(r, c, S[c])
    <2>1. b < c => b + S[b] <= c
      BY DEF Layout
    <2>2. BlockOK(c, S[c]) /\ BlockOK(b, S[b])
      BY <1>2
    <2>3. QED
      BY <2>1, <2>2, <1>1 DEF Lies, BlockOK, RegionOK
  <1>4. \A q \in R : q[1] = r[1] => q = r
    <2> SUFFICES ASSUME NEW q \in R, q # r PROVE q[1] # r[1]
      OBVIOUS
    <2>1. r[1] + r[2] <= q[1] \/ q[1] + q[2] <= r[1]
      BY DEF Layout
    <2>2. QED
      BY <2>1, <1>1 DEF RegionOK
  <1>5. ASSUME NEW q \in Q PROVE RegionOK(q) /\ q[1] + 16 \in C
    <2>1. RegionOK(q) /\ q[1] + 16 \in B
      BY DEF Layout
    <2>2. q[1] # r[1]
      BY <1>4
    <2>3. q[1] + 16 # r[1] + 16
      BY <2>1, <2>2, <1>1 DEF RegionOK
    <2>4. QED
      BY <2>1, <2>3
  <1>6. \A p, q \in Q : p # q => p[1] + p[2] <= q[1] \/ q[1] + q[2] <= p[1]
    BY DEF Layout
  <1>7. \A c \in C : BlockOK(c, S[c]) /\ \E q \in Q : Lies(q, c, S[c])
    <2> SUFFICES ASSUME NEW c \in C PROVE \E q \in Q : Lies(q, c, S[c])
      BY <1>2
    <2>1. PICK q \in R : Lies(q, c, S[c])
      BY DEF Layout
    <2>2. QED
      BY <2>1, <1>3
  <1>8. \A x, y \in C : x < y => x + S[x] <= y
    BY DEF Layout
  <1>9. ASSUME NEW q \in Q, NEW x \in C, Lies(q, x, S[x])
        PROVE  /\ x + S[x] \in C \/ x + S[x] = q[1] + q[2]
               /\ x = q[1] + 16 \/ \E c \in C : c + S[c] = x
    <2>1. /\ x + S[x] \in B \/ x + S[x] = q[1] + q[2]
          /\ x = q[1] + 16 \/ \E c \in B : c + S[c] = x
      BY <1>9 DEF Layout
    <2>2. ~Lies(r, x, S[x])
      BY <1>3
    <2>3. Lies(r, b, S[b])
      BY <1>1, <1>2 DEF Lies, RegionOK, BlockOK
    <2>4. x + S[x] # b
      BY <2>2, <2>3, SameRegion
    <2>5. b + S[b] # x
      BY <2>2, <2>3, SameRegion
    <2>6. QED
      BY <2>1, <2>4, <2>5
  <1>10. QED
    BY <1>3, <1>4, <1>5, <1>6, <1>7, <1>8, <1>9 DEF Layout

-----------------------------------------------------------------------------
(* Tags *)

Tag(S, A, b) == S[b] + (IF b \in A THEN 1 ELSE 0)

(* The blocks C carry their tags, those of A marked as allocated.          *)
Tags(h, C, S, A) == \A b \in C : GET(h, b - 4) = Tag(S, A, b) /\ GET(h, b + S[b] - 8) = Tag(S, A, b)

(* The two words of the prologue and the terminator of every region.       *)
Marks(h, R) == \A r \in R : GET(h, r[1] + 4) = 9 /\ GET(h, r[1] + 8) = 9 /\ GET(h, r[1] + r[2] - 4) = 1

(* The words between header and footer, and with them.                     *)
Payload(S, b) == {a \in Int : b <= a /\ a + 4 <= b + S[b] - 8}
BlockWords(S, b) == {a \in Int : b - 4 <= a /\ a <= b + S[b] - 8}

(* The owners' words are as they were. *)
SamePayloads(h, g, S, A) == \A b \in A : \A a \in Payload(S, b) : GET(g, a) = GET(h, a)

(* What the words of a block are apart from. *)
LEMMA WordsApart ==
  ASSUME NEW R, NEW B, NEW S, Layout(R, B, S), NEW b \in B
  PROVE  /\ b - 4 \in BlockWords(S, b) /\ b + S[b] - 8 \in BlockWords(S, b)
         /\ NodeWords(b) \subseteq BlockWords(S, b) /\ Payload(S, b) \subseteq BlockWords(S, b)
         /\ b - 4 \notin NodeWords(b) /\ b + S[b] - 8 \notin NodeWords(b)
         /\ \A c \in B \ {b} : BlockWords(S, b) \cap BlockWords(S, c) = {}
         /\ \A r \in R : BlockWords(S, b) \cap {r[1] + 4, r[1] + 8, r[1] + r[2] - 4} = {}
  <1>1. BlockOK(b, S[b])
    BY DEF Layout
  <1>2. /\ b - 4 \in BlockWords(S, b) /\ b + S[b] - 8 \in BlockWords(S, b)
        /\ NodeWords(b) \subseteq BlockWords(S, b) /\ Payload(S, b) \subseteq BlockWords(S, b)
        /\ b - 4 \notin NodeWords(b) /\ b + S[b] - 8 \notin NodeWords(b)
    BY <1>1 DEF BlockOK, BlockWords, NodeWords, Payload
  <1>3. ASSUME NEW c \in B \ {b} PROVE BlockWords(S, b) \cap BlockWords(S, c) = {}
    <2>1. BlockOK(c, S[c])
      BY DEF Layout
    <2>2. (b < c => b + S[b] <= c) /\ (c < b => c + S[c] <= b)
      BY DEF Layout
    <2>3. b + S[b] <= c \/ c + S[c] <= b
      BY <1>1, <2>1, <2>2 DEF BlockOK
    <2>4. QED
      BY <1>1, <2>1, <2>3 DEF BlockOK, BlockWords
  <1>4. ASSUME NEW r \in R
        PROVE  BlockWords(S, b) \cap {r[1] + 4, r[1] + 8, r[1] + r[2] - 4} = {}
    <2>1. PICK q \in R : Lies(q, b, S[b])
      BY DEF Layout
    <2>2. RegionOK(q) /\ RegionOK(r) /\ (r # q => r[1] + r[2] <= q[1] \/ q[1] + q[2] <= r[1])
      BY DEF Layout
    <2>3. CASE r = q
      BY <1>1, <2>1, <2>2, <2>3 DEF Lies, BlockOK, RegionOK, BlockWords
    <2>4. CASE r[1] + r[2] <= q[1]
      BY <1>1, <2>1, <2>2, <2>4 DEF Lies, BlockOK, RegionOK, BlockWords
    <2>5. CASE q[1] + q[2] <= r[1]
      BY <1>1, <2>1, <2>2, <2>5 DEF Lies, BlockOK, RegionOK, BlockWords
    <2>6. QED
      BY <2>2, <2>3, <2>4, <2>5
  <1>5. QED
    BY <1>2, <1>3, <1>4

(* Changes to list nodes leave the tags, the marks and the payloads of     *)
(* other blocks alone.                                                     *)
LEMMA ListFrame ==
  ASSUME NEW R, NEW B, NEW S, Layout(R, B, S), NEW F \in SUBSET B,
         NEW h, NEW g, Writes(h, g, ListWords(F))
  PROVE  /\ \A C \in SUBSET B : \A A : Tags(h, C, S, A) => Tags(g, C, S, A)
         /\ Marks(h, R) => Marks(g, R)
         /\ \A A \in SUBSET (B \ F) : SamePayloads(h, g, S, A)
  <1>1. \A a : a \notin ListWords(F) => GET(g, a) = GET(h, a)
    BY DEF Writes
  <1>2. ASSUME NEW c \in B PROVE c - 4 \notin ListWords(F) /\ c + S[c] - 8 \notin ListWords(F)
    <2> SUFFICES ASSUME NEW f \in F PROVE c - 4 \notin NodeWords(f) /\ c + S[c] - 8 \notin NodeWords(f)
      BY DEF ListWords
    <2>1. CASE c = f
      BY <2>1, WordsApart
    <2>2. CASE c # f
      <3>1. /\ c - 4 \in BlockWords(S, c) /\ c + S[c] - 8 \in BlockWords(S, c)
            /\ NodeWords(f) \subseteq BlockWords(S, f) /\ BlockWords(S, c) \cap BlockWords(S, f) = {}
        BY <2>2, WordsApart
      <3>2. QED
        BY <3>1
    <2>3. QED
      BY <2>1, <2>2
  <1>3. \A C \in SUBSET B : \A A : Tags(h, C, S, A) => Tags(g, C, S, A)
    BY <1>1, <1>2 DEF Tags
  <1>4. Marks(h, R) => Marks(g, R)
    <2>1. ASSUME NEW r \in R
          PROVE  {r[1] + 4, r[1] + 8, r[1] + r[2] - 4} \cap ListWords(F) = {}
      <3> SUFFICES ASSUME NEW f \in F
                   PROVE  {r[1] + 4, r[1] + 8, r[1] + r[2] - 4} \cap NodeWords(f) = {}
        BY DEF ListWords
      <3>1. /\ NodeWords(f) \subseteq BlockWords(S, f)
            /\ BlockWords(S, f) \cap {r[1] + 4, r[1] + 8, r[1] + r[2] - 4} = {}
        BY WordsApart
      <3>2. QED
        BY <3>1
    <2>2. QED
      BY <1>1, <2>1 DEF Marks
  <1>5. ASSUME NEW A \in SUBSET (B \ F), NEW b \in A, NEW a \in Payload(S, b)
        PROVE  GET(g, a) = GET(h, a)
    <2>1. a \notin ListWords(F)
      <3> SUFFICES ASSUME NEW f \in F PROVE a \notin NodeWords(f)
        BY DEF ListWords
      <3>1. /\ Payload(S, b) \subseteq BlockWords(S, b)
            /\ NodeWords(f) \subseteq BlockWords(S, f) /\ BlockWords(S, b) \cap BlockWords(S, f) = {}
        BY WordsApart
      <3>2. QED
        BY <3>1
    <2>2. QED
      BY <1>1, <2>1
  <1>6. QED
    BY <1>3, <1>4, <1>5 DEF SamePayloads

(* Changes to words of one block leave the rest alone.                     *)
LEMMA BlockFrame ==
  ASSUME NEW R, NEW B, NEW S, Layout(R, B, S), NEW b \in B, NEW D \in SUBSET BlockWords(S, b),
         NEW h, NEW g, Writes(h, g, D)
  PROVE  /\ \A C \in SUBSET (B \ {b}) : \A A : Tags(h, C, S, A) => Tags(g, C, S, A)
         /\ Marks(h, R) => Marks(g, R)
         /\ \A A \in SUBSET (B \ {b}) : SamePayloads(h, g, S, A)
         /\ \A F \in SUBSET B : FreeList(h, F) /\ g.list = h.list /\ (b \in F => D \cap NodeWords(b) = {})
                                 => FreeList(g, F)
  <1>1. \A a : a \notin BlockWords(S, b) => GET(g, a) = GET(h, a)
    BY DEF Writes
  <1>2. ASSUME NEW c \in B \ {b}, NEW a \in BlockWords(S, c) PROVE GET(g, a) = GET(h, a)
    BY <1>1, WordsApart
  <1>3. \A C \in SUBSET (B \ {b}) : \A A : Tags(h, C, S, A) => Tags(g, C, S, A)
    <2>1. \A c \in B \ {b} : GET(g, c - 4) = GET(h, c - 4) /\ GET(g, c + S[c] - 8) = GET(h, c + S[c] - 8)
      BY <1>2, WordsApart
    <2>2. QED
      BY <2>1 DEF Tags
  <1>4. Marks(h, R) => Marks(g, R)
    <2>1. ASSUME NEW r \in R
          PROVE  {r[1] + 4, r[1] + 8, r[1] + r[2] - 4} \cap BlockWords(S, b) = {}
      BY WordsApart
    <2>2. QED
      BY <1>1, <2>1 DEF Marks
  <1>5. \A A \in SUBSET (B \ {b}) : SamePayloads(h, g, S, A)
    BY <1>2, WordsApart DEF SamePayloads
  <1>6. ASSUME NEW F \in SUBSET B, FreeList(h, F), g.list = h.list, b \in F => D \cap NodeWords(b) = {}
        PROVE  FreeList(g, F)
    <2>1. \A c \in F : NodePlace(g, c) /\ c \in Nat
      BY <1>6, PlacesKept DEF FreeList, NodePlace
    <2>2. \A c \in F : \A a \in NodeWords(c) : GET(g, a) = GET(h, a)
      <3> SUFFICES ASSUME NEW c \in F, NEW a \in NodeWords(c) PROVE GET(g, a) = GET(h, a)
        OBVIOUS
      <3>1. CASE c = b
        BY <3>1, <1>6 DEF Writes
      <3>2. CASE c # b
        <4>1. a \in BlockWords(S, c)
          BY WordsApart
        <4>2. QED
          BY <3>2, <4>1, <1>2
      <3>3. QED
        BY <3>1, <3>2
    <2>3. \A c \in F : PREV_NODE(g, c) = PREV_NODE(h, c) /\ NEXT_NODE(g, c) = NEXT_NODE(h, c)
      BY <2>1, <2>2, LinksKept
    <2>4. PICK n \in Nat : \E s \in [1..n -> F] : Chain(h, F, n, s)
      BY <1>6 DEF FreeList
    <2>5. PICK s \in [1..n -> F] : Chain(h, F, n, s)
      BY <2>4
    <2>6. \A i \in 1..n : s[i] \in F
      OBVIOUS
    <2>7. Chain(g, F, n, s)
      BY <1>6, <2>3, <2>5, <2>6 DEF Chain
    <2>8. QED
      BY <2>1, <2>7 DEF FreeList
  <1>7. QED
    BY <1>3, <1>4, <1>5, <1>6

(* What the macros of mm.c read from a tag. *)
LEMMA ReadTag ==
  ASSUME NEW h, NEW p, NEW n \in Nat, n % 8 = 0
  PROVE  /\ GET(h, p) = n => GET_SIZE(h, p) = n /\ GET_ALLOC(h, p) = 0
         /\ GET(h, p) = n + 1 => GET_SIZE(h, p) = n /\ GET_ALLOC(h, p) = 1
  <1>1. n % 8 = 0 /\ n % 2 = 0 /\ (n + 1) % 8 = 1 /\ (n + 1) % 2 = 1
    OBVIOUS
  <1>2. QED
    BY <1>1 DEF GET_SIZE, GET_ALLOC

(* The macros read size, allocation bit, footer and next block off a tag.  *)
LEMMA ReadTags ==
  ASSUME NEW R, NEW B, NEW S, Layout(R, B, S), NEW C \in SUBSET B, NEW A, NEW h, Tags(h, C, S, A),
         NEW b \in C
  PROVE  /\ GET_SIZE(h, HDPR(b)) = S[b] /\ GET_ALLOC(h, HDPR(b)) = IF b \in A THEN 1 ELSE 0
         /\ FTRP(h, b) = b + S[b] - 8 /\ NEXT_BLKP(h, b) = b + S[b]
         /\ GET_SIZE(h, b + S[b] - 8) = S[b]
         /\ GET_ALLOC(h, b + S[b] - 8) = IF b \in A THEN 1 ELSE 0
  <1>1. b \in Nat /\ S[b] \in Nat /\ S[b] % 8 = 0
    BY DEF Layout, BlockOK
  <1>2. /\ GET(h, b - 4) = IF b \in A THEN S[b] + 1 ELSE S[b]
        /\ GET(h, b + S[b] - 8) = IF b \in A THEN S[b] + 1 ELSE S[b]
    BY <1>1 DEF Tags, Tag
  <1>3. /\ GET_SIZE(h, b - 4) = S[b] /\ GET_ALLOC(h, b - 4) = IF b \in A THEN 1 ELSE 0
        /\ GET_SIZE(h, b + S[b] - 8) = S[b]
        /\ GET_ALLOC(h, b + S[b] - 8) = IF b \in A THEN 1 ELSE 0
    BY <1>1, <1>2, ReadTag
  <1>4. QED
    BY <1>1, <1>3 DEF HDPR, FTRP, NEXT_BLKP, OVERHEAD

(* Header and footer are written where the new size puts them.             *)
LEMMA WriteTags ==
  ASSUME NEW h, IsHeap(h), NEW b \in Nat, NEW n \in Nat, n % 16 = 0, NEW t \in {0, 1},
         Mapped(h, b - 4), Mapped(h, b + n - 8)
  PROVE  /\ Writes(h, PutTags(h, b, n + t), {b - 4, b + n - 8})
         /\ PutTags(h, b, n + t).list = h.list
         /\ GET(PutTags(h, b, n + t), b - 4) = n + t
         /\ GET(PutTags(h, b, n + t), b + n - 8) = n + t
  <1> DEFINE w == n + t
             g == PUT(h, b - 4, w)
             k == PUT(g, b + n - 8, w)
  <1>1. Writes(h, g, {b - 4}) /\ GET(g, b - 4) = w /\ g.list = h.list
    BY PutWord
  <1>2. GET_SIZE(g, b - 4) = n
    <2>1. n % 8 = 0
      OBVIOUS
    <2>2. QED
      BY <1>1, <2>1, ReadTag
  <1>3. PutTags(h, b, w) = k
    BY <1>2 DEF PutTags, FTRP, HDPR, OVERHEAD
  <1> HIDE DEF g
  <1>4. IsHeap(g) /\ Mapped(g, b + n - 8)
    BY <1>1, WritesMapped DEF Writes
  <1>5. Writes(g, k, {b + n - 8}) /\ GET(k, b + n - 8) = w /\ k.list = g.list
    BY <1>4, PutWord
  <1> HIDE DEF k, w
  <1>6. GET(k, b - 4) = w
    <2>1. CASE b - 4 = b + n - 8
      BY <1>5, <2>1
    <2>2. CASE b - 4 # b + n - 8
      BY <1>1, <1>5, <2>2 DEF Writes
    <2>3. QED
      BY <2>1, <2>2
  <1>7. Writes(h, k, {b - 4, b + n - 8})
    BY <1>1, <1>5, WritesThen, WritesMore
  <1>8. QED
    BY <1>1, <1>3, <1>5, <1>6, <1>7 DEF w

-----------------------------------------------------------------------------
(* Pages *)

(* Regions are runs of whole pages, and those pages are the mapped ones.   *)
PagesOK(h) ==
  /\ h.pages \subseteq Pages
  /\ h.pages = UNION {RangePages(r[1], r[2]) : r \in h.regions}
  /\ \A r \in h.regions : \E n, m \in Nat : m >= 1 /\ r = <<APAGE_SIZE * n, APAGE_SIZE * m>>

(* The pages of a range are those of its bytes. *)
LEMMA RangeIs ==
  ASSUME NEW n \in Nat, NEW m \in Nat
  PROVE  /\ RangePages(APAGE_SIZE * n, APAGE_SIZE * m) = n..(n + m - 1)
         /\ \A a \in Nat : PageOf(a) \in n..(n + m - 1) <=>
                             APAGE_SIZE * n <= a /\ a < APAGE_SIZE * n + APAGE_SIZE * m
  <1>1. APAGE_SIZE \in Nat /\ APAGE_SIZE > 0
    BY PageAssumption
  <1>2. (APAGE_SIZE * n) \div APAGE_SIZE = n /\ (APAGE_SIZE * m) \div APAGE_SIZE = m
    BY <1>1
  <1>3. RangePages(APAGE_SIZE * n, APAGE_SIZE * m) = {n + i : i \in 0..(m - 1)}
    BY <1>2 DEF RangePages, PageOf
  <1>4. {n + i : i \in 0..(m - 1)} = n..(n + m - 1)
    <2>1. ASSUME NEW x \in n..(n + m - 1) PROVE x \in {n + i : i \in 0..(m - 1)}
      <3>1. x - n \in 0..(m - 1) /\ x = n + (x - n)
        OBVIOUS
      <3>2. QED
        BY <3>1
    <2>2. QED
      BY <2>1
  <1>5. ASSUME NEW a \in Nat
        PROVE  PageOf(a) \in n..(n + m - 1) <=>
                 APAGE_SIZE * n <= a /\ a < APAGE_SIZE * n + APAGE_SIZE * m
    <2>1. PICK q \in Int : q = a \div APAGE_SIZE
      BY <1>1
    <2>2. PICK x \in Int : x = a % APAGE_SIZE /\ 0 <= x /\ x < APAGE_SIZE
      BY <1>1
    <2>3. a = APAGE_SIZE * q + x
      BY <1>1, <2>1, <2>2
    <2>4. n <= q <=> APAGE_SIZE * n <= a
      BY <1>1, <2>2, <2>3
    <2>5. n + m <= q <=> APAGE_SIZE * (n + m) <= a
      BY <1>1, <2>2, <2>3
    <2>6. APAGE_SIZE * (n + m) = APAGE_SIZE * n + APAGE_SIZE * m
      BY <1>1
    <2>7. PICK u \in Nat, v \in Nat : u = APAGE_SIZE * n /\ v = APAGE_SIZE * m
      BY <1>1
    <2>8. QED
      BY <2>1, <2>4, <2>5, <2>6, <2>7 DEF PageOf
  <1>6. QED
    BY <1>3, <1>4, <1>5

(* The words of mapped pages are words. *)
LEMMA PageWords ==
  ASSUME NEW h, h.pages \subseteq Pages, NEW a \in Nat, a % 4 = 0, PageOf(a) \in h.pages
  PROVE  Mapped(h, a)
  <1>1. APAGE_SIZE \in Nat /\ APAGE_SIZE > 0 /\ APAGE_SIZE % 16 = 0 /\ MaxPages \in Nat
    BY PageAssumption, MaxPagesAssumption
  <1>2. PICK p \in Nat : p = APAGE_SIZE \div 4 /\ APAGE_SIZE = 4 * p
    BY <1>1
  <1>3. PICK w \in Nat : a = 4 * w
    <2>1. a \div 4 \in Nat /\ a = 4 * (a \div 4)
      OBVIOUS
    <2>2. QED
      BY <2>1
  <1>4. PageOf(a) \in 1..(1 + MaxPages - 1)
    BY <1>1 DEF Pages
  <1>5. APAGE_SIZE * 1 <= a /\ a < APAGE_SIZE * 1 + APAGE_SIZE * MaxPages
    BY <1>1, <1>4, RangeIs
  <1>6. PICK u \in Nat : u = p * MaxPages /\ (MaxPages + 1) * p = u + p /\ APAGE_SIZE * MaxPages = 4 * u
    BY <1>1, <1>2
  <1>7. p <= w /\ w <= (MaxPages + 1) * p - 1
    BY <1>1, <1>2, <1>3, <1>5, <1>6
  <1>8. w \in p..((MaxPages + 1) * p - 1)
    BY <1>6, <1>7
  <1>9. a \in WordAddrs
    BY <1>2, <1>3, <1>8 DEF WordAddrs
  <1>10. QED
    BY <1>9 DEF Mapped

(* Every word of a region is mapped. *)
LEMMA RegionMapped ==
  ASSUME NEW h, PagesOK(h), NEW r \in h.regions, NEW a \in Nat, a % 4 = 0,
         r[1] <= a, a < r[1] + r[2]
  PROVE  Mapped(h, a)
  <1>1. PICK n \in Nat, m \in Nat : r = <<APAGE_SIZE * n, APAGE_SIZE * m>>
    BY DEF PagesOK
  <1>2. r[1] = APAGE_SIZE * n /\ r[2] = APAGE_SIZE * m
    BY <1>1
  <1>3. PageOf(a) \in RangePages(r[1], r[2])
    <2>1. APAGE_SIZE * n <= a /\ a < APAGE_SIZE * n + APAGE_SIZE * m
      BY <1>2
    <2>2. PageOf(a) \in RangePages(APAGE_SIZE * n, APAGE_SIZE * m)
      BY <2>1, RangeIs
    <2>3. QED
      BY <1>2, <2>2
  <1>4. PageOf(a) \in h.pages /\ h.pages \subseteq Pages
    BY <1>3 DEF PagesOK
  <1>5. QED
    BY <1>4, PageWords

(* The words of a block are mapped, and its payload is a place for a node. *)
LEMMA BlockMapped ==
  ASSUME NEW h, PagesOK(h), NEW B, NEW S, Layout(h.regions, B, S), NEW b \in B
  PROVE  (\A a \in BlockWords(S, b) : a % 4 = 0 => Mapped(h, a)) /\ NodePlace(h, b)
  <1>1. PICK r \in h.regions : Lies(r, b, S[b])
    BY DEF Layout
  <1>2. RegionOK(r) /\ BlockOK(b, S[b])
    BY DEF Layout
  <1>3. ASSUME NEW a \in BlockWords(S, b), a % 4 = 0 PROVE Mapped(h, a)
    <2>1. a \in Nat /\ r[1] <= a /\ a < r[1] + r[2]
      BY <1>1, <1>2 DEF RegionOK, BlockOK, Lies, BlockWords
    <2>2. QED
      BY <1>3, <2>1, RegionMapped
  <1>4. \A a \in NodeWords(b) : a % 4 = 0 /\ a \in BlockWords(S, b)
    <2>1. b % 4 = 0 /\ (b + 4) % 4 = 0 /\ (b + 8) % 4 = 0 /\ (b + 12) % 4 = 0
      BY <1>2 DEF BlockOK
    <2>2. QED
      BY <2>1, WordsApart DEF NodeWords
  <1>5. b # NULL
    <2>1. r[1] \in Nat /\ b \in Nat /\ r[1] + 16 <= b
      BY <1>1, <1>2 DEF RegionOK, BlockOK, Lies
    <2>2. QED
      BY <2>1 DEF NULL
  <1>6. NodePlace(h, b)
    BY <1>2, <1>3, <1>4, <1>5 DEF NodePlace, BlockOK
  <1>7. QED
    BY <1>3, <1>6

-----------------------------------------------------------------------------
(* The heap between two calls *)

(* No two neighbours are free. *)
Merged(B, S, A) == \A b \in B \ A : b + S[b] \in B => b + S[b] \in A

(* On the way from one heap to the next: of the blocks B of sizes S those  *)
(* in C carry their tags, and F are in the free list.                      *)
Stage(h, B, S, C, A, F) ==
  /\ IsHeap(h) /\ PagesOK(h) /\ Layout(h.regions, B, S) /\ Marks(h, h.regions)
  /\ C \subseteq B /\ Tags(h, C, S, A)
  /\ F \subseteq B /\ FreeList(h, F)

(* The heap is blocks B of sizes S, those in A allocated, the others in    *)
(* the free list.                                                          *)
Sound(h, B, S, A) == A \subseteq B /\ Stage(h, B, S, B, A, B \ A)

(* Nothing is mapped or unmapped and nothing goes wrong. *)
Kept(h, g) == g.regions = h.regions /\ (g.fault <=> h.fault)

(* No region is kept for nobody. *)
InUse(R, S, A) == \A r \in R : \E b \in A : Lies(r, b, S[b])

(* A write of mapped words keeps the pages. *)
LEMMA PagesKept ==
  ASSUME NEW h, NEW g, NEW D, Writes(h, g, D)
  PROVE  IsHeap(g) /\ g.regions = h.regions /\ (g.fault <=> h.fault) /\ (PagesOK(h) => PagesOK(g))
  BY DEF Writes, PagesOK

(* Payloads that two steps keep, both keep. *)
LEMMA SamePayloadsThen ==
  ASSUME NEW h, NEW g, NEW k, NEW S, NEW A, SamePayloads(h, g, S, A), SamePayloads(g, k, S, A)
  PROVE  SamePayloads(h, k, S, A)
  BY DEF SamePayloads

(* Tags on a block of the layout: of the others, of the list and of the    *)
(* owners' words nothing changes.                                          *)
LEMMA TagBlock ==
  ASSUME NEW h, NEW B, NEW S, NEW C, NEW A, NEW F, Stage(h, B, S, C, A, F),
         NEW b \in B, NEW g, g = PutTags(h, b, Tag(S, A, b))
  PROVE  /\ Stage(g, B, S, C \cup {b}, A, F) /\ Kept(h, g)
         /\ SamePayloads(h, g, S, B \ {b})
  <1>0. /\ IsHeap(h) /\ PagesOK(h) /\ Layout(h.regions, B, S) /\ Marks(h, h.regions)
        /\ C \subseteq B /\ Tags(h, C \ {b}, S, A) /\ F \in SUBSET B /\ FreeList(h, F)
    BY DEF Stage, Tags
  <1>1. BlockOK(b, S[b])
    BY <1>0 DEF Layout
  <1>2. PICK t \in {0, 1} : Tag(S, A, b) = S[b] + t
    BY DEF Tag
  <1>3. /\ b - 4 \in BlockWords(S, b) /\ b + S[b] - 8 \in BlockWords(S, b)
        /\ b - 4 \notin NodeWords(b) /\ b + S[b] - 8 \notin NodeWords(b)
    BY <1>0, WordsApart
  <1>4. (b - 4) % 4 = 0 /\ (b + S[b] - 8) % 4 = 0
    BY <1>1 DEF BlockOK
  <1>5. Mapped(h, b - 4) /\ Mapped(h, b + S[b] - 8)
    BY <1>0, <1>3, <1>4, BlockMapped
  <1> DEFINE D == {b - 4, b + S[b] - 8}
  <1>6. /\ Writes(h, g, D) /\ g.list = h.list
        /\ GET(g, b - 4) = Tag(S, A, b) /\ GET(g, b + S[b] - 8) = Tag(S, A, b)
    <2>1. b \in Nat /\ S[b] \in Nat /\ S[b] % 16 = 0
      BY <1>1 DEF BlockOK
    <2>2. g = PutTags(h, b, S[b] + t)
      BY <1>2
    <2>3. /\ Writes(h, PutTags(h, b, S[b] + t), {b - 4, b + S[b] - 8})
          /\ PutTags(h, b, S[b] + t).list = h.list
          /\ GET(PutTags(h, b, S[b] + t), b - 4) = S[b] + t
          /\ GET(PutTags(h, b, S[b] + t), b + S[b] - 8) = S[b] + t
      BY <2>1, <1>0, <1>5, WriteTags, ZenonT(60)
    <2>4. QED
      BY <2>2, <2>3, <1>2
  <1>7. D \in SUBSET BlockWords(S, b) /\ D \cap NodeWords(b) = {} /\ C \ {b} \in SUBSET (B \ {b})
    BY <1>0, <1>3
  <1> HIDE DEF D
  <1>8. Tags(g, C \ {b}, S, A) /\ Marks(g, h.regions) /\ SamePayloads(h, g, S, B \ {b}) /\ FreeList(g, F)
    BY <1>0, <1>6, <1>7, BlockFrame
  <1>9. Tags(g, C \cup {b}, S, A)
    BY <1>6, <1>8 DEF Tags
  <1>10. IsHeap(g) /\ PagesOK(g) /\ Kept(h, g)
    BY <1>0, <1>6, PagesKept DEF Kept
  <1>11. QED
    BY <1>0, <1>8, <1>9, <1>10 DEF Stage, Kept

(* A block of the layout joins the free list. *)
LEMMA AddBlock ==
  ASSUME NEW h, NEW B, NEW S, NEW C, NEW A, NEW F, Stage(h, B, S, C, A, F),
         NEW b \in B \ F, NEW g, g = add_to_free_list(h, b)
  PROVE  /\ Stage(g, B, S, C, A, F \cup {b}) /\ Kept(h, g)
         /\ SamePayloads(h, g, S, B \ (F \cup {b}))
  <1>0. /\ IsHeap(h) /\ PagesOK(h) /\ Layout(h.regions, B, S) /\ Marks(h, h.regions)
        /\ C \in SUBSET B /\ Tags(h, C, S, A) /\ F \in SUBSET B /\ FreeList(h, F)
    BY DEF Stage
  <1>1. FreeList(g, F \cup {b}) /\ Writes(h, g, ListWords(F \cup {b}))
    <2>1. NodePlace(h, b)
      BY <1>0, BlockMapped
    <2>2. QED
      BY <1>0, <2>1, AddList
  <1>2. Tags(g, C, S, A) /\ Marks(g, h.regions) /\ SamePayloads(h, g, S, B \ (F \cup {b}))
    <2>1. F \cup {b} \in SUBSET B
      BY <1>0
    <2>2. QED
      BY <1>0, <1>1, <2>1, ListFrame
  <1>3. IsHeap(g) /\ PagesOK(g) /\ Kept(h, g)
    BY <1>0, <1>1, PagesKept DEF Kept
  <1>4. QED
    BY <1>0, <1>1, <1>2, <1>3 DEF Stage, Kept

(* A block leaves the free list. *)
LEMMA RemoveBlock ==
  ASSUME NEW h, NEW B, NEW S, NEW C, NEW A, NEW F, Stage(h, B, S, C, A, F),
         NEW b \in F, NEW g, g = remove_from_free_list(h, b)
  PROVE  /\ Stage(g, B, S, C, A, F \ {b}) /\ Kept(h, g)
         /\ SamePayloads(h, g, S, B \ F)
  <1>0. /\ IsHeap(h) /\ PagesOK(h) /\ Layout(h.regions, B, S) /\ Marks(h, h.regions)
        /\ C \in SUBSET B /\ Tags(h, C, S, A) /\ F \in SUBSET B /\ FreeList(h, F)
    BY Zenon DEF Stage
  <1>1. FreeList(g, F \ {b}) /\ Writes(h, g, ListWords(F \ {b}))
    BY <1>0, RemoveList
  <1>2. Tags(g, C, S, A) /\ Marks(g, h.regions) /\ SamePayloads(h, g, S, B \ F)
    <2>1. F \ {b} \in SUBSET B /\ B \ F \in SUBSET (B \ (F \ {b}))
      BY <1>0
    <2>2. QED
      BY <1>0, <1>1, <2>1, ListFrame
  <1>3. IsHeap(g) /\ PagesOK(g) /\ Kept(h, g)
    BY <1>0, <1>1, PagesKept DEF Kept
  <1>4. QED
    BY <1>0, <1>1, <1>2, <1>3 DEF Stage, Kept

-----------------------------------------------------------------------------
(* Allocation *)

(* b has been allocated for a block of n bytes.                            *)
Allocated(h, g, B, S, A, b, n, C, T) ==
  /\ Sound(g, C, T, A \cup {b}) /\ Merged(C, T, A \cup {b}) /\ B \subseteq C
  /\ n <= T[b] /\ T[b] <= S[b] /\ \A c \in A : T[c] = S[c]
  /\ SamePayloads(h, g, S, A) /\ Kept(h, g)

(* set_allocated takes b out of the free blocks and cuts off what is not   *)
(* needed; every other block is as before.                                 *)
LEMMA Allocates ==
  ASSUME NEW h, NEW B, NEW S, NEW A, Sound(h, B, S, A), Merged(B, S, A),
         NEW b \in B \ A, NEW n \in Nat, n >= 32, n % 16 = 0, n <= S[b],
         NEW g, g = set_allocated(h, b, n)
  PROVE  \E C, T : Allocated(h, g, B, S, A, b, n, C, T)
  <1> DEFINE F == B \ A
             E == A \cup {b}
  <1>1. A \subseteq B /\ Layout(h.regions, B, S) /\ Stage(h, B, S, B, A, F)
    BY DEF Sound, Stage
  <1>2. \A c \in B : BlockOK(c, S[c])
    BY <1>1 DEF Layout
  <1>3. GET_SIZE(h, HDPR(b)) = S[b]
    BY <1>1, ReadTags DEF Stage
  <1>4. Splits(S[b] - n) <=> S[b] - n >= 32
    <2>1. (9 + 16 - 1) \div 16 = 1
      OBVIOUS
    <2>2. ALIGN(1 + OVERHEAD) = 16
      BY <2>1 DEF ALIGN, RoundUp, ALIGNMENT, OVERHEAD
    <2>3. S[b] \in Nat /\ (S[b] - n) % 16 = 0
      BY <1>2 DEF BlockOK
    <2>4. QED
      BY <2>2, <2>3 DEF Splits
  <1>5. CASE S[b] - n >= 32
    <2> DEFINE rest == b + n
               C == B \cup {rest}
    <2>0. PICK T : T = [c \in C |-> IF c = b THEN n ELSE IF c = rest THEN S[b] - n ELSE S[c]]
      OBVIOUS
    <2>1. rest \notin B /\ Layout(h.regions, C, T)
      BY <1>1, <1>5, <2>0, SplitLayout
    <2>2. T[b] = n /\ T[rest] = S[b] - n /\ (\A c \in B \ {b} : T[c] = S[c]) /\ rest # b
      BY <2>0, <2>1
    <2> HIDE DEF rest
    <2> DEFINE h1 == PutTags(h, b, PACK(n, 1))
               h2 == remove_from_free_list(h1, b)
               h3 == PutTags(h2, rest, PACK(S[b] - n, 0))
               h4 == add_to_free_list(h3, rest)
    <2>3. Stage(h, C, T, B \ {b}, E, F)
      <3>1. Tags(h, B \ {b}, T, E)
        BY <1>1, <2>2 DEF Stage, Tags, Tag
      <3>2. QED
        BY <1>1, <2>1, <3>1 DEF Stage
    <2>4. Tag(T, E, b) = PACK(n, 1) /\ Tag(T, E, rest) = PACK(S[b] - n, 0)
      BY <1>1, <2>1, <2>2 DEF Tag, PACK
    <2>5. Stage(h1, C, T, (B \ {b}) \cup {b}, E, F) /\ Kept(h, h1) /\ SamePayloads(h, h1, T, C \ {b})
      BY <2>3, <2>4, TagBlock
    <2> HIDE DEF h1
    <2>6. Stage(h2, C, T, (B \ {b}) \cup {b}, E, F \ {b}) /\ Kept(h1, h2) /\ SamePayloads(h1, h2, T, C \ F)
      BY <2>5, RemoveBlock
    <2>7. NEXT_BLKP(h2, b) = rest
      <3>1. Tags(h2, (B \ {b}) \cup {b}, T, E) /\ Layout(h2.regions, C, T)
        BY <2>6 DEF Stage
      <3>2. b \in (B \ {b}) \cup {b} /\ (B \ {b}) \cup {b} \in SUBSET C
        OBVIOUS
      <3>4. NEXT_BLKP(h2, b) = b + T[b]
        BY <3>1, <3>2, ReadTags
      <3>3. QED
        BY <2>2, <3>4 DEF rest
    <2> HIDE DEF h2
    <2>8. /\ Stage(h3, C, T, ((B \ {b}) \cup {b}) \cup {rest}, E, F \ {b}) /\ Kept(h2, h3)
          /\ SamePayloads(h2, h3, T, C \ {rest})
      <3>1. h3 = PutTags(h2, rest, Tag(T, E, rest)) /\ rest \in C
        BY <2>4
      <3> HIDE DEF h3, rest, C, E, F
      <3>2. QED
        BY <2>6, <3>1, TagBlock
    <2> HIDE DEF h3
    <2>9. /\ Stage(h4, C, T, ((B \ {b}) \cup {b}) \cup {rest}, E, (F \ {b}) \cup {rest}) /\ Kept(h3, h4)
          /\ SamePayloads(h3, h4, T, C \ ((F \ {b}) \cup {rest}))
      BY <2>1, <2>8, AddBlock
    <2> HIDE DEF h4
    <2>10. g = h4
      BY <1>3, <1>4, <1>5, <2>7 DEF set_allocated, h1, h2, h3, h4
    <2>11. (F \ {b}) \cup {rest} = C \ E /\ ((B \ {b}) \cup {b}) \cup {rest} = C /\ E \subseteq C
      BY <1>1, <2>1, <2>2
    <2>12. Sound(g, C, T, E)
      BY <2>9, <2>10, <2>11 DEF Sound
    <2>13. Merged(C, T, E)
      <3> SUFFICES ASSUME NEW c \in C \ E, c + T[c] \in C PROVE c + T[c] \in E
        BY DEF Merged
      <3>1. \A x, y \in B : x < y => x + S[x] <= y
        BY <1>1 DEF Layout
      <3>2. BlockOK(b, S[b])
        BY <1>2
      <3>3. CASE c = rest
        <4>0. b \in Nat /\ S[b] \in Nat
          BY <3>2 DEF BlockOK
        <4>1. c + T[c] = b + S[b] /\ b + S[b] # rest
          BY <1>5, <2>2, <3>3, <4>0 DEF rest
        <4>2. QED
          BY <4>1 DEF Merged
      <3>4. CASE c # rest
        <4>1. c \in B \ A /\ c # b /\ T[c] = S[c]
          BY <2>2, <3>4
        <4>2. c + S[c] # rest
          BY <1>2, <1>5, <3>1, <3>2, <4>1 DEF rest, BlockOK
        <4>3. QED
          BY <4>1, <4>2 DEF Merged
      <3>5. QED
        BY <3>3, <3>4
    <2>14. SamePayloads(h, g, T, A)
      <3>1. A \subseteq C \ {b} /\ A \subseteq C \ F /\ A \subseteq C \ {rest} /\ A \subseteq C \ ((F \ {b}) \cup {rest})
        BY <1>1, <2>1
      <3>2. QED
        BY <2>5, <2>6, <2>8, <2>9, <2>10, <3>1 DEF SamePayloads
    <2>15. SamePayloads(h, g, S, A)
      <3>1. \A c \in A : T[c] = S[c]
        BY <1>1, <2>2
      <3>2. QED
        BY <2>14, <3>1 DEF SamePayloads, Payload
    <2>16. n <= T[b] /\ T[b] <= S[b] /\ \A c \in A : T[c] = S[c]
      BY <1>1, <2>2
    <2>17. B \subseteq C /\ Kept(h, g)
      BY <2>5, <2>6, <2>8, <2>9, <2>10 DEF Kept
    <2>18. Allocated(h, g, B, S, A, b, n, C, T)
      BY <2>12, <2>13, <2>15, <2>16, <2>17 DEF Allocated
    <2>19. QED
      BY <2>18
  <1>6. CASE ~(S[b] - n >= 32)
    <2> DEFINE h1 == PutTags(h, b, PACK(S[b], 1))
               h2 == remove_from_free_list(h1, b)
    <2>1. Stage(h, B, S, B \ {b}, E, F)
      <3>1. Tags(h, B \ {b}, S, E)
        BY <1>1 DEF Stage, Tags, Tag
      <3>2. QED
        BY <1>1, <3>1 DEF Stage
    <2>2. Tag(S, E, b) = PACK(S[b], 1)
      BY DEF Tag, PACK
    <2>3. Stage(h1, B, S, (B \ {b}) \cup {b}, E, F) /\ Kept(h, h1) /\ SamePayloads(h, h1, S, B \ {b})
      BY <2>1, <2>2, TagBlock
    <2> HIDE DEF h1
    <2>4. Stage(h2, B, S, (B \ {b}) \cup {b}, E, F \ {b}) /\ Kept(h1, h2) /\ SamePayloads(h1, h2, S, B \ F)
      BY <2>3, RemoveBlock
    <2> HIDE DEF h2
    <2>5. g = h2
      BY <1>3, <1>4, <1>6 DEF set_allocated, h1, h2
    <2>6. F \ {b} = B \ E /\ (B \ {b}) \cup {b} = B /\ E \subseteq B
      BY <1>1
    <2>7. Sound(g, B, S, E)
      BY <2>4, <2>5, <2>6 DEF Sound
    <2>8. Merged(B, S, E)
      BY DEF Merged
    <2>9. SamePayloads(h, g, S, A)
      <3>1. A \subseteq B \ {b} /\ A \subseteq B \ F
        BY <1>1
      <3>2. QED
        BY <2>3, <2>4, <2>5, <3>1 DEF SamePayloads
    <2>10. S[b] <= S[b]
      BY <1>2 DEF BlockOK
    <2>11. Kept(h, g)
      BY <2>3, <2>4, <2>5 DEF Kept
    <2>12. Allocated(h, g, B, S, A, b, n, B, S)
      BY <2>7, <2>8, <2>9, <2>10, <2>11 DEF Allocated
    <2>13. QED
      BY <2>12
  <1>7. QED
    BY <1>5, <1>6

-----------------------------------------------------------------------------
(* The search of the free list *)

(* The least element of a set of naturals. *)
LEMMA LeastNat ==
  ASSUME NEW T \in SUBSET Nat, T # {}
  PROVE  \E n \in T : \A m \in T : n <= m
  <1>1. PICK n \in T : \A m \in T : ~(<<m, n>> \in OpToRel(<, Nat))
    BY WFMin, NatLessThanWellFounded, Zenon
  <1>2. \A m \in T : ~(m < n)
    BY <1>1 DEF OpToRel
  <1>3. QED
    BY <1>2

(* MaxNodes counts the 32-byte blocks that fit in the pages. *)
LEMMA MaxNodesNat == MaxNodes \in Nat /\ 32 * MaxNodes <= MaxPages * APAGE_SIZE
                     /\ \A k \in Nat : 32 * k <= MaxPages * APAGE_SIZE => k <= MaxNodes
  <1>1. PICK x \in Nat : x = MaxPages * APAGE_SIZE
    BY PageAssumption, MaxPagesAssumption
  <1>2. x \div 32 \in Nat /\ 32 * (x \div 32) <= x /\ \A k \in Nat : 32 * k <= x => k <= x \div 32
    OBVIOUS
  <1>3. QED
    BY <1>1, <1>2 DEF MaxNodes

(* Walking the list from its head meets the nodes in order, then NULL.     *)
LEMMA NodeIs ==
  ASSUME NEW h, NEW F, NULL \notin F, NEW n \in Nat, NEW s \in [1..n -> F], Chain(h, F, n, s)
  PROVE  \A k \in 0..MaxNodes : Node(h)[k] = IF k < n THEN s[k + 1] ELSE NULL
  <1> DEFINE Eq(nd) == nd = [k \in 0..MaxNodes |->
                               IF k = 0 THEN h.list
                               ELSE IF nd[k - 1] = NULL THEN NULL ELSE NEXT_NODE(h, nd[k - 1])]
             f == [k \in 0..MaxNodes |-> IF k < n THEN s[k + 1] ELSE NULL]
  <1>1. MaxNodes \in Nat
    BY MaxNodesNat
  <1>2. /\ \A i \in 1..n : s[i] # NULL /\ NEXT_NODE(h, s[i]) = IF i = n THEN NULL ELSE s[i + 1]
        /\ h.list = IF n = 0 THEN NULL ELSE s[1]
    BY DEF Chain
  <1>3. \A k \in 0..MaxNodes : f[k] = IF k < n THEN s[k + 1] ELSE NULL
    OBVIOUS
  <1>4. \A k \in 0..MaxNodes :
          f[k] = IF k = 0 THEN h.list ELSE IF f[k - 1] = NULL THEN NULL ELSE NEXT_NODE(h, f[k - 1])
    <2> SUFFICES ASSUME NEW k \in 0..MaxNodes
                 PROVE  f[k] = IF k = 0 THEN h.list ELSE IF f[k - 1] = NULL THEN NULL ELSE NEXT_NODE(h, f[k - 1])
      OBVIOUS
    <2>1. f[k] = IF k < n THEN s[k + 1] ELSE NULL
      BY <1>3
    <2>2. k # 0 => f[k - 1] = IF k - 1 < n THEN s[k] ELSE NULL
      BY <1>1, <1>3
    <2> HIDE DEF f
    <2>3. CASE k = 0
      BY <1>2, <2>1, <2>3
    <2>4. CASE k # 0 /\ k - 1 < n
      <3>1. k \in 1..n
        BY <2>4
      <3>2. f[k - 1] = s[k] /\ s[k] # NULL /\ NEXT_NODE(h, s[k]) = IF k = n THEN NULL ELSE s[k + 1]
        BY <1>2, <2>2, <2>4, <3>1
      <3>3. QED
        BY <2>1, <2>4, <3>1, <3>2
    <2>5. CASE k # 0 /\ ~(k - 1 < n)
      BY <2>1, <2>2, <2>5
    <2>6. QED
      BY <2>3, <2>4, <2>5
  <1>5. Eq(f)
    BY <1>4
  <1>6. Node(h) = CHOOSE nd : Eq(nd)
    BY DEF Node
  <1>7. Eq(Node(h))
    <2>1. \E nd : Eq(nd)
      BY <1>5
    <2> HIDE DEF Eq, f
    <2>2. Eq(CHOOSE nd : Eq(nd))
      BY <2>1, Zenon
    <2>3. QED
      BY <1>6, <2>2, Zenon
  <1> HIDE DEF f
  <1>8. \A k \in 0..MaxNodes :
          Node(h)[k] = IF k = 0 THEN h.list
                       ELSE IF Node(h)[k - 1] = NULL THEN NULL ELSE NEXT_NODE(h, Node(h)[k - 1])
    BY <1>7
  <1> HIDE DEF Eq
  <1> DEFINE bad == {k \in 0..MaxNodes : Node(h)[k] # f[k]}
  <1>9. ASSUME bad # {} PROVE FALSE
    <2>1. bad \in SUBSET Nat
      BY <1>1
    <2>2. PICK k \in bad : \A m \in bad : k <= m
      BY <1>9, <2>1, LeastNat
    <2>3. k # 0
      BY <1>1, <1>4, <1>8, <2>2
    <2>4. k - 1 \in 0..MaxNodes /\ k - 1 \notin bad
      BY <2>1, <2>2, <2>3, <1>1
    <2>5. Node(h)[k - 1] = f[k - 1]
      BY <2>4
    <2>6. Node(h)[k] = f[k]
      BY <2>3, <2>5, <1>4, <1>8
    <2>7. QED
      BY <2>6
  <1>10. QED
    BY <1>3, <1>9

(* FirstFit finds a free block that is large enough, or nothing.           *)
LEMMA FirstFitIs ==
  ASSUME NEW h, NEW B, NEW S, NEW A, Sound(h, B, S, A), NEW n \in Nat
  PROVE  FirstFit(h, n) = NULL \/ (FirstFit(h, n) \in B \ A /\ n <= S[FirstFit(h, n)])
  <1> DEFINE F == B \ A
             node == Node(h)
             fits == {k \in 0..MaxNodes : /\ node[k] # NULL
                                          /\ GET_ALLOC(h, HDPR(node[k])) = 0
                                          /\ GET_SIZE(h, HDPR(node[k])) >= n}
             first == CHOOSE k \in fits : \A m \in fits : k <= m
  <1>1. FreeList(h, F) /\ Layout(h.regions, B, S) /\ Tags(h, B, S, A)
    BY DEF Sound, Stage
  <1>2. PICK m \in Nat : \E s \in [1..m -> F] : Chain(h, F, m, s)
    BY <1>1 DEF FreeList
  <1>3. PICK s \in [1..m -> F] : Chain(h, F, m, s)
    BY <1>2
  <1>4. NULL \notin F
    BY <1>1 DEF FreeList, NodePlace
  <1>5. \A k \in 0..MaxNodes : node[k] = IF k < m THEN s[k + 1] ELSE NULL
    BY <1>3, <1>4, NodeIs
  <1>6. FirstFit(h, n) = IF fits = {} THEN NULL ELSE node[first]
    BY DEF FirstFit
  <1>7. MaxNodes \in Nat
    BY MaxNodesNat
  <1>8. CASE fits # {}
    <2>1. fits \in SUBSET Nat
      BY <1>7
    <2>2. first \in fits
      <3>1. \E k \in fits : \A x \in fits : k <= x
        BY <1>8, <2>1, LeastNat
      <3>2. QED
        BY <3>1
    <2> HIDE DEF first
    <2>3. first \in 0..MaxNodes /\ node[first] # NULL /\ GET_SIZE(h, HDPR(node[first])) >= n
      BY <2>2
    <2>4. node[first] \in F
      BY <1>5, <1>7, <2>3
    <2>5. GET_SIZE(h, HDPR(node[first])) = S[node[first]]
      BY <1>1, <2>4, ReadTags
    <2>6. S[node[first]] \in Nat
      BY <1>1, <2>4 DEF Layout, BlockOK
    <2>7. QED
      BY <1>6, <1>8, <2>3, <2>4, <2>5, <2>6
  <1>9. CASE fits = {}
    BY <1>6, <1>9
  <1>10. QED
    BY <1>8, <1>9

-----------------------------------------------------------------------------
(* Growing the heap *)

(* RoundUp is the least multiple of the unit that is not smaller. *)
LEMMA RoundUpIs ==
  ASSUME NEW n \in Nat, NEW unit \in Nat, unit > 0
  PROVE  \E k \in Nat : RoundUp(n, unit) = unit * k /\ n <= unit * k
  <1>1. PICK x \in Nat : x = n + unit - 1
    OBVIOUS
  <1>2. PICK q \in Nat : q = x \div unit
    OBVIOUS
  <1>3. PICK r \in Nat : r = x % unit /\ r <= unit - 1
    OBVIOUS
  <1>4. x = unit * q + r
    BY <1>2, <1>3
  <1>5. PICK y \in Nat : y = unit * q /\ y = q * unit
    OBVIOUS
  <1>6. n <= y
    BY <1>1, <1>3, <1>4, <1>5
  <1>7. QED
    BY <1>1, <1>2, <1>5, <1>6 DEF RoundUp

(* A region is whole pages with room for the block it is mapped for.       *)
LEMMA RegionSizeIs ==
  ASSUME NEW size \in Nat, size >= 32
  PROVE  \E m \in Nat : /\ RegionSize(size) = APAGE_SIZE * m /\ m >= 1
                        /\ APAGE_SIZE * m >= size + 16 /\ (APAGE_SIZE * m) % 16 = 0
  <1>1. APAGE_SIZE \in Nat /\ APAGE_SIZE > 0 /\ GROWTH \in Nat /\ GROWTH >= 2
    BY PageAssumption, GrowthAssumption
  <1>2. PICK y \in Nat : y = (IF size > APAGE_SIZE THEN size ELSE APAGE_SIZE) /\ y >= size
    BY <1>1
  <1>3. PICK x \in Nat : x = y * GROWTH /\ x >= 2 * y
    BY <1>1
  <1>4. PICK m \in Nat : RoundUp(x, APAGE_SIZE) = APAGE_SIZE * m /\ x <= APAGE_SIZE * m
    BY <1>1, RoundUpIs
  <1>5. RegionSize(size) = APAGE_SIZE * m
    BY <1>2, <1>3, <1>4 DEF RegionSize, PAGE_ALIGN
  <1>6. PICK c \in Nat : APAGE_SIZE = 16 * c
    <2>1. APAGE_SIZE \div 16 \in Nat /\ APAGE_SIZE = 16 * (APAGE_SIZE \div 16)
      BY PageAssumption
    <2>2. QED
      BY <2>1
  <1>7. (APAGE_SIZE * m) % 16 = 0
    <2>1. ((16 * c) * m) % 16 = 0
      OBVIOUS
    <2>2. QED
      BY <1>6, <2>1
  <1>8. PICK z \in Nat : z = APAGE_SIZE * m
    BY <1>1
  <1>9. z >= size + 16
    BY <1>2, <1>3, <1>4, <1>8
  <1>10. m >= 1
    <2>1. m = 0 => APAGE_SIZE * m = 0
      BY <1>1
    <2>2. QED
      BY <2>1, <1>8, <1>9
  <1>11. QED
    BY <1>5, <1>7, <1>8, <1>9, <1>10

(* An int holds the numbers up to INT_MAX. *)
LEMMA IntKeeps == ASSUME NEW n \in Nat, n <= INT_MAX PROVE ToInt(n) = n
  <1>1. PICK m \in Nat, x \in Nat : m = 2 * (INT_MAX + 1) /\ x = n + INT_MAX + 1 /\ x < m
    BY IntAssumption
  <1>2. x % m = x
    BY <1>1
  <1>3. QED
    BY <1>1, <1>2, IntAssumption DEF ToInt

(* A block has room for the payload, its tags and a list node, and neither *)
(* it nor the region that is mapped for it is too large for an int.        *)
LEMMA BlockSizeIs ==
  ASSUME NEW size \in Nat, Fits(size)
  PROVE  /\ RegionSize(BlockSize(size)) <= INT_MAX
         /\ BlockSize(size) \in Nat /\ BlockSize(size) >= 32 /\ BlockSize(size) % 16 = 0
         /\ BlockSize(size) >= size + 8
  <1>1. PICK x \in Nat : x = (IF size > 16 THEN size ELSE 16) + 8
    OBVIOUS
  <1>2. PICK k \in Nat : RoundUp(x, 16) = 16 * k /\ x <= 16 * k
    <2>1. PICK u \in Nat : u = 16 /\ u > 0
      OBVIOUS
    <2>2. \E k \in Nat : RoundUp(x, u) = u * k /\ x <= u * k
      BY <2>1, RoundUpIs
    <2>3. QED
      BY <2>1, <2>2
  <1>3. PICK n \in Nat : n = 16 * k /\ n = RoundUp(x, 16) /\ x <= n /\ n >= 32
    BY <1>1, <1>2
  <1>4. RegionSize(n) <= INT_MAX
    BY <1>1, <1>3 DEF Fits, ALIGN, ALIGNMENT, ListNodeSize, OVERHEAD
  <1>5. n <= INT_MAX
    <2>1. PICK m \in Nat : RegionSize(n) = APAGE_SIZE * m /\ APAGE_SIZE * m >= n + 16
      BY <1>3, RegionSizeIs
    <2>2. APAGE_SIZE * m \in Nat
      BY PageAssumption
    <2>3. QED
      BY <1>4, <2>1, <2>2, IntAssumption
  <1>6. BlockSize(size) = n
    <2>1. PICK y \in Nat : y = (IF size > 16 THEN size ELSE 16) /\ x = y + 8
      BY <1>1
    <2>2. ToInt(y) = y /\ ToInt(n) = n
      BY <1>3, <1>5, <2>1, IntKeeps, IntAssumption
    <2>3. BlockSize(size) = ToInt(RoundUp(ToInt(y) + 8, 16))
      BY <2>1 DEF BlockSize, ALIGN, ALIGNMENT, ListNodeSize, OVERHEAD
    <2>4. QED
      BY <1>3, <2>1, <2>2, <2>3
  <1>7. (16 * k) % 16 = 0
    OBVIOUS
  <1>8. QED
    BY <1>1, <1>3, <1>4, <1>6, <1>7

(* What holds of the blocks of some regions stays while their words do.    *)
LEMMA Carry ==
  ASSUME NEW Q, NEW B, NEW S, Layout(Q, B, S), NEW h, NEW g, g.list = h.list,
         \A q \in Q : \A a \in Int : q[1] <= a /\ a < q[1] + q[2] =>
            GET(g, a) = GET(h, a) /\ (Mapped(h, a) => Mapped(g, a))
  PROVE  /\ \A C \in SUBSET B : \A A : Tags(h, C, S, A) => Tags(g, C, S, A)
         /\ Marks(h, Q) => Marks(g, Q)
         /\ \A F \in SUBSET B : FreeList(h, F) => FreeList(g, F)
         /\ SamePayloads(h, g, S, B)
  <1>1. ASSUME NEW b \in B, NEW a \in BlockWords(S, b)
        PROVE  GET(g, a) = GET(h, a) /\ (Mapped(h, a) => Mapped(g, a))
    <2>1. PICK q \in Q : Lies(q, b, S[b])
      BY DEF Layout
    <2>2. RegionOK(q) /\ BlockOK(b, S[b])
      BY DEF Layout
    <2>3. a \in Int /\ q[1] <= a /\ a < q[1] + q[2]
      BY <2>1, <2>2 DEF RegionOK, BlockOK, Lies, BlockWords
    <2>4. QED
      BY <2>3
  <1>2. \A C \in SUBSET B : \A A : Tags(h, C, S, A) => Tags(g, C, S, A)
    BY <1>1, WordsApart DEF Tags
  <1>3. Marks(h, Q) => Marks(g, Q)
    <2>1. ASSUME NEW q \in Q
          PROVE  /\ GET(g, q[1] + 4) = GET(h, q[1] + 4) /\ GET(g, q[1] + 8) = GET(h, q[1] + 8)
                 /\ GET(g, q[1] + q[2] - 4) = GET(h, q[1] + q[2] - 4)
      <3>1. q[1] \in Nat /\ q[2] \in Nat /\ q[2] >= 48
        BY DEF Layout, RegionOK
      <3>2. \A a \in {q[1] + 4, q[1] + 8, q[1] + q[2] - 4} : a \in Int /\ q[1] <= a /\ a < q[1] + q[2]
        BY <3>1
      <3>3. QED
        BY <3>2
    <2>2. QED
      BY <2>1 DEF Marks
  <1>4. SamePayloads(h, g, S, B)
    BY <1>1, WordsApart DEF SamePayloads
  <1>5. ASSUME NEW F \in SUBSET B, FreeList(h, F) PROVE FreeList(g, F)
    <2>1. \A c \in F : \A a \in NodeWords(c) : GET(g, a) = GET(h, a) /\ (Mapped(h, a) => Mapped(g, a))
      BY <1>1, WordsApart
    <2>2. \A c \in F : NodePlace(g, c) /\ c \in Nat
      BY <1>5, <2>1 DEF FreeList, NodePlace
    <2>3. \A c \in F : PREV_NODE(g, c) = PREV_NODE(h, c) /\ NEXT_NODE(g, c) = NEXT_NODE(h, c)
      BY <2>1, <2>2, LinksKept
    <2>4. PICK n \in Nat : \E s \in [1..n -> F] : Chain(h, F, n, s)
      BY <1>5 DEF FreeList
    <2>5. PICK s \in [1..n -> F] : Chain(h, F, n, s)
      BY <2>4
    <2>6. \A i \in 1..n : s[i] \in F
      OBVIOUS
    <2>7. Chain(g, F, n, s)
      BY <2>3, <2>5, <2>6 DEF Chain
    <2>8. QED
      BY <2>2, <2>7 DEF FreeList
  <1>6. QED
    BY <1>2, <1>3, <1>4, <1>5

(* mem_map adds pages and a region, and keeps every mapped word.           *)
LEMMA Maps ==
  ASSUME NEW h, IsHeap(h), PagesOK(h), NEW n \in Nat, NEW m \in Nat, m >= 1,
         RangePages(APAGE_SIZE * n, APAGE_SIZE * m) \subseteq Pages \ h.pages,
         NEW g, g = mem_map(h, APAGE_SIZE * n, APAGE_SIZE * m)
  PROVE  /\ IsHeap(g) /\ PagesOK(g) /\ g.regions = h.regions \cup {<<APAGE_SIZE * n, APAGE_SIZE * m>>}
         /\ (g.fault <=> h.fault) /\ g.list = h.list
         /\ \A a : Mapped(h, a) => Mapped(g, a) /\ GET(g, a) = GET(h, a)
         /\ \A q \in h.regions : \/ APAGE_SIZE * n + APAGE_SIZE * m <= q[1]
                                 \/ q[1] + q[2] <= APAGE_SIZE * n
  <1> DEFINE p == APAGE_SIZE * n
             sz == APAGE_SIZE * m
             P == RangePages(p, sz)
  <1>1. APAGE_SIZE \in Nat /\ APAGE_SIZE > 0
    BY PageAssumption
  <1>2. /\ g.mem = [a \in WordAddrs |-> IF PageOf(a) \in P THEN 0 ELSE h.mem[a]]
        /\ g.list = h.list /\ g.pages = h.pages \cup P /\ g.regions = h.regions \cup {<<p, sz>>}
        /\ g.fault = h.fault
    BY DEF mem_map, IsHeap
  <1>3. g = [mem |-> g.mem, list |-> g.list, pages |-> g.pages, regions |-> g.regions,
             fault |-> g.fault]
    BY DEF mem_map, IsHeap
  <1> HIDE DEF P, p, sz
  <1>4. IsHeap(g)
    BY <1>2, <1>3 DEF IsHeap
  <1>5. \A a : Mapped(h, a) => Mapped(g, a) /\ GET(g, a) = GET(h, a)
    BY <1>2 DEF Mapped, GET, P, p, sz
  <1>6. PagesOK(g)
    <2>1. g.pages \subseteq Pages
      BY <1>2 DEF PagesOK, P, p, sz
    <2>2. g.pages = UNION {RangePages(r[1], r[2]) : r \in g.regions}
      <3>0. PICK r : r = <<p, sz>>
        OBVIOUS
      <3>1. r[1] = p /\ r[2] = sz
        BY <3>0
      <3>2. g.regions = h.regions \cup {r} /\ g.pages = h.pages \cup RangePages(r[1], r[2])
        BY <1>2, <3>0, <3>1 DEF P
      <3>3. h.pages = UNION {RangePages(q[1], q[2]) : q \in h.regions}
        BY DEF PagesOK
      <3>4. ASSUME NEW x \in g.pages PROVE \E q \in g.regions : x \in RangePages(q[1], q[2])
        BY <3>2, <3>3
      <3>5. ASSUME NEW q \in g.regions, NEW x \in RangePages(q[1], q[2]) PROVE x \in g.pages
        BY <3>2, <3>3
      <3>6. QED
        BY <3>4, <3>5
    <2>3. ASSUME NEW r \in g.regions PROVE \E i, j \in Nat : j >= 1 /\ r = <<APAGE_SIZE * i, APAGE_SIZE * j>>
      BY <1>2 DEF PagesOK, p, sz
    <2>4. QED
      BY <2>1, <2>2, <2>3 DEF PagesOK
  <1>7. ASSUME NEW q \in h.regions PROVE p + sz <= q[1] \/ q[1] + q[2] <= p
    <2>1. PICK i \in Nat, j \in Nat : j >= 1 /\ q = <<APAGE_SIZE * i, APAGE_SIZE * j>>
      BY DEF PagesOK
    <2>2. q[1] = APAGE_SIZE * i /\ q[2] = APAGE_SIZE * j
      BY <2>1
    <2>3. RangePages(q[1], q[2]) \subseteq h.pages
      BY DEF PagesOK
    <2>4. (i..(i + j - 1)) \cap (n..(n + m - 1)) = {}
      BY <2>2, <2>3, RangeIs
    <2>5. n + m <= i \/ i + j <= n
      <3>1. i \notin n..(n + m - 1) /\ n \notin i..(i + j - 1)
        BY <2>1, <2>4
      <3>2. QED
        BY <2>1, <3>1
    <2>6. /\ n + m <= i => APAGE_SIZE * (n + m) <= APAGE_SIZE * i
          /\ i + j <= n => APAGE_SIZE * (i + j) <= APAGE_SIZE * n
      BY <1>1
    <2>7. /\ APAGE_SIZE * (n + m) = APAGE_SIZE * n + APAGE_SIZE * m
          /\ APAGE_SIZE * (i + j) = APAGE_SIZE * i + APAGE_SIZE * j
      BY <1>1
    <2>8. QED
      BY <2>2, <2>5, <2>6, <2>7 DEF p, sz
  <1>8. QED
    BY <1>2, <1>4, <1>5, <1>6, <1>7 DEF p, sz

(* page_set_up writes a prologue, a free block and a terminator.           *)
LEMMA SetsUp ==
  ASSUME NEW h, IsHeap(h), PagesOK(h), NEW p \in Nat, NEW sz \in Nat, <<p, sz>> \in h.regions,
         p % 16 = 0, sz % 16 = 0, sz >= 48, sz <= INT_MAX,
         NEW g, g = page_set_up(PUT(h, p, PACK(0, 0)), p, sz)
  PROVE  /\ Writes(h, g, {p, p + 4, p + 8, p + 12, p + sz - 8, p + sz - 4}) /\ g.list = h.list
         /\ GET(g, p + 4) = 9 /\ GET(g, p + 8) = 9 /\ GET(g, p + sz - 4) = 1
         /\ GET(g, p + 12) = sz - 16 /\ GET(g, p + sz - 8) = sz - 16
  <1> DEFINE r == <<p, sz>>
  <1>1. \A a \in Nat : a % 4 = 0 /\ p <= a /\ a < p + sz => Mapped(h, a)
    <2>1. r[1] = p /\ r[2] = sz
      OBVIOUS
    <2>2. QED
      BY <2>1, RegionMapped
  <1>2. \A a \in {p, p + 4, p + 8, p + 12, p + sz - 8, p + sz - 4} : Mapped(h, a)
    <2>1. \A a \in {p, p + 4, p + 8, p + 12, p + sz - 8, p + sz - 4} :
             a \in Nat /\ p <= a /\ a < p + sz
      OBVIOUS
    <2>2. /\ p % 4 = 0 /\ (p + 4) % 4 = 0 /\ (p + 8) % 4 = 0 /\ (p + 12) % 4 = 0
          /\ (p + sz - 8) % 4 = 0 /\ (p + sz - 4) % 4 = 0
      OBVIOUS
    <2>3. QED
      BY <1>1, <2>1, <2>2
  <1> DEFINE b == p + 16
             h1 == PUT(h, p, 0)
             h2 == PUT(h1, p + 4, 9)
             h3 == PUT(h2, p + 8, 9)
             h4 == PutTags(h3, b, (sz - 16) + 0)
             h5 == PUT(h4, p + sz - 4, 1)
  <1>3. Writes(h, h1, {p}) /\ h1.list = h.list
    BY <1>2, PutWord
  <1> HIDE DEF h1
  <1>4. IsHeap(h1) /\ \A a : Mapped(h1, a) <=> Mapped(h, a)
    BY <1>3, WritesMapped DEF Writes
  <1>5. Writes(h1, h2, {p + 4}) /\ h2.list = h1.list /\ GET(h2, p + 4) = 9
    BY <1>2, <1>4, PutWord
  <1> HIDE DEF h2
  <1>6. IsHeap(h2) /\ \A a : Mapped(h2, a) <=> Mapped(h, a)
    <2>1. PICK D : Writes(h1, h2, D)
      BY <1>5
    <2>2. IsHeap(h2) /\ \A a : Mapped(h2, a) <=> Mapped(h1, a)
      BY <2>1, WritesMapped DEF Writes
    <2>3. QED
      BY <1>4, <2>2
  <1>7. Writes(h2, h3, {p + 8}) /\ h3.list = h2.list /\ GET(h3, p + 8) = 9
    BY <1>2, <1>6, PutWord
  <1> HIDE DEF h3
  <1>8. IsHeap(h3) /\ \A a : Mapped(h3, a) <=> Mapped(h, a)
    <2>1. PICK D : Writes(h2, h3, D)
      BY <1>7
    <2>2. IsHeap(h3) /\ \A a : Mapped(h3, a) <=> Mapped(h2, a)
      BY <2>1, WritesMapped DEF Writes
    <2>3. QED
      BY <1>6, <2>2
  <1>9. /\ Writes(h3, h4, {p + 12, p + sz - 8}) /\ h4.list = h3.list
        /\ GET(h4, p + 12) = sz - 16 /\ GET(h4, p + sz - 8) = sz - 16
    <2>1. PICK n \in Nat : n = sz - 16 /\ n % 16 = 0 /\ n + 0 = n
      OBVIOUS
    <2>2. b \in Nat /\ b - 4 = p + 12 /\ b + n - 8 = p + sz - 8 /\ (sz - 16) + 0 = n
      BY <2>1
    <2>3. Mapped(h3, b - 4) /\ Mapped(h3, b + n - 8)
      BY <1>2, <1>8, <2>2
    <2>4. PICK t \in {0, 1} : t = 0
      OBVIOUS
    <2> HIDE DEF b
    <2>5. /\ Writes(h3, PutTags(h3, b, n + t), {b - 4, b + n - 8})
          /\ PutTags(h3, b, n + t).list = h3.list
          /\ GET(PutTags(h3, b, n + t), b - 4) = n + t
          /\ GET(PutTags(h3, b, n + t), b + n - 8) = n + t
      <3>1. IsHeap(h3) /\ b \in Nat /\ n % 16 = 0
        BY <1>8, <2>1, <2>2
      <3> HIDE DEF h3
      <3>2. QED
        BY ONLY n \in Nat, t \in {0, 1}, <2>3, <3>1, WriteTags
    <2>6. n + t = n /\ h4 = PutTags(h3, b, n + t)
      BY <2>1, <2>2, <2>4
    <2>7. QED
      BY <2>1, <2>2, <2>5, <2>6
  <1>10. FTRP(h4, b) + 4 = p + sz - 4
    <2>1. PICK n \in Nat : n = sz - 16 /\ n % 8 = 0
      OBVIOUS
    <2>2. HDPR(b) = p + 12
      BY DEF HDPR
    <2> HIDE DEF h4
    <2>3. GET_SIZE(h4, p + 12) = n
      BY <1>9, <2>1, ReadTag
    <2>4. QED
      BY <2>1, <2>2, <2>3 DEF FTRP, OVERHEAD
  <1> HIDE DEF h4
  <1>11. IsHeap(h4) /\ \A a : Mapped(h4, a) <=> Mapped(h, a)
    <2>1. PICK D : Writes(h3, h4, D)
      BY <1>9
    <2>2. IsHeap(h4) /\ \A a : Mapped(h4, a) <=> Mapped(h3, a)
      BY <2>1, WritesMapped DEF Writes
    <2>3. QED
      BY <1>8, <2>2
  <1>12. Writes(h4, h5, {p + sz - 4}) /\ h5.list = h4.list /\ GET(h5, p + sz - 4) = 1
    BY <1>2, <1>11, PutWord
  <1> HIDE DEF h5
  <1>13. g = h5
    <2>1. PACK(0, 0) = 0 /\ PACK(8, 1) = 9 /\ PACK(0, 1) = 1 /\ p + PRE_OCCUPIED = b
      BY DEF PACK, PRE_OCCUPIED, OVERHEAD
    <2>2. PACK(ToInt(ToInt(sz) - PRE_OCCUPIED), 0) = (sz - 16) + 0
      <3>1. sz - 16 \in Nat /\ sz - 16 <= INT_MAX
        BY IntAssumption
      <3>2. ToInt(sz) = sz /\ ToInt(sz - 16) = sz - 16
        BY <3>1, IntKeeps
      <3>3. QED
        BY <3>2 DEF PACK, PRE_OCCUPIED, OVERHEAD
    <2> HIDE DEF b
    <2>3. QED
      BY <1>10, <2>1, <2>2 DEF page_set_up, h1, h2, h3, h4, h5
  <1>14. /\ p + 4 \notin {p + 8} /\ p + 4 \notin {p + 12, p + sz - 8} /\ p + 4 \notin {p + sz - 4}
         /\ p + 8 \notin {p + 12, p + sz - 8} /\ p + 8 \notin {p + sz - 4}
         /\ p + 12 \notin {p + sz - 4} /\ p + sz - 8 \notin {p + sz - 4}
    OBVIOUS
  <1>15. /\ GET(g, p + 4) = 9 /\ GET(g, p + 8) = 9 /\ GET(g, p + sz - 4) = 1
         /\ GET(g, p + 12) = sz - 16 /\ GET(g, p + sz - 8) = sz - 16
    BY <1>5, <1>7, <1>9, <1>12, <1>13, <1>14 DEF Writes
  <1>16. Writes(h, g, {p, p + 4, p + 8, p + 12, p + sz - 8, p + sz - 4})
    <2> HIDE DEF b
    <2> DEFINE D == {p, p + 4, p + 8, p + 12, p + sz - 8, p + sz - 4}
    <2>1. {p} \subseteq D /\ {p + 4} \subseteq D /\ {p + 8} \subseteq D /\ {p + 12, p + sz - 8} \subseteq D
          /\ {p + sz - 4} \subseteq D
      OBVIOUS
    <2> HIDE DEF D
    <2>2. QED
      BY <1>3, <1>5, <1>7, <1>9, <1>12, <1>13, <2>1 DEF Writes, D
  <1>17. QED
    BY <1>3, <1>5, <1>7, <1>9, <1>12, <1>13, <1>15, <1>16

(* A region r with a free block for n bytes has been added.                *)
Extended(h, g, B, S, A, r, n, C, T) ==
  LET b == r[1] + 16
  IN  /\ RegionOK(r) /\ g.regions = h.regions \cup {r} /\ C = B \cup {b} /\ b \notin B
      /\ Sound(g, C, T, A) /\ Merged(C, T, A)
      /\ n <= T[b] /\ Lies(r, b, T[b]) /\ \A c \in B : T[c] = S[c]
      /\ SamePayloads(h, g, S, A) /\ (g.fault <=> h.fault)

(* extend adds a region with one free block of the right size.             *)
LEMMA Extends ==
  ASSUME NEW h, NEW B, NEW S, NEW A, Sound(h, B, S, A), Merged(B, S, A),
         NEW size \in Nat, size >= 32, RegionSize(size) <= INT_MAX,
         NEW p \in mmap_bases(h, RegionSize(size)),
         NEW g, g = extend(h, p, size)
  PROVE  \E C, T, r : r[1] = p /\ Extended(h, g, B, S, A, r, size, C, T)
  <1>1. PICK m \in Nat : /\ RegionSize(size) = APAGE_SIZE * m /\ m >= 1
                         /\ APAGE_SIZE * m >= size + 16 /\ (APAGE_SIZE * m) % 16 = 0
    BY RegionSizeIs
  <1>2. PICK n \in Pages : p = APAGE_SIZE * n /\ RangePages(p, RegionSize(size)) \subseteq Pages \ h.pages
    BY DEF mmap_bases
  <1>3. n \in Nat
    BY <1>2 DEF Pages
  <1>4. APAGE_SIZE \in Nat /\ APAGE_SIZE > 0
    BY PageAssumption
  <1>5. PICK sz \in Nat : sz = APAGE_SIZE * m
    BY <1>4
  <1>6. p \in Nat /\ p % 16 = 0
    <2>1. PICK c \in Nat : APAGE_SIZE = 16 * c
      <3>1. APAGE_SIZE \div 16 \in Nat /\ APAGE_SIZE = 16 * (APAGE_SIZE \div 16)
        BY PageAssumption
      <3>2. QED
        BY <3>1
    <2>2. ((16 * c) * n) % 16 = 0 /\ (16 * c) * n \in Nat
      BY <1>3
    <2>3. QED
      BY <1>2, <2>1, <2>2
  <1>7. PICK r : r = <<p, sz>>
    OBVIOUS
  <1>8. r[1] = p /\ r[2] = sz
    BY <1>7
  <1>9. RegionOK(r)
    BY <1>1, <1>5, <1>6, <1>8 DEF RegionOK
  <1> DEFINE d == p + 16
             C == B \cup {d}
             F == B \ A
             h0 == mem_map(h, p, sz)
             h1 == page_set_up(PUT(h0, p, PACK(0, 0)), p, sz)
             D == {p, p + 4, p + 8, p + 12, p + sz - 8, p + sz - 4}
  <1>10. /\ IsHeap(h) /\ PagesOK(h) /\ Layout(h.regions, B, S) /\ Marks(h, h.regions)
         /\ A \subseteq B /\ Tags(h, B, S, A) /\ FreeList(h, F)
    BY DEF Sound, Stage
  <1>11. /\ IsHeap(h0) /\ PagesOK(h0) /\ h0.regions = h.regions \cup {r}
         /\ (h0.fault <=> h.fault) /\ h0.list = h.list
         /\ \A a : Mapped(h, a) => Mapped(h0, a) /\ GET(h0, a) = GET(h, a)
         /\ \A q \in h.regions : p + sz <= q[1] \/ q[1] + q[2] <= p
    BY <1>1, <1>2, <1>3, <1>5, <1>7, <1>10, Maps
  <1> HIDE DEF h0
  <1>12. /\ Writes(h0, h1, D) /\ h1.list = h0.list
         /\ GET(h1, p + 4) = 9 /\ GET(h1, p + 8) = 9 /\ GET(h1, p + sz - 4) = 1
         /\ GET(h1, p + 12) = sz - 16 /\ GET(h1, p + sz - 8) = sz - 16
    <2>1. <<p, sz>> \in h0.regions /\ sz % 16 = 0 /\ sz >= 48 /\ sz <= INT_MAX
      BY <1>1, <1>5, <1>7, <1>11
    <2>2. QED
      BY <1>6, <1>11, <2>1, SetsUp
  <1> HIDE DEF h1
  <1>13. PICK T : T = [c \in C |-> IF c = d THEN sz - 16 ELSE S[c]]
    OBVIOUS
  <1>14. /\ d \notin B /\ Layout(h.regions \cup {r}, C, T)
         /\ \A c \in B : c + S[c] <= p \/ p + sz + 16 <= c
    BY <1>8, <1>9, <1>10, <1>11, <1>13, AddLayout
  <1>15. T[d] = sz - 16 /\ \A c \in B : T[c] = S[c]
    BY <1>13, <1>14
  <1>16. ASSUME NEW q \in h.regions, NEW a \in Int, q[1] <= a, a < q[1] + q[2]
         PROVE  GET(h1, a) = GET(h, a) /\ (Mapped(h, a) => Mapped(h1, a))
    <2>1. RegionOK(q) /\ (p + sz <= q[1] \/ q[1] + q[2] <= p)
      BY <1>10, <1>11 DEF Layout
    <2>2. a \notin D
      BY <1>1, <1>5, <1>6, <1>16, <2>1 DEF RegionOK
    <2>3. GET(h1, a) = GET(h0, a) /\ (Mapped(h1, a) <=> Mapped(h0, a))
      <3>1. Mapped(h1, a) <=> Mapped(h0, a)
        BY <1>12, WritesMapped
      <3> HIDE DEF D
      <3>2. GET(h1, a) = GET(h0, a)
        BY <1>12, <2>2 DEF Writes
      <3>3. QED
        BY <3>1, <3>2
    <2>4. CASE Mapped(h, a)
      BY <1>11, <2>3, <2>4
    <2>5. CASE ~Mapped(h, a)
      <3>1. ~Mapped(h0, a)
        <4>1. SUFFICES ASSUME Mapped(h0, a) PROVE FALSE
          OBVIOUS
        <4>2. PICK w \in Int : a = 4 * w
          <5>1. a \in WordAddrs
            BY <4>1 DEF Mapped
          <5>2. \A x \in WordAddrs : \E w \in Int : x = 4 * w
            BY DEF WordAddrs
          <5>3. QED
            BY <5>1, <5>2, Zenon
        <4>3. a \in Nat /\ a % 4 = 0
          BY <1>16, <2>1, <4>2 DEF RegionOK
        <4>4. QED
          BY <1>10, <1>16, <2>5, <4>3, RegionMapped
      <3>2. QED
        BY <2>3, <2>5, <3>1 DEF GET
    <2>6. QED
      BY <2>4, <2>5
  <1>17. Tags(h1, B, S, A) /\ Marks(h1, h.regions) /\ FreeList(h1, F) /\ SamePayloads(h, h1, S, B)
    <2>1. B \in SUBSET B /\ F \in SUBSET B /\ h1.list = h.list
      BY <1>11, <1>12
    <2>2. QED
      BY <1>10, <1>16, <2>1, Carry
  <1>18. Stage(h1, C, T, C, A, F)
    <2>1. IsHeap(h1) /\ PagesOK(h1) /\ h1.regions = h.regions \cup {r}
      BY <1>11, <1>12, PagesKept
    <2>2. Tags(h1, C, T, A)
      <3>1. Tag(T, A, d) = sz - 16
        BY <1>1, <1>5, <1>10, <1>14, <1>15 DEF Tag
      <3>2. d - 4 = p + 12 /\ d + T[d] - 8 = p + sz - 8
        BY <1>1, <1>5, <1>6, <1>15
      <3>3. \A c \in B : Tag(T, A, c) = Tag(S, A, c)
        BY <1>15 DEF Tag
      <3>4. QED
        BY <1>12, <1>15, <1>17, <3>1, <3>2, <3>3 DEF Tags
    <2>3. Marks(h1, h.regions \cup {r})
      BY <1>8, <1>12, <1>17 DEF Marks
    <2>4. QED
      BY <1>14, <1>17, <2>1, <2>2, <2>3 DEF Stage
  <1>19. g = add_to_free_list(h1, d)
    BY <1>1, <1>5 DEF extend, h0, h1, PRE_OCCUPIED, OVERHEAD
  <1>20. /\ Stage(g, C, T, C, A, F \cup {d}) /\ Kept(h1, g)
         /\ SamePayloads(h1, g, T, C \ (F \cup {d}))
    BY <1>14, <1>18, <1>19, AddBlock
  <1>21. Sound(g, C, T, A)
    <2>1. F \cup {d} = C \ A /\ A \subseteq C
      BY <1>10, <1>14
    <2>2. QED
      BY <1>20, <2>1 DEF Sound
  <1>22. Merged(C, T, A)
    <2>1. d + T[d] = p + sz
      BY <1>1, <1>5, <1>6, <1>15
    <2>2. \A c \in B : BlockOK(c, S[c])
      BY <1>10 DEF Layout
    <2>3. p + sz \notin C
      BY <1>1, <1>5, <1>6, <1>14, <2>2 DEF BlockOK
    <2>4. \A c \in B : c + S[c] # d
      BY <1>1, <1>5, <1>6, <1>14, <2>2 DEF BlockOK
    <2>5. QED
      BY <1>14, <1>15, <2>1, <2>3, <2>4 DEF Merged
  <1>23. SamePayloads(h, g, S, A)
    <2>1. A \subseteq B /\ A \subseteq C \ (F \cup {d})
      BY <1>10, <1>14
    <2>2. \A c \in A : T[c] = S[c]
      BY <1>15, <2>1
    <2>3. QED
      BY <1>17, <1>20, <2>1, <2>2 DEF SamePayloads, Payload
  <1>24. size <= T[d] /\ Lies(r, d, T[d])
    BY <1>1, <1>5, <1>6, <1>8, <1>15 DEF Lies
  <1>25. g.regions = h.regions \cup {r} /\ (g.fault <=> h.fault)
    BY <1>11, <1>12, <1>20, PagesKept DEF Kept
  <1>26. Extended(h, g, B, S, A, r, size, C, T)
    <2>1. r[1] + 16 = d
      BY <1>8
    <2> HIDE DEF C, d
    <2>2. C = B \cup {d}
      BY DEF C
    <2>3. QED
      BY <1>9, <1>14, <1>15, <1>21, <1>22, <1>23, <1>24, <1>25, <2>1, <2>2 DEF Extended
  <1>27. QED
    BY <1>8, <1>26

(* The heap between two calls: blocks B of sizes S tile its regions, those *)
(* in A are allocated and the others, no two of them neighbours, are the   *)
(* free list; every region holds an allocated block, and nothing has been  *)
(* written outside.                                                        *)
HeapOK(h, B, S, A) ==
  Sound(h, B, S, A) /\ Merged(B, S, A) /\ InUse(h.regions, S, A) /\ ~h.fault

(* What mm_malloc does for every request of at least a byte whose region   *)
(* an int can hold, every page size and every heap: it returns a block of  *)
(* its own, large enough for the payload and its tags, and leaves every    *)
(* other allocated block, its size and its payload's words as they were;   *)
(* the heap that it leaves is well formed again.                           *)
THEOREM MallocCorrect ==
  ASSUME NEW h, NEW B, NEW S, NEW A, HeapOK(h, B, S, A), NEW size \in Nat, Fits(size),
         NEW out \in mm_malloc(h, size)
  PROVE  /\ out.ptr \notin A
         /\ \E C, T : /\ HeapOK(out.heap, C, T, A \cup {out.ptr})
                      /\ T[out.ptr] >= size + 8 /\ \A c \in A : T[c] = S[c]
         /\ SamePayloads(h, out.heap, S, A)
  <1>1. PICK n \in Nat : /\ n = BlockSize(size) /\ n >= 32 /\ n % 16 = 0 /\ n >= size + 8
                          /\ RegionSize(n) <= INT_MAX /\ size # 0 /\ ~(n < 0)
    BY BlockSizeIs DEF Fits
  <1>2. Sound(h, B, S, A) /\ Merged(B, S, A) /\ InUse(h.regions, S, A) /\ ~h.fault
    BY DEF HeapOK
  <1>3. A \subseteq B
    BY <1>2 DEF Sound
  <1>4. CASE FirstFit(h, n) # NULL
    <2> DEFINE b == FirstFit(h, n)
               g == set_allocated(h, b, n)
    <2>1. out = [heap |-> g, ptr |-> b]
      BY <1>1, <1>4 DEF mm_malloc
    <2>2. b \in B \ A /\ n <= S[b]
      BY <1>2, <1>4, FirstFitIs
    <2> HIDE DEF b
    <2>0. g = set_allocated(h, b, n)
      OBVIOUS
    <2> HIDE DEF g
    <2>9. PICK C, T : Allocated(h, g, B, S, A, b, n, C, T)
      BY <1>1, <1>2, <2>0, <2>2, Allocates
    <2>3. /\ Sound(g, C, T, A \cup {b}) /\ Merged(C, T, A \cup {b}) /\ B \subseteq C
          /\ n <= T[b] /\ T[b] <= S[b] /\ \A c \in A : T[c] = S[c]
          /\ SamePayloads(h, g, S, A) /\ Kept(h, g)
      BY <2>9 DEF Allocated
    <2>4. InUse(g.regions, T, A \cup {b})
      BY <1>2, <2>3 DEF InUse, Kept
    <2>5. T[b] \in Nat
      BY <2>3 DEF Sound, Stage, Layout, BlockOK
    <2>6. HeapOK(g, C, T, A \cup {b}) /\ T[b] >= size + 8
      BY <1>1, <1>2, <2>3, <2>4, <2>5 DEF HeapOK, Kept
    <2>7. out.heap = g /\ out.ptr = b
      BY <2>1
    <2>8. QED
      BY <2>2, <2>3, <2>6, <2>7
  <1>5. CASE FirstFit(h, n) = NULL
    <2>1. PICK p \in mmap_bases(h, RegionSize(n)) :
             out = [heap |-> set_allocated(extend(h, p, n), p + 16, n), ptr |-> p + 16]
      BY <1>1, <1>5 DEF mm_malloc, PRE_OCCUPIED, OVERHEAD
    <2> DEFINE k == extend(h, p, n)
               b == p + 16
               g == set_allocated(k, b, n)
    <2>0. k = extend(h, p, n) /\ g = set_allocated(k, b, n)
      OBVIOUS
    <2> HIDE DEF k, g
    <2>12. PICK E, V, r : r[1] = p /\ Extended(h, k, B, S, A, r, n, E, V)
      BY <1>1, <1>2, <2>0, Extends
    <2>2. /\ RegionOK(r) /\ k.regions = h.regions \cup {r} /\ E = B \cup {b} /\ b \notin B
          /\ Sound(k, E, V, A) /\ Merged(E, V, A)
          /\ n <= V[b] /\ Lies(r, b, V[b]) /\ \A c \in B : V[c] = S[c]
          /\ SamePayloads(h, k, S, A) /\ (k.fault <=> h.fault)
      BY <2>12 DEF Extended
    <2> HIDE DEF b
    <2>3. b \in E \ A
      BY <1>3, <2>2
    <2>13. PICK C, T : Allocated(k, g, E, V, A, b, n, C, T)
      BY <1>1, <2>0, <2>2, <2>3, Allocates
    <2>4. /\ Sound(g, C, T, A \cup {b}) /\ Merged(C, T, A \cup {b}) /\ E \subseteq C
          /\ n <= T[b] /\ T[b] <= V[b] /\ \A c \in A : T[c] = V[c]
          /\ SamePayloads(k, g, V, A) /\ Kept(k, g)
      BY <2>13 DEF Allocated
    <2>5. \A c \in A : T[c] = S[c] /\ V[c] = S[c]
      BY <1>3, <2>2, <2>4
    <2>6. SamePayloads(h, g, S, A)
      BY <2>2, <2>4, <2>5 DEF SamePayloads, Payload
    <2>7. T[b] \in Nat /\ V[b] \in Nat /\ b \in Nat
      BY <2>2, <2>3, <2>4 DEF Sound, Stage, Layout, BlockOK
    <2>8. InUse(g.regions, T, A \cup {b})
      <3>1. Lies(r, b, T[b])
        BY <2>2, <2>4, <2>7 DEF Lies, RegionOK
      <3>2. QED
        BY <1>2, <2>2, <2>4, <2>5, <3>1 DEF InUse, Kept
    <2>9. HeapOK(g, C, T, A \cup {b}) /\ T[b] >= size + 8
      BY <1>1, <1>2, <2>2, <2>4, <2>7, <2>8 DEF HeapOK, Kept
    <2>10. out.heap = g /\ out.ptr = b
      BY <2>1 DEF g, k, b
    <2>11. QED
      BY <2>3, <2>5, <2>6, <2>9, <2>10
  <1>6. QED
    BY <1>4, <1>5

-----------------------------------------------------------------------------
(* Freeing *)

(* The words in front of a block: the footer of the block before it, or    *)
(* the prologue.                                                           *)
LEMMA ReadsBefore ==
  ASSUME NEW h, NEW B, NEW S, NEW A, NEW F, Stage(h, B, S, B, A, F), NEW b \in B
  PROVE  /\ \A c \in B : c + S[c] = b => PREV_BLKP(h, b) = c /\ ~PrologueAt(h, b - 8)
         /\ (\A c \in B : c + S[c] # b) => PrologueAt(h, b - 8) /\ PrologueAt(h, b - 12)
  <1>1. Layout(h.regions, B, S) /\ Tags(h, B, S, A) /\ Marks(h, h.regions)
    BY DEF Stage
  <1>2. b \in Nat
    BY <1>1 DEF Layout, BlockOK
  <1>3. ASSUME NEW c \in B, c + S[c] = b PROVE PREV_BLKP(h, b) = c /\ ~PrologueAt(h, b - 8)
    <2>1. c \in Nat /\ S[c] \in Nat /\ S[c] >= 32
      BY <1>1 DEF Layout, BlockOK
    <2>2. GET_SIZE(h, c + S[c] - 8) = S[c]
      BY <1>1, ReadTags
    <2>5. c + S[c] - 8 = b - 8
      BY <1>3, <2>1
    <2>3. GET_SIZE(h, b - 8) = S[c]
      BY <2>2, <2>5
    <2>4. QED
      BY <1>3, <2>1, <2>3 DEF PREV_BLKP, PrologueAt, OVERHEAD
  <1>4. ASSUME \A c \in B : c + S[c] # b PROVE PrologueAt(h, b - 8) /\ PrologueAt(h, b - 12)
    <2>1. PICK r \in h.regions : Lies(r, b, S[b])
      BY <1>1 DEF Layout
    <2>2. b = r[1] + 16 /\ r[1] \in Nat
      BY <1>1, <1>4, <2>1 DEF Layout, RegionOK
    <2>3. b - 8 = r[1] + 8 /\ b - 12 = r[1] + 4
      BY <2>2
    <2>4. GET(h, b - 8) = 8 + 1 /\ GET(h, b - 12) = 8 + 1
      BY <1>1, <2>3 DEF Marks
    <2>5. 8 \in Nat /\ 8 % 8 = 0
      OBVIOUS
    <2>6. /\ GET_SIZE(h, b - 8) = 8 /\ GET_ALLOC(h, b - 8) = 1
          /\ GET_SIZE(h, b - 12) = 8 /\ GET_ALLOC(h, b - 12) = 1
      BY <2>4, <2>5, ReadTag
    <2>7. QED
      BY <2>6 DEF PrologueAt, OVERHEAD
  <1>5. QED
    BY <1>3, <1>4

(* The word behind a block: the header of the next, or the terminator.     *)
LEMMA ReadsBehind ==
  ASSUME NEW h, NEW B, NEW S, NEW A, NEW F, Stage(h, B, S, B, A, F), NEW b \in B
  PROVE  /\ NEXT_BLKP(h, b) = b + S[b] /\ FTRP(h, b) = b + S[b] - 8
         /\ GET_SIZE(h, HDPR(b)) = S[b] /\ GET_ALLOC(h, HDPR(b)) = IF b \in A THEN 1 ELSE 0
         /\ TerminatorAt(h, FTRP(h, b) + 4) <=> b + S[b] \notin B
  <1>1. Layout(h.regions, B, S) /\ Tags(h, B, S, A) /\ Marks(h, h.regions)
    BY DEF Stage
  <1>2. /\ NEXT_BLKP(h, b) = b + S[b] /\ FTRP(h, b) = b + S[b] - 8
        /\ GET_SIZE(h, HDPR(b)) = S[b] /\ GET_ALLOC(h, HDPR(b)) = IF b \in A THEN 1 ELSE 0
    BY <1>1, ReadTags
  <1>3. b \in Nat /\ S[b] \in Nat
    BY <1>1 DEF Layout, BlockOK
  <1>4. FTRP(h, b) + 4 = b + S[b] - 4
    BY <1>2, <1>3
  <1>5. CASE b + S[b] \in B
    <2> DEFINE d == b + S[b]
    <2>0. S[d] \in Nat /\ S[d] >= 32
      BY <1>1, <1>5 DEF Layout, BlockOK
    <2>1. GET_SIZE(h, HDPR(d)) = S[d]
      <3>1. PICK x \in B : x = d
        BY <1>5
      <3>2. GET_SIZE(h, HDPR(x)) = S[x]
        BY <1>1, ReadTags
      <3>3. QED
        BY <3>1, <3>2
    <2>2. HDPR(d) = b + S[b] - 4
      BY <1>3 DEF HDPR
    <2>3. QED
      BY <1>2, <1>4, <1>5, <2>0, <2>1, <2>2 DEF TerminatorAt
  <1>6. CASE b + S[b] \notin B
    <2>1. PICK r \in h.regions : Lies(r, b, S[b])
      BY <1>1 DEF Layout
    <2>2. b + S[b] = r[1] + r[2]
      BY <1>1, <1>6, <2>1 DEF Layout
    <2>7. r[1] \in Nat /\ r[2] \in Nat
      BY <1>1 DEF Layout, RegionOK
    <2>8. b + S[b] - 4 = r[1] + r[2] - 4
      BY <1>3, <2>2, <2>7
    <2>3. GET(h, b + S[b] - 4) = 0 + 1
      BY <1>1, <2>8 DEF Marks
    <2>4. 0 \in Nat /\ 0 % 8 = 0
      OBVIOUS
    <2>5. GET_SIZE(h, b + S[b] - 4) = 0 /\ GET_ALLOC(h, b + S[b] - 4) = 1
      BY <2>3, <2>4, ReadTag
    <2>6. QED
      BY <1>2, <1>4, <1>6, <2>5 DEF TerminatorAt
  <1>7. QED
    BY <1>5, <1>6

(* coalesce writes both tags of the joined block itself. *)
LEMMA PutsAreTags ==
  ASSUME NEW h, IsHeap(h), NEW b \in Nat, NEW n \in Nat, n % 16 = 0, NEW t \in {0, 1}, Mapped(h, b - 4)
  PROVE  PUT(PUT(h, b - 4, n + t), b + n - 8, n + t) = PutTags(h, b, n + t)
  <1> DEFINE g == PUT(h, b - 4, n + t)
  <1>0. PICK p, w : p = b - 4 /\ w = n + t
    OBVIOUS
  <1>6. Mapped(h, p)
    BY <1>0
  <1>5. Writes(h, PUT(h, p, w), {p}) /\ GET(PUT(h, p, w), p) = w
    BY <1>6, PutWord
  <1>1. GET(g, b - 4) = n + t
    BY <1>0, <1>5
  <1>2. n % 8 = 0
    OBVIOUS
  <1>3. GET_SIZE(g, b - 4) = n
    BY <1>1, <1>2, ReadTag
  <1>4. QED
    BY <1>3 DEF PutTags, FTRP, HDPR, OVERHEAD

(* b, free and not in the list, has been joined with its free neighbours   *)
(* and is in the list, as part of block out.bp.                            *)
Coalesced(h, out, B, S, A, b, C, T) ==
  /\ Sound(out.heap, C, T, A) /\ Merged(C, T, A) /\ Kept(h, out.heap)
  /\ out.bp \in C \ A /\ \A c \in A : T[c] = S[c]
  /\ SamePayloads(h, out.heap, S, A)
  /\ \A r \in h.regions : Lies(r, b, S[b]) <=> Lies(r, out.bp, T[out.bp])

(* What coalesce takes its neighbours for. *)
PrevAlloc(h, b) == PrologueAt(h, b - OVERHEAD) \/ GET_ALLOC(h, HDPR(PREV_BLKP(h, b))) = 1
NextAlloc(h, b) == TerminatorAt(h, FTRP(h, b) + 4) \/ GET_ALLOC(h, HDPR(NEXT_BLKP(h, b))) = 1

(* coalesce sees exactly the free blocks on either side.                   *)
LEMMA Neighbours ==
  ASSUME NEW h, NEW B, NEW S, NEW A, NEW F, Stage(h, B, S, B, A, F), NEW b \in B
  PROVE  /\ PrevAlloc(h, b) <=> \A c \in B \ A : c + S[c] # b
         /\ NextAlloc(h, b) <=> b + S[b] \notin B \ A
  <1>1. PrevAlloc(h, b) <=> \A c \in B \ A : c + S[c] # b
    <2>1. CASE \A c \in B : c + S[c] # b
      BY <2>1, ReadsBefore DEF PrevAlloc, OVERHEAD
    <2>2. ASSUME NEW c \in B, c + S[c] = b PROVE PrevAlloc(h, b) <=> \A d \in B \ A : d + S[d] # b
      <3>1. PREV_BLKP(h, b) = c /\ ~PrologueAt(h, b - 8)
        BY <2>2, ReadsBefore
      <3>2. GET_ALLOC(h, HDPR(c)) = IF c \in A THEN 1 ELSE 0
        BY ReadsBehind
      <3>3. \A d \in B : d + S[d] = b => d = c
        <4>1. Layout(h.regions, B, S)
          BY DEF Stage
        <4>2. \A d \in B : d \in Nat /\ S[d] \in Nat /\ S[d] >= 32
          BY <4>1 DEF Layout, BlockOK
        <4>3. \A d, e \in B : d < e => d + S[d] <= e
          BY <4>1 DEF Layout
        <4>4. QED
          BY <2>2, <4>2, <4>3
      <3>4. QED
        BY <2>2, <3>1, <3>2, <3>3 DEF PrevAlloc, OVERHEAD
    <2>3. QED
      BY <2>1, <2>2
  <1>2. NextAlloc(h, b) <=> b + S[b] \notin B \ A
    <2>1. NEXT_BLKP(h, b) = b + S[b] /\ (TerminatorAt(h, FTRP(h, b) + 4) <=> b + S[b] \notin B)
      BY ReadsBehind
    <2>2. CASE b + S[b] \in B
      <3>1. GET_ALLOC(h, HDPR(b + S[b])) = IF b + S[b] \in A THEN 1 ELSE 0
        BY <2>2, ReadsBehind
      <3>2. QED
        BY <2>1, <2>2, <3>1 DEF NextAlloc
    <2>3. CASE b + S[b] \notin B
      BY <2>1, <2>3 DEF NextAlloc
    <2>4. QED
      BY <2>2, <2>3
  <1>3. QED
    BY <1>1, <1>2

(* No free neighbour: the block joins the list as it is. *)
LEMMA CoalesceNone ==
  ASSUME NEW h, NEW B, NEW S, NEW A \in SUBSET B, NEW b \in B \ A,
         Stage(h, B, S, B, A, (B \ A) \ {b}), Merged(B, S, A \cup {b}),
         \A c \in B \ A : c + S[c] # b, b + S[b] \notin B \ A
  PROVE  \E C, T : Coalesced(h, coalesce(h, b), B, S, A, b, C, T)
  <1> DEFINE F == (B \ A) \ {b}
             g == add_to_free_list(h, b)
  <1>1. PrevAlloc(h, b) /\ NextAlloc(h, b)
    BY Neighbours
  <1>2. coalesce(h, b) = [heap |-> g, bp |-> b]
    BY <1>1 DEF coalesce, PrevAlloc, NextAlloc
  <1>3. g = add_to_free_list(h, b) /\ b \in B \ F
    OBVIOUS
  <1>4. Stage(g, B, S, B, A, F \cup {b}) /\ Kept(h, g) /\ SamePayloads(h, g, S, B \ (F \cup {b}))
    BY <1>3, AddBlock
  <1> HIDE DEF g
  <1>5. F \cup {b} = B \ A /\ B \ (F \cup {b}) = A
    OBVIOUS
  <1>6. Sound(g, B, S, A) /\ SamePayloads(h, g, S, A)
    BY <1>4, <1>5 DEF Sound
  <1>7. Merged(B, S, A)
    BY DEF Merged
  <1>8. Coalesced(h, [heap |-> g, bp |-> b], B, S, A, b, B, S)
    BY <1>4, <1>6, <1>7 DEF Coalesced
  <1>9. QED
    BY <1>2, <1>8

(* The next block is free: it leaves the list and is joined. *)
LEMMA CoalesceNext ==
  ASSUME NEW h, NEW B, NEW S, NEW A \in SUBSET B, NEW b \in B \ A,
         Stage(h, B, S, B, A, (B \ A) \ {b}), Merged(B, S, A \cup {b}),
         \A c \in B \ A : c + S[c] # b, b + S[b] \in B \ A
  PROVE  \E C, T : Coalesced(h, coalesce(h, b), B, S, A, b, C, T)
  <1> DEFINE F == (B \ A) \ {b}
  <1>1. PICK d \in B \ A : d = b + S[b]
    OBVIOUS
  <1>2. Layout(h.regions, B, S) /\ \A c \in B : c \in Nat /\ S[c] \in Nat /\ S[c] >= 32
    BY DEF Stage, Layout, BlockOK
  <1>3. d # b /\ d \in F
    BY <1>1, <1>2
  <1> DEFINE h1 == remove_from_free_list(h, d)
             h2 == PutTags(h1, b, PACK(S[b] + S[d], 0))
             g == add_to_free_list(h2, b)
             C == B \ {d}
  <1>4. coalesce(h, b) = [heap |-> g, bp |-> b]
    <2>1. PrevAlloc(h, b) /\ ~NextAlloc(h, b)
      BY Neighbours
    <2>2. NEXT_BLKP(h, b) = d /\ GET_SIZE(h, HDPR(b)) = S[b] /\ GET_SIZE(h, HDPR(d)) = S[d]
      BY <1>1, ReadsBehind
    <2>3. QED
      BY <2>1, <2>2 DEF coalesce, PrevAlloc, NextAlloc
  <1>5. h1 = remove_from_free_list(h, d) /\ h2 = PutTags(h1, b, PACK(S[b] + S[d], 0)) /\ g = add_to_free_list(h2, b)
    OBVIOUS
  <1> HIDE DEF h1, h2, g
  <1>6. Stage(h1, B, S, B, A, F \ {d}) /\ Kept(h, h1) /\ SamePayloads(h, h1, S, B \ F)
    BY <1>3, <1>5, RemoveBlock
  <1>7. PICK T : T = [c \in C |-> IF c = b THEN S[b] + S[d] ELSE S[c]]
    OBVIOUS
  <1>8. Layout(h.regions, C, T) /\ \A r \in h.regions : Lies(r, b, T[b]) <=> Lies(r, b, S[b])
    <2>1. b + S[b] = d /\ d \in B /\ b \in B
      BY <1>1
    <2>2. QED
      BY <1>2, <1>7, <2>1, MergeLayout
  <1>9. T[b] = S[b] + S[d] /\ b \in C /\ \A c \in C \ {b} : T[c] = S[c]
    BY <1>3, <1>7
  <1>10. Stage(h1, C, T, C \ {b}, A, F \ {d})
    <2>1. Tags(h1, C \ {b}, T, A)
      BY <1>6, <1>9 DEF Stage, Tags, Tag
    <2>2. F \ {d} \subseteq C /\ C \ {b} \subseteq C /\ h1.regions = h.regions
      BY <1>6 DEF Kept
    <2>3. QED
      BY <1>6, <1>8, <2>1, <2>2 DEF Stage
  <1>11. Tag(T, A, b) = PACK(S[b] + S[d], 0)
    BY <1>9 DEF Tag, PACK
  <1>12. /\ Stage(h2, C, T, (C \ {b}) \cup {b}, A, F \ {d}) /\ Kept(h1, h2)
         /\ SamePayloads(h1, h2, T, C \ {b})
    <2>1. h2 = PutTags(h1, b, Tag(T, A, b)) /\ b \in C
      BY <1>5, <1>9, <1>11
    <2> HIDE DEF C
    <2>2. QED
      BY <1>10, <2>1, TagBlock
  <1>13. /\ Stage(g, C, T, (C \ {b}) \cup {b}, A, (F \ {d}) \cup {b}) /\ Kept(h2, g)
         /\ SamePayloads(h2, g, T, C \ ((F \ {d}) \cup {b}))
    <2>1. b \in C \ (F \ {d})
      BY <1>9
    <2>2. PICK D, G : D = (C \ {b}) \cup {b} /\ G = F \ {d}
      OBVIOUS
    <2>3. Stage(h2, C, T, D, A, G) /\ b \in C \ G
      BY <1>12, <2>1, <2>2
    <2> HIDE DEF C, F
    <2>4. Stage(g, C, T, D, A, G \cup {b}) /\ Kept(h2, g) /\ SamePayloads(h2, g, T, C \ (G \cup {b}))
      BY <1>5, <2>3, AddBlock
    <2>5. QED
      BY <2>2, <2>4
  <1>14. Sound(g, C, T, A)
    <2>1. (C \ {b}) \cup {b} = C /\ (F \ {d}) \cup {b} = C \ A /\ A \subseteq C
      BY <1>3
    <2>2. QED
      BY <1>13, <2>1 DEF Sound
  <1>15. \A c \in A : T[c] = S[c]
    BY <1>9
  <1>16. SamePayloads(h, g, S, A)
    <2>1. A \subseteq B \ F /\ A \subseteq C \ {b} /\ A \subseteq C \ ((F \ {d}) \cup {b})
      OBVIOUS
    <2>2. QED
      BY <1>6, <1>12, <1>13, <1>15, <2>1 DEF SamePayloads, Payload
  <1>17. Merged(C, T, A)
    <2> SUFFICES ASSUME NEW c \in C \ A, c + T[c] \in C PROVE c + T[c] \in A
      BY DEF Merged
    <2>1. CASE c = b
      <3>1. c + T[c] = d + S[d] /\ d + S[d] # b
        BY <1>1, <1>2, <1>9, <2>1
      <3>2. QED
        BY <1>3, <3>1 DEF Merged
    <2>2. CASE c # b
      BY <1>9, <2>2 DEF Merged
    <2>3. QED
      BY <2>1, <2>2
  <1>18. Kept(h, g)
    BY <1>6, <1>12, <1>13 DEF Kept
  <1>19. Coalesced(h, [heap |-> g, bp |-> b], B, S, A, b, C, T)
    BY <1>8, <1>9, <1>14, <1>15, <1>16, <1>17, <1>18 DEF Coalesced
  <1>20. QED
    BY <1>4, <1>19

(* The block before is free: it stays in the list and grows. *)
LEMMA CoalescePrev ==
  ASSUME NEW h, NEW B, NEW S, NEW A \in SUBSET B, NEW b \in B \ A,
         Stage(h, B, S, B, A, (B \ A) \ {b}), Merged(B, S, A \cup {b}),
         NEW p \in B \ A, p + S[p] = b, b + S[b] \notin B \ A
  PROVE  \E C, T : Coalesced(h, coalesce(h, b), B, S, A, b, C, T)
  <1> DEFINE F == (B \ A) \ {b}
             word == PACK(S[b] + S[p], 0)
             g == PUT(PUT(h, p - 4, word), b + S[b] - 8, word)
             C == B \ {b}
  <1>1. Layout(h.regions, B, S) /\ \A c \in B : BlockOK(c, S[c])
    BY DEF Stage, Layout
  <1>2. \A c \in B : c \in Nat /\ S[c] \in Nat /\ S[c] >= 32
    BY <1>1 DEF BlockOK
  <1>3. p # b /\ p \in F
    BY <1>2
  <1>4. coalesce(h, b) = [heap |-> g, bp |-> p]
    <2>1. ~PrevAlloc(h, b) /\ NextAlloc(h, b)
      BY Neighbours
    <2>2. PREV_BLKP(h, b) = p /\ FTRP(h, b) = b + S[b] - 8 /\ HDPR(p) = p - 4
      BY ReadsBefore, ReadsBehind DEF HDPR
    <2>3. GET_SIZE(h, HDPR(b)) = S[b] /\ GET_SIZE(h, HDPR(p)) = S[p]
      BY ReadsBehind
    <2>4. QED
      BY <2>1, <2>2, <2>3 DEF coalesce, PrevAlloc, NextAlloc
  <1>5. PICK T : T = [c \in C |-> IF c = p THEN S[p] + S[b] ELSE S[c]]
    OBVIOUS
  <1>6. Layout(h.regions, C, T) /\ \A r \in h.regions : Lies(r, p, T[p]) <=> Lies(r, p, S[p])
    BY <1>1, <1>5, MergeLayout
  <1>7. T[p] = S[p] + S[b] /\ p \in C /\ \A c \in C \ {p} : T[c] = S[c]
    BY <1>3, <1>5
  <1>8. Tag(T, A, p) = word
    BY <1>2, <1>7 DEF Tag, PACK
  <1>9. g = PutTags(h, p, Tag(T, A, p))
    <2>1. PICK n \in Nat : n = T[p] /\ n % 16 = 0 /\ p + n - 8 = b + S[b] - 8 /\ word = n + 0
      <3>1. T[p] \in Nat /\ T[p] % 16 = 0
        BY <1>6, <1>7 DEF Layout, BlockOK
      <3>2. p + T[p] - 8 = b + S[b] - 8 /\ word = T[p] + 0
        BY <1>2, <1>7 DEF PACK
      <3>3. QED
        BY <3>1, <3>2
    <2>2. IsHeap(h) /\ Mapped(h, p - 4) /\ p \in Nat
      <3>1. IsHeap(h) /\ PagesOK(h)
        BY DEF Stage
      <3>2. p - 4 \in BlockWords(S, p) /\ (p - 4) % 4 = 0
        <4>1. (p - 4) % 4 = 0
          BY <1>1 DEF BlockOK
        <4>2. QED
          BY <1>1, <4>1, WordsApart
      <3>3. QED
        BY <1>1, <1>2, <3>1, <3>2, BlockMapped
    <2>3. PICK t \in {0, 1} : t = 0
      OBVIOUS
    <2> HIDE DEF word
    <2>4. PUT(PUT(h, p - 4, n + t), p + n - 8, n + t) = PutTags(h, p, n + t)
      BY <2>1, <2>2, PutsAreTags
    <2>5. QED
      BY <1>8, <2>1, <2>3, <2>4
  <1> HIDE DEF g, word
  <1>10. Stage(h, C, T, C \ {p}, A, F)
    <2>1. Tags(h, C \ {p}, T, A)
      BY <1>7 DEF Stage, Tags, Tag
    <2>2. QED
      BY <1>6, <2>1 DEF Stage
  <1>11. /\ Stage(g, C, T, (C \ {p}) \cup {p}, A, F) /\ Kept(h, g)
         /\ SamePayloads(h, g, T, C \ {p})
    BY <1>7, <1>9, <1>10, TagBlock
  <1>12. Sound(g, C, T, A)
    <2>1. (C \ {p}) \cup {p} = C /\ F = C \ A /\ A \subseteq C
      BY <1>3
    <2>2. QED
      BY <1>11, <2>1 DEF Sound
  <1>13. \A c \in A : T[c] = S[c]
    BY <1>7
  <1>14. SamePayloads(h, g, S, A)
    <2>1. A \subseteq C \ {p}
      OBVIOUS
    <2>2. QED
      BY <1>11, <1>13, <2>1 DEF SamePayloads, Payload
  <1>15. Merged(C, T, A)
    <2> SUFFICES ASSUME NEW c \in C \ A, c + T[c] \in C PROVE c + T[c] \in A
      BY DEF Merged
    <2>1. CASE c = p
      <3>1. c + T[c] = b + S[b]
        BY <1>2, <1>7, <2>1
      <3>2. QED
        BY <3>1
    <2>2. CASE c # p
      BY <1>7, <2>2 DEF Merged
    <2>3. QED
      BY <2>1, <2>2
  <1>16. \A r \in h.regions : Lies(r, b, S[b]) <=> Lies(r, p, T[p])
    BY <1>1, <1>6, SameRegion
  <1>17. Coalesced(h, [heap |-> g, bp |-> p], B, S, A, b, C, T)
    BY <1>7, <1>11, <1>12, <1>13, <1>14, <1>15, <1>16 DEF Coalesced
  <1>18. QED
    BY <1>4, <1>17

(* Both neighbours are free: the next one leaves the list, the one before  *)
(* takes all three.                                                        *)
LEMMA CoalesceBoth ==
  ASSUME NEW h, NEW B, NEW S, NEW A \in SUBSET B, NEW b \in B \ A,
         Stage(h, B, S, B, A, (B \ A) \ {b}), Merged(B, S, A \cup {b}),
         NEW p \in B \ A, p + S[p] = b, b + S[b] \in B \ A
  PROVE  \E C, T : Coalesced(h, coalesce(h, b), B, S, A, b, C, T)
  <1> DEFINE F == (B \ A) \ {b}
  <1>1. PICK d \in B \ A : b + S[b] = d
    OBVIOUS
  <1>2. Layout(h.regions, B, S) /\ \A c \in B : BlockOK(c, S[c])
    BY DEF Stage, Layout
  <1>3. \A c \in B : c \in Nat /\ S[c] \in Nat /\ S[c] >= 32
    BY <1>2 DEF BlockOK
  <1>4. p # b /\ p \in F /\ d # b /\ d # p /\ d \in F
    BY <1>1, <1>3
  <1> DEFINE word == PACK(S[b] + S[p] + S[d], 0)
             h1 == remove_from_free_list(h, d)
             g == PUT(PUT(h1, p - 4, word), d + S[d] - 8, word)
             E == B \ {b}
             C == E \ {d}
  <1>5. h1 = remove_from_free_list(h, d)
    OBVIOUS
  <1>6. Stage(h1, B, S, B, A, F \ {d}) /\ Kept(h, h1) /\ SamePayloads(h, h1, S, B \ F)
    <2> HIDE DEF F
    <2>1. QED
      BY <1>4, <1>5, RemoveBlock DEF F
  <1>7. coalesce(h, b) = [heap |-> g, bp |-> p]
    <2>1. ~PrevAlloc(h, b) /\ ~NextAlloc(h, b)
      BY Neighbours
    <2>2. PREV_BLKP(h, b) = p /\ NEXT_BLKP(h, b) = d /\ HDPR(p) = p - 4
      BY <1>1, ReadsBefore, ReadsBehind DEF HDPR
    <2>3. GET_SIZE(h, HDPR(b)) = S[b] /\ GET_SIZE(h, HDPR(p)) = S[p] /\ GET_SIZE(h, HDPR(d)) = S[d]
      BY ReadsBehind
    <2>4. FTRP(h1, d) = d + S[d] - 8
      BY <1>6, ReadsBehind
    <2>5. QED
      BY <2>1, <2>2, <2>3, <2>4 DEF coalesce, PrevAlloc, NextAlloc
  <1> HIDE DEF h1
  <1>8. PICK U : U = [c \in E |-> IF c = p THEN S[p] + S[b] ELSE S[c]]
    OBVIOUS
  <1>9. Layout(h.regions, E, U) /\ \A r \in h.regions : Lies(r, p, U[p]) <=> Lies(r, p, S[p])
    BY <1>2, <1>8, MergeLayout
  <1>10. U[p] = S[p] + S[b] /\ p \in E /\ d \in E /\ \A c \in E \ {p} : U[c] = S[c]
    BY <1>4, <1>8
  <1>11. PICK T : T = [c \in C |-> IF c = p THEN U[p] + U[d] ELSE U[c]]
    OBVIOUS
  <1>12. Layout(h.regions, C, T) /\ \A r \in h.regions : Lies(r, p, T[p]) <=> Lies(r, p, U[p])
    <2>1. p + U[p] = d
      BY <1>1, <1>3, <1>10
    <2> HIDE DEF E
    <2>2. QED
      BY <1>9, <1>10, <1>11, <2>1, MergeLayout
  <1>13. T[p] = S[p] + S[b] + S[d] /\ p \in C /\ \A c \in C \ {p} : T[c] = S[c]
    <2>1. p \in C /\ T[p] = U[p] + U[d] /\ \A c \in C \ {p} : T[c] = U[c]
      BY <1>4, <1>11
    <2>2. QED
      BY <1>4, <1>10, <2>1
  <1>14. Tag(T, A, p) = word
    BY <1>3, <1>13 DEF Tag, PACK
  <1>15. g = PutTags(h1, p, Tag(T, A, p))
    <2>1. PICK n \in Nat : n = T[p] /\ n % 16 = 0 /\ p + n - 8 = d + S[d] - 8 /\ word = n + 0
      <3>1. T[p] \in Nat /\ T[p] % 16 = 0
        BY <1>12, <1>13 DEF Layout, BlockOK
      <3>2. p + T[p] - 8 = d + S[d] - 8 /\ word = T[p] + 0
        BY <1>1, <1>3, <1>13 DEF PACK
      <3>3. QED
        BY <3>1, <3>2
    <2>2. IsHeap(h1) /\ Mapped(h1, p - 4) /\ p \in Nat
      <3>1. IsHeap(h1) /\ PagesOK(h1) /\ Layout(h1.regions, B, S)
        BY <1>6 DEF Stage
      <3>2. p - 4 \in BlockWords(S, p) /\ (p - 4) % 4 = 0
        <4>1. (p - 4) % 4 = 0
          BY <1>2 DEF BlockOK
        <4>2. QED
          BY <1>2, <4>1, WordsApart
      <3>3. QED
        BY <1>3, <3>1, <3>2, BlockMapped
    <2>3. PICK t \in {0, 1} : t = 0
      OBVIOUS
    <2> HIDE DEF word
    <2>4. PUT(PUT(h1, p - 4, n + t), p + n - 8, n + t) = PutTags(h1, p, n + t)
      BY <2>1, <2>2, PutsAreTags
    <2>5. QED
      BY <1>14, <2>1, <2>3, <2>4
  <1> HIDE DEF g, word
  <1>16. Stage(h1, C, T, C \ {p}, A, F \ {d})
    <2>1. Tags(h1, C \ {p}, T, A)
      BY <1>6, <1>13 DEF Stage, Tags, Tag
    <2>2. F \ {d} \subseteq C /\ h1.regions = h.regions
      BY <1>6 DEF Kept
    <2>3. QED
      BY <1>6, <1>12, <2>1, <2>2 DEF Stage
  <1>17. /\ Stage(g, C, T, (C \ {p}) \cup {p}, A, F \ {d}) /\ Kept(h1, g)
         /\ SamePayloads(h1, g, T, C \ {p})
    <2> HIDE DEF C, F
    <2>1. QED
      BY <1>13, <1>15, <1>16, TagBlock
  <1>18. Sound(g, C, T, A)
    <2>1. (C \ {p}) \cup {p} = C /\ F \ {d} = C \ A /\ A \subseteq C
      BY <1>13
    <2>2. QED
      BY <1>17, <2>1 DEF Sound
  <1>19. \A c \in A : T[c] = S[c]
    BY <1>13
  <1>20. SamePayloads(h, g, S, A)
    <2>1. A \subseteq C \ {p} /\ A \subseteq B \ F
      OBVIOUS
    <2>2. QED
      BY <1>6, <1>17, <1>19, <2>1 DEF SamePayloads, Payload
  <1>21. Merged(C, T, A)
    <2> SUFFICES ASSUME NEW c \in C \ A, c + T[c] \in C PROVE c + T[c] \in A
      BY DEF Merged
    <2>1. CASE c = p
      <3>1. c + T[c] = d + S[d]
        BY <1>1, <1>3, <1>13, <2>1
      <3>2. QED
        BY <1>4, <3>1 DEF Merged
    <2>2. CASE c # p
      BY <1>13, <2>2 DEF Merged
    <2>3. QED
      BY <2>1, <2>2
  <1>22. \A r \in h.regions : Lies(r, b, S[b]) <=> Lies(r, p, T[p])
    <2>1. \A r \in h.regions : Lies(r, p, S[p]) <=> Lies(r, b, S[b])
      BY <1>2, SameRegion
    <2>2. QED
      BY <1>9, <1>12, <2>1
  <1>23. Kept(h, g)
    BY <1>6, <1>17 DEF Kept
  <1>24. Coalesced(h, [heap |-> g, bp |-> p], B, S, A, b, C, T)
    BY <1>13, <1>18, <1>19, <1>20, <1>21, <1>22, <1>23 DEF Coalesced
  <1>25. QED
    BY <1>7, <1>24

(* Whatever the neighbours are, coalesce leaves a heap without free        *)
(* neighbours.                                                             *)
LEMMA Coalesces ==
  ASSUME NEW h, NEW B, NEW S, NEW A \in SUBSET B, NEW b \in B \ A,
         Stage(h, B, S, B, A, (B \ A) \ {b}), Merged(B, S, A \cup {b})
  PROVE  \E C, T : Coalesced(h, coalesce(h, b), B, S, A, b, C, T)
  <1>1. CASE \A c \in B \ A : c + S[c] # b
    BY <1>1, CoalesceNone, CoalesceNext
  <1>2. ASSUME NEW p \in B \ A, p + S[p] = b
        PROVE  \E C, T : Coalesced(h, coalesce(h, b), B, S, A, b, C, T)
    BY <1>2, CoalescePrev, CoalesceBoth
  <1>3. QED
    BY <1>1, <1>2

(* mm_free's test for a region of one free block.                          *)
Alone(h, b) ==
  /\ PrologueAt(h, HDPR(b) - 4) /\ PrologueAt(h, HDPR(b) - OVERHEAD)
  /\ TerminatorAt(h, FTRP(h, b) + 4)

(* The test is exact. *)
LEMMA AloneIs ==
  ASSUME NEW h, NEW B, NEW S, NEW A, Sound(h, B, S, A), NEW b \in B, NEW r \in h.regions,
         Lies(r, b, S[b])
  PROVE  /\ Alone(h, b) => b = r[1] + 16 /\ b + S[b] = r[1] + r[2]
         /\ ~Alone(h, b) => b + S[b] \in B \/ \E c \in B : c + S[c] = b
  <1>1. Stage(h, B, S, B, A, B \ A) /\ Layout(h.regions, B, S)
    BY DEF Sound, Stage
  <1>2. b \in Nat
    BY <1>1 DEF Layout, BlockOK
  <1>3. HDPR(b) - 4 = b - 8 /\ HDPR(b) - OVERHEAD = b - 12
    BY <1>2 DEF HDPR, OVERHEAD
  <1>4. /\ \A c \in B : c + S[c] = b => ~PrologueAt(h, b - 8)
        /\ (\A c \in B : c + S[c] # b) => PrologueAt(h, b - 8) /\ PrologueAt(h, b - 12)
    BY <1>1, ReadsBefore
  <1>5. TerminatorAt(h, FTRP(h, b) + 4) <=> b + S[b] \notin B
    BY <1>1, ReadsBehind
  <1>6. /\ b + S[b] \in B \/ b + S[b] = r[1] + r[2]
        /\ b = r[1] + 16 \/ \E c \in B : c + S[c] = b
    BY <1>1 DEF Layout
  <1>7. QED
    BY <1>3, <1>4, <1>5, <1>6 DEF Alone

(* mem_unmap gives back one region and keeps the words of the others.      *)
LEMMA Unmaps ==
  ASSUME NEW h, IsHeap(h), PagesOK(h), NEW r \in h.regions,
         \A q \in h.regions : q # r => r[1] + r[2] <= q[1] \/ q[1] + q[2] <= r[1],
         \A q \in h.regions : q[1] = r[1] => q = r,
         NEW g, g = mem_unmap(h, r[1], r[2])
  PROVE  /\ IsHeap(g) /\ PagesOK(g) /\ g.regions = h.regions \ {r}
         /\ (g.fault <=> h.fault) /\ g.list = h.list
         /\ \A q \in g.regions : \A a \in Int : q[1] <= a /\ a < q[1] + q[2] =>
              GET(g, a) = GET(h, a) /\ (Mapped(h, a) => Mapped(g, a))
  <1> DEFINE P == RangePages(r[1], r[2])
  <1>1. APAGE_SIZE \in Nat /\ APAGE_SIZE > 0
    BY PageAssumption
  <1>2. PICK n \in Nat, m \in Nat : m >= 1 /\ r = <<APAGE_SIZE * n, APAGE_SIZE * m>>
    BY DEF PagesOK
  <1>3. r[1] = APAGE_SIZE * n /\ r[2] = APAGE_SIZE * m
    BY <1>2
  <1>4. P = n..(n + m - 1)
    BY <1>3, RangeIs
  <1>5. P \subseteq h.pages
    BY DEF PagesOK
  <1>6. (APAGE_SIZE * n) % APAGE_SIZE = 0 /\ (APAGE_SIZE * m) % APAGE_SIZE = 0
    BY <1>1
  <1>7. g = [h EXCEPT !.pages = @ \ P,
                      !.regions = {q \in @ : q[1] # r[1]},
                      !.mem = [a \in WordAddrs |-> IF PageOf(a) \in P THEN Hole ELSE @[a]]]
    BY <1>3, <1>5, <1>6 DEF mem_unmap
  <1>8. /\ g.mem = [a \in WordAddrs |-> IF PageOf(a) \in P THEN Hole ELSE h.mem[a]]
        /\ g.list = h.list /\ g.pages = h.pages \ P
        /\ g.regions = {q \in h.regions : q[1] # r[1]} /\ g.fault = h.fault
    BY <1>7 DEF IsHeap
  <1>9. g = [mem |-> g.mem, list |-> g.list, pages |-> g.pages, regions |-> g.regions,
             fault |-> g.fault]
    BY <1>7 DEF IsHeap
  <1> HIDE DEF P
  <1>10. IsHeap(g)
    BY <1>8, <1>9 DEF IsHeap
  <1>11. g.regions = h.regions \ {r}
    BY <1>8
  <1>12. ASSUME NEW q \in h.regions \ {r}
         PROVE  /\ RangePages(q[1], q[2]) \cap P = {}
                /\ \A a \in Int : q[1] <= a /\ a < q[1] + q[2] => a \in Nat /\ PageOf(a) \notin P
    <2>1. PICK i \in Nat, j \in Nat : j >= 1 /\ q = <<APAGE_SIZE * i, APAGE_SIZE * j>>
      BY DEF PagesOK
    <2>2. q[1] = APAGE_SIZE * i /\ q[2] = APAGE_SIZE * j
      BY <2>1
    <2>3. r[1] + r[2] <= q[1] \/ q[1] + q[2] <= r[1]
      OBVIOUS
    <2>4. PICK u \in Nat, v \in Nat, x \in Nat, y \in Nat :
            u = APAGE_SIZE * n /\ v = APAGE_SIZE * m /\ x = APAGE_SIZE * i /\ y = APAGE_SIZE * j
      BY <1>1
    <2>5. RangePages(q[1], q[2]) = i..(i + j - 1)
      BY <2>2, RangeIs
    <2>6. n + m <= i \/ i + j <= n
      <3>1. /\ i + 1 <= n + m => APAGE_SIZE * i + APAGE_SIZE <= APAGE_SIZE * n + APAGE_SIZE * m
            /\ n + 1 <= i + j => APAGE_SIZE * n + APAGE_SIZE <= APAGE_SIZE * i + APAGE_SIZE * j
        <4>1. i + 1 <= n + m => APAGE_SIZE * (i + 1) <= APAGE_SIZE * (n + m)
          BY <1>1
        <4>2. n + 1 <= i + j => APAGE_SIZE * (n + 1) <= APAGE_SIZE * (i + j)
          BY <1>1
        <4>3. /\ APAGE_SIZE * (i + 1) = APAGE_SIZE * i + APAGE_SIZE
              /\ APAGE_SIZE * (n + 1) = APAGE_SIZE * n + APAGE_SIZE
              /\ APAGE_SIZE * (n + m) = APAGE_SIZE * n + APAGE_SIZE * m
              /\ APAGE_SIZE * (i + j) = APAGE_SIZE * i + APAGE_SIZE * j
          BY <1>1
        <4>4. QED
          BY <4>1, <4>2, <4>3
      <3>2. u + v <= x \/ x + y <= u
        BY <1>3, <2>2, <2>3, <2>4
      <3>3. QED
        BY <1>1, <2>4, <3>1, <3>2
    <2>7. RangePages(q[1], q[2]) \cap P = {}
      BY <1>4, <2>5, <2>6
    <2>8. ASSUME NEW a \in Int, q[1] <= a, a < q[1] + q[2] PROVE a \in Nat /\ PageOf(a) \notin P
      <3>1. a \in Nat
        BY <2>2, <2>4, <2>8
      <3>2. PageOf(a) \in i..(i + j - 1)
        BY <2>2, <2>8, <3>1, RangeIs
      <3>3. QED
        BY <2>5, <2>7, <3>1, <3>2
    <2>9. QED
      BY <2>7, <2>8
  <1>13. PagesOK(g)
    <2>1. g.pages \subseteq Pages
      BY <1>8 DEF PagesOK
    <2>2. g.pages = UNION {RangePages(q[1], q[2]) : q \in g.regions}
      <3>1. h.pages = UNION {RangePages(q[1], q[2]) : q \in h.regions}
        BY DEF PagesOK
      <3>2. ASSUME NEW x \in g.pages PROVE \E q \in g.regions : x \in RangePages(q[1], q[2])
        BY <1>8, <1>11, <3>1 DEF P
      <3>3. ASSUME NEW q \in g.regions, NEW x \in RangePages(q[1], q[2]) PROVE x \in g.pages
        BY <1>8, <1>11, <1>12, <3>1
      <3>4. QED
        BY <3>2, <3>3
    <2>3. \A q \in g.regions : \E i, j \in Nat : j >= 1 /\ q = <<APAGE_SIZE * i, APAGE_SIZE * j>>
      BY <1>11 DEF PagesOK
    <2>4. QED
      BY <2>1, <2>2, <2>3 DEF PagesOK
  <1>14. ASSUME NEW q \in g.regions, NEW a \in Int, q[1] <= a, a < q[1] + q[2]
         PROVE  GET(g, a) = GET(h, a) /\ (Mapped(h, a) => Mapped(g, a))
    <2>1. PageOf(a) \notin P
      BY <1>11, <1>12, <1>14
    <2>2. Mapped(g, a) <=> Mapped(h, a)
      BY <1>8, <2>1 DEF Mapped
    <2>3. a \in WordAddrs => g.mem[a] = h.mem[a]
      BY <1>8, <2>1
    <2>4. QED
      BY <2>2, <2>3 DEF GET, Mapped
  <1>15. QED
    BY <1>8, <1>10, <1>11, <1>13, <1>14

(* release takes the only block of a region out of the list and the region *)
(* out of the heap; every other region is as it was.                       *)
LEMMA Releases ==
  ASSUME NEW h, NEW B, NEW S, NEW A, Sound(h, B, S, A), NEW b \in B \ A, NEW r \in h.regions,
         b = r[1] + 16, b + S[b] = r[1] + r[2],
         NEW g, g = release(h, b)
  PROVE  /\ Sound(g, B \ {b}, S, A) /\ g.regions = h.regions \ {r}
         /\ (g.fault <=> h.fault) /\ SamePayloads(h, g, S, A)
  <1> DEFINE F == B \ A
             C == B \ {b}
             k == remove_from_free_list(h, b)
  <1>1. Stage(h, B, S, B, A, F) /\ A \subseteq B /\ b \in F
    BY DEF Sound
  <1>2. Layout(h.regions, B, S) /\ Tags(h, B, S, A)
    BY <1>1 DEF Stage
  <1>3. BlockOK(b, S[b]) /\ RegionOK(r)
    BY <1>2 DEF Layout
  <1>4. GET_SIZE(h, HDPR(b)) = S[b]
    BY <1>2, ReadTags
  <1>5. HDPR(b) - 12 = r[1] /\ S[b] + 16 = r[2]
    BY <1>3 DEF HDPR, BlockOK, RegionOK
  <1>6. g = mem_unmap(k, r[1], r[2])
    BY <1>4, <1>5 DEF release, PRE_OCCUPIED, OVERHEAD
  <1>7. k = remove_from_free_list(h, b)
    OBVIOUS
  <1> HIDE DEF k, F
  <1>8. Stage(k, B, S, B, A, F \ {b}) /\ Kept(h, k) /\ SamePayloads(h, k, S, B \ F)
    BY <1>1, <1>7, RemoveBlock
  <1>9. /\ IsHeap(k) /\ PagesOK(k) /\ k.regions = h.regions /\ Marks(k, h.regions)
        /\ Tags(k, B, S, A) /\ FreeList(k, F \ {b}) /\ (k.fault <=> h.fault)
    BY <1>8 DEF Stage, Kept
  <1>10. /\ Layout(h.regions \ {r}, C, S)
         /\ \A q \in h.regions : q[1] = r[1] => q = r
    BY <1>2, DropLayout
  <1>11. \A q \in h.regions : q # r => r[1] + r[2] <= q[1] \/ q[1] + q[2] <= r[1]
    BY <1>2 DEF Layout
  <1>12. /\ IsHeap(g) /\ PagesOK(g) /\ g.regions = k.regions \ {r}
         /\ (g.fault <=> k.fault) /\ g.list = k.list
         /\ \A q \in g.regions : \A a \in Int : q[1] <= a /\ a < q[1] + q[2] =>
              GET(g, a) = GET(k, a) /\ (Mapped(k, a) => Mapped(g, a))
    <2>1. /\ r \in k.regions /\ \A q \in k.regions : q[1] = r[1] => q = r
          /\ \A q \in k.regions : q # r => r[1] + r[2] <= q[1] \/ q[1] + q[2] <= r[1]
      BY <1>9, <1>10, <1>11
    <2>2. QED
      BY <1>6, <1>9, <2>1, Unmaps
  <1>13. PICK Q : Q = h.regions \ {r}
    OBVIOUS
  <1>14. g.regions = Q /\ Layout(Q, C, S)
    BY <1>9, <1>10, <1>12, <1>13
  <1>15. C \in SUBSET C /\ F \ {b} \in SUBSET C /\ Tags(k, C, S, A) /\ Marks(k, Q)
    BY <1>9, <1>13 DEF F, Tags, Marks
  <1> HIDE DEF C
  <1>16. Tags(g, C, S, A) /\ Marks(g, Q) /\ FreeList(g, F \ {b}) /\ SamePayloads(k, g, S, C)
    BY <1>9, <1>12, <1>14, <1>15, Carry
  <1>17. F \ {b} = C \ A /\ A \subseteq C /\ A \subseteq B \ F
    BY <1>1 DEF C, F
  <1>18. Sound(g, C, S, A)
    BY <1>12, <1>14, <1>15, <1>16, <1>17 DEF Sound, Stage
  <1>19. SamePayloads(h, g, S, A)
    BY <1>8, <1>16, <1>17 DEF SamePayloads
  <1>20. QED
    BY <1>9, <1>12, <1>18, <1>19 DEF C

(* What mm_free does for every allocated block of every heap: the block    *)
(* stops being allocated, every other allocated block keeps its size and   *)
(* its payload's words, and the heap is well formed again: its free        *)
(* neighbours are joined with it, and a region that holds no allocated     *)
(* block any more is unmapped.                                             *)
THEOREM FreeCorrect ==
  ASSUME NEW h, NEW B, NEW S, NEW A, HeapOK(h, B, S, A), NEW b \in A
  PROVE  /\ \E C, T : HeapOK(mm_free(h, b), C, T, A \ {b}) /\ \A c \in A \ {b} : T[c] = S[c]
         /\ SamePayloads(h, mm_free(h, b), S, A \ {b})
  <1>1. /\ Sound(h, B, S, A) /\ Merged(B, S, A) /\ InUse(h.regions, S, A) /\ ~h.fault
        /\ A \subseteq B /\ Stage(h, B, S, B, A, B \ A)
    BY DEF HeapOK, Sound
  <1>2. Layout(h.regions, B, S) /\ Tags(h, B, S, A) /\ b \in B
    BY <1>1 DEF Stage
  <1>3. PICK D : D = A \ {b}
    OBVIOUS
  <1>4. GET_SIZE(h, HDPR(b)) = S[b] /\ GET_ALLOC(h, HDPR(b)) = 1
    BY <1>2, ReadTags
  <1> DEFINE f == PutTags(h, b, PACK(GET_SIZE(h, HDPR(b)), 0))
             out == coalesce(f, b)
             g == out.heap
             d == out.bp
  <1>5. mm_free(h, b) = IF Alone(g, d) THEN release(g, d) ELSE g
    BY <1>4 DEF mm_free, Alone
  <1>6. f = PutTags(h, b, Tag(S, D, b))
    <2>1. S[b] \in Nat
      BY <1>2 DEF Layout, BlockOK
    <2>2. QED
      BY <1>3, <1>4, <2>1 DEF Tag, PACK
  <1>7. out = coalesce(f, b) /\ g = out.heap /\ d = out.bp
    OBVIOUS
  <1> HIDE DEF f, out, g, d
  <1>8. Stage(h, B, S, B \ {b}, D, B \ A)
    <2>1. Tags(h, B \ {b}, S, D)
      BY <1>2, <1>3 DEF Tags, Tag
    <2>2. QED
      BY <1>1, <2>1 DEF Stage
  <1>9. Stage(f, B, S, B, D, (B \ D) \ {b}) /\ Kept(h, f) /\ SamePayloads(h, f, S, B \ {b})
    <2>1. PICK E, F : E = B \ {b} /\ F = B \ A
      OBVIOUS
    <2>2. Stage(f, B, S, E \cup {b}, D, F) /\ Kept(h, f) /\ SamePayloads(h, f, S, B \ {b})
      BY <1>2, <1>6, <1>8, <2>1, TagBlock
    <2>3. E \cup {b} = B /\ F = (B \ D) \ {b}
      BY <1>2, <1>3, <2>1
    <2>4. QED
      BY <2>2, <2>3
  <1>10. D \cup {b} = A /\ D \in SUBSET B /\ b \in B \ D
    BY <1>1, <1>2, <1>3
  <1>11. PICK C, T : Coalesced(f, out, B, S, D, b, C, T)
    BY <1>1, <1>7, <1>9, <1>10, Coalesces
  <1>12. /\ Sound(g, C, T, D) /\ Merged(C, T, D) /\ Kept(f, g)
         /\ d \in C \ D /\ \A c \in D : T[c] = S[c]
         /\ SamePayloads(f, g, S, D)
         /\ \A r \in f.regions : Lies(r, b, S[b]) <=> Lies(r, d, T[d])
    BY <1>7, <1>11 DEF Coalesced
  <1>13. g.regions = h.regions /\ f.regions = h.regions /\ ~g.fault
    BY <1>1, <1>9, <1>12 DEF Kept
  <1>14. SamePayloads(h, g, S, D)
    BY <1>9, <1>10, <1>12 DEF SamePayloads
  <1>15. PICK r \in h.regions : Lies(r, b, S[b])
    BY <1>2 DEF Layout
  <1>16. Lies(r, d, T[d])
    BY <1>12, <1>13, <1>15
  <1>17. \A q \in h.regions \ {r} : \E c \in D : Lies(q, c, T[c])
    <2> SUFFICES ASSUME NEW q \in h.regions \ {r} PROVE \E c \in D : Lies(q, c, T[c])
      OBVIOUS
    <2>1. PICK c \in A : Lies(q, c, S[c])
      BY <1>1 DEF InUse
    <2>2. c # b
      BY <1>2, <1>15, <2>1, OneRegion
    <2>3. QED
      BY <1>3, <1>12, <2>1, <2>2
  <1>18. Layout(h.regions, C, T)
    BY <1>12, <1>13 DEF Sound, Stage
  <1>19. CASE Alone(g, d)
    <2>1. d = r[1] + 16 /\ d + T[d] = r[1] + r[2]
      BY <1>12, <1>13, <1>16, <1>19, AloneIs
    <2>2. PICK k : k = release(g, d)
      OBVIOUS
    <2>3. /\ Sound(k, C \ {d}, T, D) /\ k.regions = g.regions \ {r}
          /\ (k.fault <=> g.fault) /\ SamePayloads(g, k, T, D)
      BY <1>12, <1>13, <2>1, <2>2, Releases
    <2>4. SamePayloads(h, k, S, D)
      BY <1>12, <1>14, <2>3 DEF SamePayloads, Payload
    <2>5. Merged(C \ {d}, T, D)
      BY <1>12 DEF Merged
    <2>6. InUse(k.regions, T, D)
      BY <1>13, <1>17, <2>3 DEF InUse
    <2>7. HeapOK(k, C \ {d}, T, D)
      BY <1>13, <2>3, <2>5, <2>6 DEF HeapOK
    <2>8. mm_free(h, b) = k
      BY <1>5, <1>19, <2>2
    <2>9. QED
      BY <1>3, <1>12, <2>4, <2>7, <2>8
  <1>20. CASE ~Alone(g, d)
    <2>1. \E c \in D : Lies(r, c, T[c])
      <3>1. d + T[d] \in C \/ \E c \in C : c + T[c] = d
        BY <1>12, <1>13, <1>16, <1>20, AloneIs
      <3>2. CASE d + T[d] \in C
        <4>1. PICK c \in C : c = d + T[d]
          BY <3>2
        <4>2. c \in D
          BY <1>12, <4>1 DEF Merged
        <4>3. Lies(r, c, T[c])
          BY <1>12, <1>16, <1>18, <4>1, SameRegion
        <4>4. QED
          BY <4>2, <4>3
      <3>3. ASSUME NEW c \in C, c + T[c] = d PROVE \E e \in D : Lies(r, e, T[e])
        <4>1. c \in D
          BY <1>12, <3>3 DEF Merged
        <4>2. Lies(r, c, T[c])
          BY <1>12, <1>16, <1>18, <3>3, SameRegion
        <4>3. QED
          BY <4>1, <4>2
      <3>4. QED
        BY <3>1, <3>2, <3>3
    <2>2. InUse(g.regions, T, D)
      BY <1>13, <1>17, <2>1 DEF InUse
    <2>3. HeapOK(g, C, T, D)
      BY <1>12, <1>13, <2>2 DEF HeapOK
    <2>4. mm_free(h, b) = g
      BY <1>5, <1>20
    <2>5. QED
      BY <1>3, <1>12, <1>14, <2>3, <2>4
  <1>21. QED
    BY <1>19, <1>20
=============================================================================
