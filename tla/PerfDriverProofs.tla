-------------------------- MODULE PerfDriverProofs --------------------------
(***************************************************************************)
(* The performance lab for images of any side that is a multiple of two    *)
(* blocks, any block size, any images and any contents of memory.          *)
(***************************************************************************)
EXTENDS PerfDriver, WellFoundedInduction, TLAPS

(* A non-empty set of naturals has a least element. *)
LEMMA LeastNat ==
  ASSUME NEW T \in SUBSET Nat, T # {}
  PROVE  \E n \in T : \A m \in T : n <= m
<1>1. PICK n \in T : \A m \in T : ~(<<m, n>> \in OpToRel(<, Nat))
  BY WFMin, NatLessThanWellFounded, Zenon
<1>2. \A m \in T : ~(m < n)
  BY <1>1 DEF OpToRel
<1> QED
  BY <1>2

-----------------------------------------------------------------------------
(* Rows, columns and blocks.                                               *)

LEMMA RowCol ==
  ASSUME NEW d \in Nat, NEW a \in Pixels(d)
  PROVE  Row(a, d) \in 0..(d - 1) /\ Col(a, d) \in 0..(d - 1)
<1> a \in Nat /\ a < d * d /\ d > 0
  BY DEF Pixels
<1>1. a % d \in 0..(d - 1)
  OBVIOUS
<1>2. a = d * (a \div d) + (a % d) /\ a \div d \in Int
  OBVIOUS
<1>3. a \div d >= 0
  BY <1>1, <1>2
<1>4. a \div d < d
  <2> SUFFICES ASSUME a \div d >= d PROVE FALSE
    BY <1>2
  <2> DEFINE q == a \div d
  <2>1. q \in Int /\ q >= d
    BY <1>2
  <2>2. d * q >= d * d
    <3> HIDE DEF q
    <3> QED BY <2>1
  <2> QED
    BY <2>2, <1>2, <1>1
<1> QED
  BY <1>1, <1>2, <1>3, <1>4 DEF Row, Col

(* Half of a side that is a multiple of two blocks is made of whole blocks *)
LEMMA WholeBlocks ==
  ASSUME NEW d \in Nat, d % (2 * TILE) = 0
  PROVE  /\ d = 2 * (d \div 2)
         /\ Tiles(d \div 2) = 0..(d \div 2 - 1)
<1>1. TILE \in Nat /\ TILE > 0
  BY TileAssumption
<1>2. PICK q \in Int : d = (2 * TILE) * q
  <2>1. d = (2 * TILE) * (d \div (2 * TILE)) + (d % (2 * TILE))
    BY <1>1
  <2>2. d \div (2 * TILE) \in Int
    BY <1>1
  <2>3. d = (2 * TILE) * (d \div (2 * TILE))
    BY <2>1, <2>2, <1>1
  <2> QED BY <2>2, <2>3
<1>3. TILE * q \in Int /\ d = 2 * (TILE * q)
  BY <1>1, <1>2
<1>4. d \div 2 = TILE * q
  BY <1>3
<1>5. (TILE * q + TILE - 1) \div TILE = q
  BY <1>1
<1>6. Tiles(TILE * q) = 0..(TILE * q - 1)
  BY <1>5, <1>1 DEF Tiles
<1> QED
  BY <1>3, <1>4, <1>6

(* The blocks of case 1 reach every pixel whose whole window is inside.    *)
LEMMA BlocksReach ==
  ASSUME NEW n \in Int, NEW i \in Nat, i < n
  PROVE  i \in Tiles(n)
<1>1. TILE \in Nat /\ TILE > 0
  BY TileAssumption
<1> DEFINE q == (n + TILE - 1) \div TILE
<1>2. q \in Int /\ n + TILE - 1 < TILE * q + TILE
  <2>1. (n + TILE - 1) = TILE * q + ((n + TILE - 1) % TILE) /\ (n + TILE - 1) % TILE < TILE /\ q \in Int
    BY <1>1
  <2> QED BY <2>1, <1>1
<1> HIDE DEF q
<1>3. q * TILE = TILE * q /\ TILE * q \in Int
  BY <1>1, <1>2
<1>4. n - 1 < TILE * q
  BY <1>1, <1>2, <1>3
<1>5. i \in 0..(q * TILE - 1)
  BY <1>3, <1>4
<1> QED
  BY <1>5 DEF Tiles, q

-----------------------------------------------------------------------------
(* The kernels.  What they read of memory is orig and tmp.                 *)

SameImages(m, n) == m.orig = n.orig /\ m.tmp = n.tmp

LEMMA ReadSame ==
  ASSUME NEW d, NEW m, NEW n, SameImages(m, n), NEW a
  PROVE  Read(d, m, a) = Read(d, n, a)
BY DEF Read, SameImages

LEMMA SumSame ==
  ASSUME NEW d, NEW m, NEW n, SameImages(m, n), NEW i, NEW j, NEW part
  PROVE  Sum(d, m, i, j, part) = Sum(d, n, i, j, part)
<1>1. \A w : Term(d, m, i, j, w) = Term(d, n, i, j, w)
  BY ReadSame, Zenon DEF Term
<1> QED
  BY <1>1 DEF Sum

LEMMA LatestIs ==
  ASSUME NEW S \in SUBSET (1..7), NEW n \in S, \A m \in S : m <= n
  PROVE  Latest(S) = n
<1>1. \E k \in S : \A m \in S : m <= k
  OBVIOUS
<1>2. Latest(S) \in S /\ \A m \in S : m <= Latest(S)
  BY <1>1, Zenon DEF Latest
<1>3. Latest(S) \in 1..7 /\ n \in 1..7 /\ Latest(S) <= n /\ n <= Latest(S)
  BY <1>2
<1> QED
  BY ONLY <1>3

(* The sum that motion stores last at a pixel is over the part of the      *)
(* window that is in the image.                                            *)
LEMMA LastStore ==
  ASSUME NEW d \in Nat, d >= 2, NEW i \in 0..(d - 1), NEW j \in 0..(d - 1)
  PROVE  \E n \in Storing(d, i, j) :
           /\ Latest(Storing(d, i, j)) = n
           /\ Store(d, n).part = {w \in Window : i + w[1] < d /\ j + w[2] < d}
<1> DEFINE inside == {w \in Window : i + w[1] < d /\ j + w[2] < d}
           S == Storing(d, i, j)
<1>1. /\ <<0,0>> \in inside
      /\ <<0,1>> \in inside <=> j < d - 1
      /\ <<1,0>> \in inside <=> i < d - 1
      /\ <<1,1>> \in inside <=> i < d - 1 /\ j < d - 1
      /\ <<1,2>> \in inside <=> i < d - 1 /\ j < d - 2
      /\ <<2,1>> \in inside <=> i < d - 2 /\ j < d - 1
      /\ <<2,2>> \in inside <=> i < d - 2 /\ j < d - 2
  BY DEF Window
<1>2. inside \subseteq Window
  OBVIOUS
<1>a. /\ S \in SUBSET (1..7)
      /\ 2 \in S <=> i = d - 1 /\ j = d - 1
      /\ 3 \in S <=> i < d - 1 /\ j = d - 1
      /\ 4 \in S <=> i = d - 1 /\ j < d - 1
      /\ 5 \in S <=> i < d - 2 /\ j = d - 2
      /\ 6 \in S <=> i = d - 2 /\ j < d - 2
      /\ 7 \in S <=> i = d - 2 /\ j = d - 2
  BY DEF Storing, Store
<1>b. i < d - 2 /\ j < d - 2 => 1 \in S
  <2> SUFFICES ASSUME i < d - 2, j < d - 2 PROVE 1 \in S
    OBVIOUS
  <2>1. i \in Tiles(d - 2) /\ j \in Tiles(d - 2)
    BY BlocksReach
  <2> QED BY <2>1 DEF Storing, Store
<1> HIDE DEF inside, S
<1> SUFFICES \E n \in S : (\A m \in S : m <= n) /\ Store(d, n).part = inside
  BY <1>a, LatestIs DEF S, inside
<1>3. CASE i = d - 2 /\ j = d - 2
  <2>1. inside = {<<0,0>>, <<0,1>>, <<1,0>>, <<1,1>>}
    BY <1>1, <1>2, <1>3 DEF Window
  <2>2. Store(d, 7).part = {<<0,0>>, <<0,1>>, <<1,0>>, <<1,1>>}
    BY DEF Store
  <2>3. 7 \in S /\ \A m \in S : m <= 7
    BY <1>a, <1>3
  <2> QED BY <2>1, <2>2, <2>3
<1>4. CASE i = d - 2 /\ j < d - 2
  <2>1. inside = {<<0,0>>, <<1,0>>, <<0,1>>, <<1,1>>, <<1,2>>}
    BY <1>1, <1>2, <1>4 DEF Window
  <2>2. Store(d, 6).part = {<<0,0>>, <<1,0>>, <<0,1>>, <<1,1>>, <<1,2>>}
    BY DEF Store
  <2>3. 6 \in S /\ \A m \in S : m <= 6
    BY <1>a, <1>4
  <2> QED BY <2>1, <2>2, <2>3
<1>5. CASE i < d - 2 /\ j = d - 2
  <2>1. inside = {<<0,0>>, <<1,0>>, <<0,1>>, <<1,1>>, <<2,1>>}
    BY <1>1, <1>2, <1>5 DEF Window
  <2>2. Store(d, 5).part = {<<0,0>>, <<1,0>>, <<0,1>>, <<1,1>>, <<2,1>>}
    BY DEF Store
  <2>3. 5 \in S /\ \A m \in S : m <= 5
    BY <1>a, <1>5
  <2> QED BY <2>1, <2>2, <2>3
<1>6. CASE i = d - 1 /\ j < d - 1
  <2>1. inside = {<<0,0>>, <<0,1>>}
    BY <1>1, <1>2, <1>6 DEF Window
  <2>2. Store(d, 4).part = {<<0,0>>, <<0,1>>}
    BY DEF Store
  <2>3. 4 \in S /\ \A m \in S : m <= 4
    BY <1>a, <1>6
  <2> QED BY <2>1, <2>2, <2>3
<1>7. CASE i < d - 1 /\ j = d - 1
  <2>1. inside = {<<0,0>>, <<1,0>>}
    BY <1>1, <1>2, <1>7 DEF Window
  <2>2. Store(d, 3).part = {<<0,0>>, <<1,0>>}
    BY DEF Store
  <2>3. 3 \in S /\ \A m \in S : m <= 3
    BY <1>a, <1>7
  <2> QED BY <2>1, <2>2, <2>3
<1>8. CASE i = d - 1 /\ j = d - 1
  <2>1. inside = {<<0,0>>}
    BY <1>1, <1>2, <1>8 DEF Window
  <2>2. Store(d, 2).part = {<<0,0>>}
    BY DEF Store
  <2>3. 2 \in S /\ \A m \in S : m <= 2
    BY <1>a, <1>8
  <2> QED BY <2>1, <2>2, <2>3
<1>9. CASE i < d - 2 /\ j < d - 2
  <2>1. inside = Window
    BY <1>1, <1>2, <1>9 DEF Window
  <2>2. Store(d, 1).part = Window
    BY DEF Store
  <2>3. 1 \in S /\ \A m \in S : m <= 1
    BY <1>a, <1>9, <1>b
  <2> QED BY <2>1, <2>2, <2>3
<1> QED
  BY <1>3, <1>4, <1>5, <1>6, <1>7, <1>8, <1>9

LEMMA MotionIsNaive ==
  ASSUME NEW d \in Nat, d % (2 * TILE) = 0, NEW m
  PROVE  motion(d, m) = naive_motion(d, m)
<1> DEFINE Tuned(a) ==
      IF Storing(d, Row(a, d), Col(a, d)) = {} THEN m.result[a]
      ELSE Sum(d, m, Row(a, d), Col(a, d), Store(d, Latest(Storing(d, Row(a, d), Col(a, d)))).part)
<1> DEFINE Naive(a) == weighted_combo(d, Row(a, d), Col(a, d), m)
<1>1. ASSUME NEW a \in Pixels(d) PROVE Tuned(a) = Naive(a)
  <2>1. Row(a, d) \in 0..(d - 1) /\ Col(a, d) \in 0..(d - 1)
    BY RowCol
  <2>2. d >= 2
    BY <2>1, WholeBlocks
  <2>3. PICK i \in 0..(d - 1), j \in 0..(d - 1) : i = Row(a, d) /\ j = Col(a, d)
    BY <2>1
  <2>4. PICK n \in Storing(d, i, j) :
          /\ Latest(Storing(d, i, j)) = n
          /\ Store(d, n).part = {w \in Window : i + w[1] < d /\ j + w[2] < d}
    BY LastStore, <2>2
  <2>5. Storing(d, i, j) # {}
    BY <2>4
  <2>6. Tuned(a) = Sum(d, m, i, j, Store(d, n).part)
    BY <2>3, <2>4, <2>5, Zenon
  <2>7. Naive(a) = Sum(d, m, i, j, {w \in Window : i + w[1] < d /\ j + w[2] < d})
    BY <2>3 DEF weighted_combo
  <2> QED
    BY ONLY <2>4, <2>6, <2>7
<1>2. motion(d, m) = [a \in Pixels(d) |-> Tuned(a)]
  BY DEF motion
<1>3. naive_motion(d, m) = [a \in Pixels(d) |-> Naive(a)]
  BY DEF naive_motion
<1> HIDE DEF Tuned, Naive
<1> QED
  BY ONLY <1>1, <1>2, <1>3

LEMMA MotionSame ==
  ASSUME NEW d, NEW m, NEW n, SameImages(m, n)
  PROVE  naive_motion(d, m) = naive_motion(d, n)
<1>1. \A i, j : weighted_combo(d, i, j, m) = weighted_combo(d, i, j, n)
  BY SumSame DEF weighted_combo
<1> QED
  BY <1>1 DEF naive_motion

LEMMA PinwheelIsNaive ==
  ASSUME NEW d \in Nat, d % (2 * TILE) = 0, NEW m
  PROVE  pinwheel(d, m) = naive_pinwheel(d, m)
BY WholeBlocks DEF pinwheel, naive_pinwheel

(* The loops of naive_pinwheel store every pixel of result.                *)
LEMMA PinwheelSame ==
  ASSUME NEW d \in Nat, d % (2 * TILE) = 0, NEW m, NEW n, SameImages(m, n)
  PROVE  naive_pinwheel(d, m) = naive_pinwheel(d, n)
<1> DEFINE semi == d \div 2
           top(a) == IF Row(a, d) < semi THEN 0 ELSE semi
           left(a) == IF Col(a, d) < semi THEN 0 ELSE semi
           i(a) == Col(a, d) - left(a)
           j(a) == top(a) + semi - 1 - Row(a, d)
           Dest(x, a) == IF i(a) \in 0..(semi - 1) /\ j(a) \in 0..(semi - 1)
                         THEN Read(d, x, RIDX(top(a) + i(a), left(a) + j(a), d)) ELSE x.result[a]
<1>1. ASSUME NEW a \in Pixels(d) PROVE i(a) \in 0..(semi - 1) /\ j(a) \in 0..(semi - 1)
  <2>1. PICK r \in 0..(d - 1), c \in 0..(d - 1) : r = Row(a, d) /\ c = Col(a, d)
    BY RowCol
  <2>2. d = 2 * semi /\ semi \in Int
    BY WholeBlocks
  <2> HIDE DEF semi
  <2>3. i(a) \in 0..(semi - 1)
    BY <2>1, <2>2
  <2>4. j(a) \in 0..(semi - 1)
    BY <2>1, <2>2
  <2> QED
    BY <2>3, <2>4
<1>2. ASSUME NEW a \in Pixels(d) PROVE Dest(m, a) = Dest(n, a)
  <2> HIDE DEF i, j, top, left, semi
  <2>1. Read(d, m, RIDX(top(a) + i(a), left(a) + j(a), d)) = Read(d, n, RIDX(top(a) + i(a), left(a) + j(a), d))
    BY ReadSame
  <2> QED
    BY <2>1, <1>1
<1>3. /\ naive_pinwheel(d, m) = [a \in Pixels(d) |-> Dest(m, a)]
      /\ naive_pinwheel(d, n) = [a \in Pixels(d) |-> Dest(n, a)]
  BY Zenon DEF naive_pinwheel, Turned
<1> HIDE DEF Dest
<1> QED
  BY ONLY <1>2, <1>3

-----------------------------------------------------------------------------
(* The invariant of the driver.                                            *)

Testing == {"create_odd", "run_odd", "check_odd", "create", "run", "check",
            "measure", "sampling", "score"}

Benchs(k) == [funct : {Registered(k)[1], Registered(k)[2]}, description : Descriptions(k),
              valid : BOOLEAN, cpes : Seq(Int)]

Types ==
  /\ pc \in {"options", "next", "done", "exit", "crashed"} \cup Testing
  /\ DOMAIN benchmarks = Kinds /\ \A k \in Kinds : benchmarks[k] \in Seq(Benchs(k))
  /\ kind \in Kinds /\ idx \in Nat \ {0} /\ test_num \in Nat \ {0}
  /\ pc = "options" => kind = "pinwheel" /\ idx = 1
  /\ pc = "done" => kind = "motion" /\ idx > Len(benchmarks[kind])
  /\ pc \in Testing => /\ idx <= Len(benchmarks[kind]) /\ Bench.valid
                       /\ test_num <= Len(test_dim[kind])

(* The image the check expects in result. *)
Expected == IF kind = "pinwheel" THEN naive_pinwheel(dim, mem) ELSE naive_motion(dim, mem)

(* Between create and the check the data is an image and its copy, on a    *)
(* side of whole blocks; after the run result is what the check computes.  *)
ImageInv ==
  /\ pc \in {"run_odd", "run", "check_odd", "check"} =>
       /\ dim \in Nat /\ dim % (2 * TILE) = 0
       /\ mem = [orig |-> mem.orig, tmp |-> mem.tmp, result |-> mem.result,
                 copy_of_orig |-> mem.orig]
  /\ pc \in {"check_odd", "check"} => mem.result = Expected

(* The first n of the values vs are the smallest of the samples ss, and    *)
(* from says which.                                                        *)
KeptBy(from, n, vs, ss) ==
  /\ from \in [1..n -> DOMAIN ss]
  /\ \A a, b \in 1..n : a < b => from[a] # from[b] /\ vs[a] <= vs[b]
  /\ \A a \in 1..n : vs[a] = ss[from[a]]
  /\ \A m \in DOMAIN ss : (\A a \in 1..n : from[a] # m) => vs[n] <= ss[m]

Covers(from, n, ss) == \A m \in DOMAIN ss : \E a \in 1..n : from[a] = m

(* The sampler keeps the smallest of the samples it has counted: all of    *)
(* them while there is room.                                               *)
SamplerInv ==
  /\ values \in [1..kbest -> Int] /\ samples \in Seq(Int)
  /\ samplecount \in Nat /\ samplecount = Len(samples)
  /\ \E from : /\ KeptBy(from, IF samplecount < kbest THEN samplecount ELSE kbest, values, samples)
               /\ samplecount < kbest => Covers(from, samplecount, samples)

(* The benchmarks of a kind that have their score. *)
Scored(k) ==
  {n \in DOMAIN benchmarks[k] :
     benchmarks[k][n].valid /\ (k = kind => n < idx) /\ (k = "motion" => kind = "motion")}

Cycles(k, n) == Product(benchmarks[k][n].cpes)

(* The best score of a kind is that of the fastest of the benchmarks ns.   *)
Fastest(k, ns) ==
  IF ns = {} THEN best[k] = NoBest
  ELSE \E n \in ns : /\ best[k] = [cycles |-> Cycles(k, n), desc |-> benchmarks[k][n].description]
                     /\ \A m \in ns : Cycles(k, n) <= Cycles(k, m)

BestInv == DOMAIN best = Kinds /\ \A k \in Kinds : Fastest(k, Scored(k))

PerfInv == Types /\ ImageInv /\ SamplerInv /\ BestInv

-----------------------------------------------------------------------------
(* The insertion sort of add_sample.                                       *)

(* The value at pos sinks to m: the values before m stay, those from m up  *)
(* to pos move up by one.                                                  *)
Moved(vs, m, pos) ==
  [i \in 1..kbest |-> IF i < m \/ i > pos THEN vs[i] ELSE IF i = m THEN vs[pos] ELSE vs[i - 1]]

(* Where the value at pos is once the loop has come down to p.             *)
Place(vs, p, pos, m) ==
  /\ m \in p..pos
  /\ \A i \in m..(pos - 1) : vs[i] > vs[pos]
  /\ m > p => vs[m - 1] <= vs[pos]

Ascending(vs, n) == \A a, b \in 1..n : a < b => vs[a] <= vs[b]

LEMMA PlaceUnique ==
  ASSUME NEW pos \in 1..kbest, NEW vs \in [1..kbest -> Int], NEW p \in 1..pos,
         NEW m, NEW n, Place(vs, p, pos, m), Place(vs, p, pos, n)
  PROVE  m = n
<1> kbest \in Nat
  BY FcycAssumption
<1>1. m \in Int /\ n \in Int /\ m >= p /\ n >= p /\ m <= pos /\ n <= pos
  BY DEF Place
<1>2. ~(m < n)
  <2> SUFFICES ASSUME m < n PROVE FALSE
    OBVIOUS
  <2>1. n - 1 \in m..(pos - 1) /\ n - 1 \in 1..kbest /\ n > p
    BY <1>1
  <2> QED BY <2>1 DEF Place
<1>3. ~(n < m)
  <2> SUFFICES ASSUME n < m PROVE FALSE
    OBVIOUS
  <2>1. m - 1 \in n..(pos - 1) /\ m - 1 \in 1..kbest /\ m > p
    BY <1>1
  <2> QED BY <2>1 DEF Place
<1> QED
  BY <1>1, <1>2, <1>3

(* One turn of the loop.                                                   *)
LEMMA SinkStep ==
  ASSUME NEW pos \in 1..kbest, NEW vs \in [1..kbest -> Int], Ascending(vs, pos - 1),
         NEW p \in 1..(pos - 1), NEW m, Place(vs, p + 1, pos, m)
  PROVE  LET v == Moved(vs, m, pos)
         IN  \E n : /\ Place(vs, p, pos, n)
                    /\ (IF v[p] > v[p + 1] THEN Swap(v, p + 1) ELSE v) = Moved(vs, n, pos)
<1> kbest \in Nat
  BY FcycAssumption
<1> DEFINE v == Moved(vs, m, pos)
<1>1. m \in Int /\ m >= p + 1 /\ m <= pos
  BY DEF Place
<1>2. p \in 1..kbest /\ p + 1 \in 1..kbest
  OBVIOUS
<1>3. v[p] = vs[p]
  BY <1>1, <1>2 DEF Moved
<1>4. CASE m = p + 1 /\ vs[p] > vs[pos]
  <2>1. v[p + 1] = vs[pos]
    BY <1>2, <1>4 DEF Moved
  <2>2. Place(vs, p, pos, p)
    BY <1>4 DEF Place
  <2>3. v \in [1..kbest -> Int]
    BY <1>1 DEF Moved
  <2>4. Swap(v, p + 1) = [v EXCEPT ![p + 1] = v[p], ![p] = v[p + 1]]
    <3>1. (p + 1) - 1 = p
      OBVIOUS
    <3> HIDE DEF v
    <3> QED BY <3>1, Zenon DEF Swap
  <2>5. \A i \in 1..kbest : Swap(v, p + 1)[i] = Moved(vs, p, pos)[i]
    <3> SUFFICES ASSUME NEW i \in 1..kbest PROVE Swap(v, p + 1)[i] = Moved(vs, p, pos)[i]
      OBVIOUS
    <3>1. Swap(v, p + 1)[i] = IF i = p THEN vs[pos] ELSE IF i = p + 1 THEN vs[p] ELSE v[i]
      <4> HIDE DEF v
      <4> QED BY <2>1, <2>3, <2>4, <1>2, <1>3
    <3>2. i # p /\ i # p + 1 => v[i] = IF i < p \/ i > pos THEN vs[i] ELSE vs[i - 1]
      BY <1>4 DEF Moved
    <3> QED
      BY <3>1, <3>2, <1>2, SMTT(30) DEF Moved
  <2>6. Swap(v, p + 1) = Moved(vs, p, pos)
    <3>1. Swap(v, p + 1) \in [1..kbest -> Int]
      <4> HIDE DEF v
      <4> QED BY <2>3, <2>4, <1>2
    <3>2. Moved(vs, p, pos) \in [1..kbest -> Int]
      BY <1>2 DEF Moved
    <3> DEFINE f == Swap(v, p + 1)
               g == Moved(vs, p, pos)
    <3>3. f \in [1..kbest -> Int] /\ g \in [1..kbest -> Int] /\ \A i \in 1..kbest : f[i] = g[i]
      BY <2>5, <3>1, <3>2
    <3> HIDE DEF f, g
    <3>4. f = g
      BY ONLY <3>3, kbest \in Nat
    <3> QED BY <3>4 DEF f, g
  <2> QED
    BY <2>1, <2>2, <2>6, <1>3, <1>4
<1>5. CASE m = p + 1 /\ ~(vs[p] > vs[pos])
  <2>1. v[p + 1] = vs[pos]
    BY <1>2, <1>5 DEF Moved
  <2>2. Place(vs, p, pos, p + 1)
    BY <1>5, <1>2 DEF Place
  <2> QED
    BY <2>1, <2>2, <1>3, <1>5
<1>6. CASE m # p + 1
  <2>1. v[p + 1] = vs[p + 1]
    BY <1>1, <1>2, <1>6 DEF Moved
  <2>2. vs[p] <= vs[p + 1]
    BY <1>1, <1>6 DEF Ascending
  <2>3. Place(vs, p, pos, m)
    BY <1>1, <1>6 DEF Place
  <2>4. ~(v[p] > v[p + 1])
    BY <2>1, <2>2, <1>2, <1>3
  <2> QED
    BY <2>3, <2>4
<1> QED
  BY <1>4, <1>5, <1>6

LEMMA PlaceExists ==
  ASSUME NEW pos \in 1..kbest, NEW vs \in [1..kbest -> Int], NEW p \in 1..pos
  PROVE  \E m : Place(vs, p, pos, m)
<1> kbest \in Nat
  BY FcycAssumption
<1> DEFINE T == {m \in p..pos : \A i \in m..(pos - 1) : vs[i] > vs[pos]}
<1>1. T \in SUBSET Nat /\ pos \in T
  OBVIOUS
<1>2. PICK m \in T : \A n \in T : m <= n
  <2> HIDE DEF T
  <2> QED BY <1>1, LeastNat
<1>3. m > p => vs[m - 1] <= vs[pos]
  <2> SUFFICES ASSUME m > p, vs[m - 1] > vs[pos] PROVE FALSE
    OBVIOUS
  <2>1. m - 1 \in p..pos
    OBVIOUS
  <2>2. \A i \in (m - 1)..(pos - 1) : i = m - 1 \/ i \in m..(pos - 1)
    OBVIOUS
  <2>3. m - 1 \in T
    BY <2>1, <2>2
  <2>4. m <= m - 1 /\ m \in Nat
    <3> HIDE DEF T
    <3> QED BY <2>3, <1>1, <1>2
  <2> QED BY <2>4
<1> QED
  BY <1>3 DEF Place

(* The loop's recursion and the place the value sinks to.                  *)
SinkRec(vs, pos, f) ==
  f = [p \in 1..pos |-> IF p = pos THEN vs
                        ELSE LET v == f[p + 1]
                             IN  IF v[p] > v[p + 1] THEN Swap(v, p + 1) ELSE v]

LEMMA SinkRecExists ==
  ASSUME NEW pos \in 1..kbest, NEW vs \in [1..kbest -> Int], Ascending(vs, pos - 1)
  PROVE  \E f : SinkRec(vs, pos, f)
<1> kbest \in Nat
  BY FcycAssumption
<1> DEFINE M(p) == CHOOSE m : Place(vs, p, pos, m)
           f == [p \in 1..pos |-> Moved(vs, M(p), pos)]
           step(v, p) == IF v[p] > v[p + 1] THEN Swap(v, p + 1) ELSE v
<1>1. \A p \in 1..pos : Place(vs, p, pos, M(p))
  BY PlaceExists, Zenon
<1> HIDE DEF M
<1>2. \A p \in 1..pos : f[p] = Moved(vs, M(p), pos)
  OBVIOUS
<1>3. f[pos] = vs
  <2>1. M(pos) = pos
    BY <1>1 DEF Place
  <2>2. Moved(vs, pos, pos) = vs
    BY DEF Moved
  <2> QED BY <1>2, <2>1, <2>2
<1>4. ASSUME NEW p \in 1..pos, p # pos PROVE f[p] = step(f[p + 1], p)
  <2>1. p \in 1..(pos - 1) /\ p + 1 \in 1..pos
    BY <1>4
  <2>2. Place(vs, p + 1, pos, M(p + 1)) /\ f[p + 1] = Moved(vs, M(p + 1), pos)
    BY <1>1, <1>2, <2>1
  <2>3. PICK n : Place(vs, p, pos, n) /\ step(Moved(vs, M(p + 1), pos), p) = Moved(vs, n, pos)
    BY <2>1, <2>2, SinkStep
  <2>4. n = M(p)
    BY <1>1, <2>3, PlaceUnique
  <2> HIDE DEF f, step
  <2> QED BY <2>2, <2>3, <2>4, <1>2
<1>5. f = [p \in 1..pos |-> IF p = pos THEN vs ELSE step(f[p + 1], p)]
  <2>1. \A p \in 1..pos : f[p] = IF p = pos THEN vs ELSE step(f[p + 1], p)
    BY <1>3, <1>4
  <2>2. f = [p \in 1..pos |-> f[p]]
    OBVIOUS
  <2> HIDE DEF f, step
  <2> QED BY <2>1, <2>2
<1>6. SinkRec(vs, pos, f)
  <2> HIDE DEF f
  <2> QED BY <1>5 DEF SinkRec
<1> QED
  BY <1>6

LEMMA SinkIsMoved ==
  ASSUME NEW pos \in 1..kbest, NEW vs \in [1..kbest -> Int], Ascending(vs, pos - 1)
  PROVE  \E m : Place(vs, 1, pos, m) /\ Sink(vs, pos) = Moved(vs, m, pos)
<1> kbest \in Nat
  BY FcycAssumption
<1>1. PICK f : SinkRec(vs, pos, f) /\ Sink(vs, pos) = f[1]
  <2> DEFINE f == CHOOSE f : SinkRec(vs, pos, f)
  <2>1. SinkRec(vs, pos, f)
    BY SinkRecExists, Zenon
  <2>2. Sink(vs, pos) = f[1]
    BY Zenon DEF Sink, SinkRec
  <2> QED BY <2>1, <2>2
<1> DEFINE step(v, p) == IF v[p] > v[p + 1] THEN Swap(v, p + 1) ELSE v
<1>2. f[pos] = vs /\ \A p \in 1..pos : p # pos => f[p] = step(f[p + 1], p)
  <2>1. f = [p \in 1..pos |-> IF p = pos THEN vs ELSE step(f[p + 1], p)]
    BY <1>1 DEF SinkRec
  <2> HIDE DEF step
  <2> DEFINE body(p) == IF p = pos THEN vs ELSE step(f[p + 1], p)
  <2>2. f = [p \in 1..pos |-> body(p)]
    BY <2>1
  <2> HIDE DEF body
  <2>3. \A p \in 1..pos : f[p] = body(p)
    BY <2>2
  <2>4. pos \in 1..pos
    OBVIOUS
  <2> QED BY <2>3, <2>4, Zenon DEF body
<1> DEFINE Good(p) == \E m : Place(vs, p, pos, m) /\ f[p] = Moved(vs, m, pos)
<1>3. Good(pos)
  <2>1. Place(vs, pos, pos, pos)
    BY DEF Place
  <2>2. Moved(vs, pos, pos) = vs
    BY DEF Moved
  <2> QED BY <1>2, <2>1, <2>2
<1>4. ASSUME NEW p \in 1..pos, p # pos, Good(p + 1) PROVE Good(p)
  <2>1. PICK m : Place(vs, p + 1, pos, m) /\ f[p + 1] = Moved(vs, m, pos)
    BY <1>4
  <2>2. p \in 1..(pos - 1)
    BY <1>4
  <2>3. PICK n : Place(vs, p, pos, n) /\ step(Moved(vs, m, pos), p) = Moved(vs, n, pos)
    BY <2>1, <2>2, SinkStep
  <2>4. f[p] = step(f[p + 1], p)
    BY <1>2, <1>4
  <2> HIDE DEF step
  <2> QED BY <2>1, <2>3, <2>4
<1> DEFINE T == {n \in 0..(pos - 1) : ~Good(pos - n)}
<1> HIDE DEF Good
<1>5. T = {}
  <2> SUFFICES ASSUME T # {} PROVE FALSE
    OBVIOUS
  <2>1. PICK n \in T : \A x \in T : n <= x
    <3>1. T \in SUBSET Nat
      OBVIOUS
    <3> HIDE DEF T
    <3> QED BY <3>1, LeastNat
  <2>2. n # 0
    BY <1>3
  <2>3. n - 1 \notin T /\ n - 1 \in 0..(pos - 1)
    BY <2>1, <2>2, SMTT(30)
  <2>4. Good((pos - n) + 1)
    <3>1. (pos - n) + 1 = pos - (n - 1)
      OBVIOUS
    <3>2. Good(pos - (n - 1))
      BY <2>3
    <3> QED BY <3>1, <3>2
  <2>5. Good(pos - n)
    <3>1. pos - n \in 1..pos /\ pos - n # pos
      BY <2>2
    <3> QED BY <3>1, <2>4, <1>4
  <2> QED BY <2>5
<1>6. Good(1)
  <2>1. pos - 1 \in 0..(pos - 1) /\ pos - (pos - 1) = 1
    OBVIOUS
  <2> QED BY <2>1, <1>5
<1> QED
  BY <1>1, <1>6 DEF Good

(* A value that has sunk to its place: the values are those of the samples *)
(* before, with the new sample among them.                                 *)
LEMMA InsertKeeps ==
  ASSUME NEW pos \in 1..kbest, NEW old \in [1..kbest -> Int], NEW ss \in Seq(Int),
         NEW val \in Int, NEW q \in {pos - 1, pos}, NEW from, KeptBy(from, q, old, ss),
         q = pos - 1 => Covers(from, q, ss),
         q = pos => val < old[pos],
         NEW m, Place([old EXCEPT ![pos] = val], 1, pos, m)
  PROVE  \E to : /\ KeptBy(to, pos, Moved([old EXCEPT ![pos] = val], m, pos), Append(ss, val))
                 /\ q = pos - 1 => Covers(to, pos, Append(ss, val))
<1> kbest \in Nat
  BY FcycAssumption
<1> q \in Nat /\ q <= pos /\ pos \in Nat /\ pos <= kbest
  OBVIOUS
<1> \A a \in 1..pos : a \in 1..kbest /\ old[a] \in Int
  OBVIOUS
<1> DEFINE vs == [old EXCEPT ![pos] = val]
           new == Moved(vs, m, pos)
           tt == Append(ss, val)
           to == [a \in 1..pos |-> IF a < m THEN from[a]
                                   ELSE IF a = m THEN Len(ss) + 1 ELSE from[a - 1]]
<1>1. m \in 1..pos /\ (\A i \in m..(pos - 1) : vs[i] > vs[pos]) /\ (m > 1 => vs[m - 1] <= vs[pos])
  BY DEF Place
<1>2. vs[pos] = val /\ \A i \in 1..kbest : i # pos => vs[i] = old[i]
  OBVIOUS
<1>3. /\ from \in [1..q -> 1..Len(ss)]
      /\ \A a, b \in 1..q : a < b => from[a] # from[b] /\ old[a] <= old[b]
      /\ \A a \in 1..q : old[a] = ss[from[a]]
      /\ \A x \in 1..Len(ss) : (\A a \in 1..q : from[a] # x) => old[q] <= ss[x]
  <2>1. DOMAIN ss = 1..Len(ss)
    OBVIOUS
  <2> QED BY ONLY <2>1, KeptBy(from, q, old, ss) DEF KeptBy
<1>4. /\ DOMAIN tt = 1..(Len(ss) + 1) /\ tt[Len(ss) + 1] = val /\ Len(ss) \in Nat
      /\ \A x \in 1..Len(ss) : tt[x] = ss[x]
  OBVIOUS
<1> HIDE DEF vs, tt
<1>5. \A a \in 1..pos : /\ a < m => new[a] = old[a] /\ to[a] = from[a] /\ a \in 1..q
                        /\ a = m => new[a] = val /\ to[a] = Len(ss) + 1
                        /\ a > m => new[a] = old[a - 1] /\ to[a] = from[a - 1] /\ a - 1 \in 1..q
  BY <1>1, <1>2, SMTT(30) DEF Moved
<1>6. \A a \in 1..pos : /\ a < m => old[a] <= val
                        /\ a > m => val <= old[a - 1]
  <2> SUFFICES ASSUME NEW a \in 1..pos
               PROVE  (a < m => old[a] <= val) /\ (a > m => val <= old[a - 1])
    OBVIOUS
  <2>1. CASE a < m
    <3>1. m > 1 /\ vs[m - 1] <= val /\ vs[m - 1] = old[m - 1] /\ m - 1 \in 1..q /\ a \in 1..q
      BY <1>1, <1>2, <2>1, SMTT(30)
    <3>2. a < m - 1 => old[a] <= old[m - 1]
      BY <1>3, <3>1
    <3>3. old[m - 1] <= val /\ old[m - 1] \in Int /\ old[a] \in Int
      BY <3>1
    <3>4. a = m - 1 \/ a < m - 1
      BY <2>1, <1>1
    <3>5. old[a] <= val
      <4>1. CASE a = m - 1
        BY ONLY <4>1, <3>3
      <4>2. CASE a < m - 1
        <5>1. old[a] <= old[m - 1]
          BY <4>2, <3>2
        <5> QED BY ONLY <5>1, <3>3, val \in Int
      <4> QED BY <4>1, <4>2, <3>4
    <3>6. ~(a > m)
      BY <2>1, <1>1
    <3> QED BY <3>5, <3>6
  <2>2. CASE a > m
    <3>1. a - 1 \in m..(pos - 1) /\ a - 1 \in 1..kbest /\ a - 1 # pos
      BY <2>2, <1>1
    <3>2. vs[a - 1] > val
      BY <3>1, <1>1, <1>2
    <3>3. vs[a - 1] = old[a - 1]
      BY <3>1, <1>2
    <3>4. old[a - 1] \in Int
      BY <3>1
    <3>5. val <= old[a - 1] /\ ~(a < m)
      BY <3>2, <3>3, <3>4, <2>2, <1>1
    <3> QED BY <3>5
  <2> QED BY <2>1, <2>2, <1>1
<1> HIDE DEF new, to
<1>7. to \in [1..pos -> DOMAIN tt]
  <2>1. \A a \in 1..pos : to[a] \in 1..(Len(ss) + 1)
    <3> SUFFICES ASSUME NEW a \in 1..pos PROVE to[a] \in 1..(Len(ss) + 1)
      OBVIOUS
    <3>1. CASE a = m BY <3>1, <1>5, <1>4
    <3>2. CASE a < m
      <4>1. to[a] = from[a] /\ a \in 1..q
        BY <3>2, <1>5
      <4>2. from[a] \in 1..Len(ss)
        BY <4>1, <1>3
      <4> QED BY <4>1, <4>2, <1>4
    <3>3. CASE a > m
      <4>1. to[a] = from[a - 1] /\ a - 1 \in 1..q
        BY <3>3, <1>5
      <4>2. from[a - 1] \in 1..Len(ss)
        BY <4>1, <1>3
      <4> QED BY <4>1, <4>2, <1>4
    <3> QED BY <3>1, <3>2, <3>3, <1>1
  <2>2. to = [a \in 1..pos |-> to[a]]
    BY DEF to
  <2> QED BY <2>1, <2>2, <1>4
<1>8. \A a, b \in 1..pos : a < b => to[a] # to[b] /\ new[a] <= new[b]
  <2> SUFFICES ASSUME NEW a \in 1..pos, NEW b \in 1..pos, a < b
               PROVE  to[a] # to[b] /\ new[a] <= new[b]
    OBVIOUS
  <2>1. CASE b < m
    <3>1. a < m /\ a \in 1..q /\ b \in 1..q
      BY <2>1, <1>1, <1>5
    <3>2. new[a] = old[a] /\ to[a] = from[a] /\ new[b] = old[b] /\ to[b] = from[b]
      BY <3>1, <2>1, <1>5
    <3> QED BY <3>1, <3>2, <1>3
  <2>2. CASE b = m
    <3>1. new[a] = old[a] /\ to[a] = from[a] /\ a \in 1..q /\ new[b] = val /\ to[b] = Len(ss) + 1
      BY <2>2, <1>5
    <3>2. old[a] <= val
      BY <2>2, <1>6
    <3>3. from[a] \in 1..Len(ss)
      BY <3>1, <1>3
    <3> QED BY <3>1, <3>2, <3>3, <1>4
  <2>3. CASE a < m /\ b > m
    <3>1. /\ new[a] = old[a] /\ to[a] = from[a] /\ a \in 1..q
          /\ new[b] = old[b - 1] /\ to[b] = from[b - 1] /\ b - 1 \in 1..q
      BY <2>3, <1>5
    <3>2. a < b - 1
      BY <2>3, <1>1
    <3> QED BY <3>1, <3>2, <1>3
  <2>4. CASE a = m
    <3>1. /\ new[a] = val /\ to[a] = Len(ss) + 1
          /\ new[b] = old[b - 1] /\ to[b] = from[b - 1] /\ b - 1 \in 1..q
      BY <2>4, <1>5
    <3>2. val <= old[b - 1]
      BY <2>4, <1>6
    <3>3. from[b - 1] \in 1..Len(ss)
      BY <3>1, <1>3
    <3> QED BY <3>1, <3>2, <3>3, <1>4
  <2>5. CASE a > m
    <3>1. a > m /\ b > m /\ a - 1 < b - 1
      BY <2>5, <1>1
    <3>2. /\ new[a] = old[a - 1] /\ to[a] = from[a - 1] /\ a - 1 \in 1..q
          /\ new[b] = old[b - 1] /\ to[b] = from[b - 1] /\ b - 1 \in 1..q
      BY <3>1, <1>5
    <3> QED BY <3>1, <3>2, <1>3
  <2> QED BY <2>1, <2>2, <2>3, <2>4, <2>5, <1>1
<1>9. \A a \in 1..pos : new[a] = tt[to[a]]
  <2> SUFFICES ASSUME NEW a \in 1..pos PROVE new[a] = tt[to[a]]
    OBVIOUS
  <2>1. CASE a < m
    <3>1. new[a] = old[a] /\ to[a] = from[a] /\ a \in 1..q
      BY <2>1, <1>5
    <3>2. from[a] \in 1..Len(ss) /\ old[a] = ss[from[a]]
      BY <3>1, <1>3
    <3> QED BY <3>1, <3>2, <1>4
  <2>2. CASE a = m
    BY <2>2, <1>4, <1>5
  <2>3. CASE a > m
    <3>1. new[a] = old[a - 1] /\ to[a] = from[a - 1] /\ a - 1 \in 1..q
      BY <2>3, <1>5
    <3>2. from[a - 1] \in 1..Len(ss) /\ old[a - 1] = ss[from[a - 1]]
      BY <3>1, <1>3
    <3> QED BY <3>1, <3>2, <1>4
  <2> QED BY <2>1, <2>2, <2>3, <1>1

<1>10. ASSUME NEW a \in 1..q, a # pos PROVE \E b \in 1..pos : to[b] = from[a]
  <2>1. CASE a < m
    BY <2>1, <1>1, <1>5
  <2>2. CASE a >= m
    <3>1. a + 1 \in 1..pos /\ a + 1 > m /\ (a + 1) - 1 = a
      BY <2>2, <1>1, <1>10
    <3>2. to[a + 1] = from[a]
      BY <1>5, <3>1
    <3> QED BY <3>1, <3>2
  <2> QED BY <2>1, <2>2, <1>1
<1>11. q = pos => new[pos] <= old[pos]
  <2> SUFFICES ASSUME q = pos PROVE new[pos] <= old[pos]
    OBVIOUS
  <2>1. CASE m = pos
    BY <2>1, <1>5
  <2>2. CASE m < pos
    <3>1. new[pos] = old[pos - 1] /\ pos - 1 \in 1..q
      BY <2>2, <1>5, <1>1
    <3> QED BY <3>1, <1>3
  <2> QED BY <2>1, <2>2, <1>1
<1>12. \A x \in DOMAIN tt : (\A a \in 1..pos : to[a] # x) => new[pos] <= tt[x]
  <2> SUFFICES ASSUME NEW x \in 1..(Len(ss) + 1), \A a \in 1..pos : to[a] # x
               PROVE  new[pos] <= tt[x]
    BY <1>4
  <2>1. x # Len(ss) + 1
    BY <1>1, <1>5
  <2>2. x \in 1..Len(ss) /\ tt[x] = ss[x] /\ ss[x] \in Int
    BY <2>1, <1>4
  <2>3. CASE \E a \in 1..q : from[a] = x
    <3>1. PICK a \in 1..q : from[a] = x
      BY <2>3
    <3>2. a = pos
      BY <3>1, <1>10
    <3>3. q = pos /\ ss[x] = old[pos]
      BY <3>1, <3>2, <1>3
    <3> QED BY <3>3, <1>11, <2>2
  <2>4. CASE \A a \in 1..q : from[a] # x
    <3>1. q # pos - 1
      <4>1. x \in DOMAIN ss
        BY <2>2, <1>4
      <4> QED BY <4>1, <2>4 DEF Covers
    <3>2. old[pos] <= ss[x] /\ q = pos
      BY <2>4, <2>2, <1>3, <3>1
    <3>3. new[pos] <= old[pos] /\ new[pos] \in Int /\ old[pos] \in Int
      <4>1. \A a \in 1..pos : old[a] \in Int /\ (a > 1 => old[a - 1] \in Int)
        OBVIOUS
      <4> QED BY <4>1, <1>1, <1>5, <1>11, <3>2
    <3> QED BY <3>2, <3>3, <2>2
  <2> QED BY <2>3, <2>4
<1>13. q = pos - 1 => Covers(to, pos, tt)
  <2> SUFFICES ASSUME q = pos - 1, NEW x \in 1..(Len(ss) + 1) PROVE \E b \in 1..pos : to[b] = x
    BY <1>4 DEF Covers
  <2>1. CASE x = Len(ss) + 1
    BY <2>1, <1>1, <1>5
  <2>2. CASE x # Len(ss) + 1
    <3>1. x \in DOMAIN ss
      BY <2>2, <1>4
    <3>2. PICK a \in 1..q : from[a] = x
      BY <3>1 DEF Covers
    <3>3. a # pos
      OBVIOUS
    <3> QED BY <3>2, <3>3, <1>10
  <2> QED BY <2>1, <2>2
<1>14. KeptBy(to, pos, new, tt)
  BY <1>7, <1>8, <1>9, <1>12 DEF KeptBy
<1> QED
  BY <1>13, <1>14 DEF new, vs, tt

Room == IF samplecount < kbest THEN samplecount ELSE kbest

LEMMA AddSampleStep ==
  ASSUME SamplerInv, NEW val \in Int, add_sample(val)
  PROVE  SamplerInv'
<1> kbest \in Nat /\ kbest >= 1
  BY FcycAssumption
<1> values \in [1..kbest -> Int] /\ samples \in Seq(Int) /\ samplecount \in Nat /\ samplecount = Len(samples)
  BY DEF SamplerInv
<1>1. PICK from : KeptBy(from, Room, values, samples) /\ (samplecount < kbest => Covers(from, samplecount, samples))
  BY DEF SamplerInv, Room
<1>2. samplecount' = samplecount + 1 /\ samples' = Append(samples, val) /\ samples' \in Seq(Int)
      /\ samplecount' = Len(samples') /\ samplecount' \in Nat
  BY DEF add_sample
<1>3. ASSUME NEW pos \in 1..kbest, NEW q \in {pos - 1, pos}, q = Room, Room' = pos,
             q = pos - 1 <=> samplecount < kbest, q = pos => val < values[pos],
             values' = Sink([values EXCEPT ![pos] = val], pos)
      PROVE  SamplerInv'
  <2> DEFINE vs == [values EXCEPT ![pos] = val]
  <2>1. vs \in [1..kbest -> Int] /\ \A i \in 1..kbest : i # pos => vs[i] = values[i]
    OBVIOUS
  <2>2. Ascending(vs, pos - 1)
    <3>1. \A a, b \in 1..q : a < b => values[a] <= values[b]
      BY <1>1, <1>3 DEF KeptBy
    <3>2. \A a \in 1..(pos - 1) : a \in 1..q /\ a \in 1..kbest /\ a # pos
      OBVIOUS
    <3> HIDE DEF vs
    <3> QED BY <3>1, <3>2, <2>1 DEF Ascending
  <2>3. PICK m : Place(vs, 1, pos, m) /\ Sink(vs, pos) = Moved(vs, m, pos)
    BY <2>1, <2>2, SinkIsMoved
  <2>4. KeptBy(from, q, values, samples) /\ (q = pos - 1 => Covers(from, q, samples))
    <3>1. samplecount < kbest => Room = samplecount
      BY DEF Room
    <3> QED BY <1>1, <1>3, <3>1
  <2>5. PICK to : /\ KeptBy(to, pos, Moved(vs, m, pos), Append(samples, val))
                  /\ q = pos - 1 => Covers(to, pos, Append(samples, val))
    BY <2>3, <2>4, <1>3, InsertKeeps
  <2>6. values' = Moved(vs, m, pos)
    BY <2>3, <1>3
  <2>7. values' \in [1..kbest -> Int]
    <3>1. m \in 1..pos
      BY <2>3 DEF Place
    <3>2. \A i \in 1..kbest : i > m => i - 1 \in 1..kbest
      BY <3>1
    <3> HIDE DEF vs
    <3> QED BY <2>1, <2>6, <3>1, <3>2 DEF Moved
  <2>8. KeptBy(to, Room', values', samples')
    BY <2>5, <2>6, <1>2, <1>3
  <2>9. samplecount' < kbest => Covers(to, samplecount', samples')
    <3> SUFFICES ASSUME samplecount' < kbest PROVE Covers(to, samplecount', samples')
      OBVIOUS
    <3>1. samplecount < kbest /\ Room' = samplecount'
      BY <1>2 DEF Room
    <3> QED BY <3>1, <2>5, <1>2, <1>3
  <2> QED
    BY <2>7, <2>8, <2>9, <1>2 DEF SamplerInv, Room
<1>4. CASE samplecount < kbest
  <2>1. PICK pos \in 1..kbest : pos = samplecount + 1
    BY <1>4
  <2>2. Room = samplecount /\ Room' = pos
    BY <2>1, <1>2, <1>4 DEF Room
  <2>3. values' = Sink([values EXCEPT ![pos] = val], pos)
    BY <2>1, <1>4 DEF add_sample
  <2>4. samplecount \in {pos - 1, pos} /\ samplecount = pos - 1 /\ samplecount # pos
    BY <2>1
  <2> QED
    BY <2>2, <2>3, <2>4, <1>3, <1>4
<1>5. CASE ~(samplecount < kbest) /\ val < values[kbest]
  <2>1. kbest \in 1..kbest /\ kbest \in {kbest - 1, kbest} /\ kbest # kbest - 1
    OBVIOUS
  <2>2. Room = kbest /\ Room' = kbest
    BY <1>2, <1>5 DEF Room
  <2>3. values' = Sink([values EXCEPT ![kbest] = val], kbest)
    BY <1>5 DEF add_sample
  <2> QED
    BY <2>1, <2>2, <2>3, <1>3, <1>5
<1>6. CASE ~(samplecount < kbest) /\ ~(val < values[kbest])
  <2>1. values' = values /\ Room = kbest /\ Room' = kbest /\ ~(samplecount' < kbest)
    BY <1>2, <1>6 DEF Room, add_sample
  <2>2. DOMAIN samples' = 1..(samplecount + 1) /\ DOMAIN samples = 1..samplecount
        /\ samples'[samplecount + 1] = val /\ \A x \in 1..samplecount : samples'[x] = samples[x]
    BY <1>2
  <2>3. from \in [1..kbest -> DOMAIN samples]
        /\ \A a, b \in 1..kbest : a < b => from[a] # from[b] /\ values[a] <= values[b]
    BY <1>1, <2>1 DEF KeptBy
  <2>4. \A a \in 1..kbest : values[a] = samples'[from[a]]
    BY <1>1, <2>1, <2>2, <2>3 DEF KeptBy
  <2>5. ASSUME NEW x \in DOMAIN samples', \A a \in 1..kbest : from[a] # x
        PROVE  values[kbest] <= samples'[x]
    <3>1. CASE x = samplecount + 1
      <4>1. values[kbest] \in Int
        OBVIOUS
      <4> QED BY <4>1, <3>1, <2>2, <1>6
    <3>2. CASE x # samplecount + 1
      <4>1. x \in DOMAIN samples /\ samples'[x] = samples[x]
        BY <3>2, <2>2
      <4> QED BY <4>1, <2>5, <1>1, <2>1 DEF KeptBy
    <3> QED BY <3>1, <3>2
  <2>6. from \in [1..kbest -> DOMAIN samples']
    BY <2>2, <2>3
  <2>7. KeptBy(from, kbest, values, samples')
    BY <2>3, <2>4, <2>5, <2>6 DEF KeptBy
  <2> QED
    BY <2>7, <2>1, <1>2 DEF SamplerInv, Room
<1> QED
  BY <1>4, <1>5, <1>6

LEMMA InitSamplerStep ==
  ASSUME init_sampler
  PROVE  SamplerInv'
<1> kbest \in Nat /\ kbest >= 1
  BY FcycAssumption
<1>1. values' \in [1..kbest -> Int] /\ samples' = <<>> /\ samplecount' = 0 /\ samples' \in Seq(Int) /\ Len(samples') = 0
  BY DEF init_sampler
<1>2. KeptBy(<<>>, 0, values', samples') /\ Covers(<<>>, 0, samples')
  BY <1>1 DEF KeptBy, Covers
<1> QED
  BY <1>1, <1>2 DEF SamplerInv

LEMMA SamplerKeeps == SamplerInv => KeepsSmallest
BY DEF SamplerInv, KeepsSmallest, KeptBy

-----------------------------------------------------------------------------
(* The product of the cycles is a number.                                  *)

ProdRec(s, n, f) == f = [k \in 0..n |-> IF k = 0 THEN 1 ELSE f[k - 1] * s[k]]

LEMMA ProdRecExists ==
  ASSUME NEW s, NEW n \in Nat
  PROVE  \E f : ProdRec(s, n, f)
<1> DEFINE T == {k \in Nat : ~\E f : ProdRec(s, k, f)}
<1> SUFFICES T = {}
  OBVIOUS
<1> SUFFICES ASSUME T # {} PROVE FALSE
  OBVIOUS
<1>1. PICK m \in T : \A k \in T : m <= k
  <2> HIDE DEF T
  <2>1. T \in SUBSET Nat
    BY DEF T
  <2> QED BY <2>1, LeastNat
<1>2. m # 0
  <2>1. ProdRec(s, 0, [k \in 0..0 |-> 1])
    BY DEF ProdRec
  <2> QED BY <2>1
<1>3. m - 1 \in Nat /\ m - 1 \notin T
  BY <1>1, <1>2
<1>4. PICK f : ProdRec(s, m - 1, f)
  BY <1>3
<1> DEFINE g == [k \in 0..m |-> IF k = m THEN f[m - 1] * s[m] ELSE f[k]]
           body(h, k) == IF k = 0 THEN 1 ELSE h[k - 1] * s[k]
<1>5. \A k \in 0..(m - 1) : f[k] = body(f, k)
  <2>1. f = [k \in 0..(m - 1) |-> body(f, k)]
    BY <1>4 DEF ProdRec
  <2> HIDE DEF body
  <2> QED BY <2>1
<1>6. ASSUME NEW k \in 0..m PROVE g[k] = body(g, k)
  <2>1. CASE k = m
    BY <2>1, <1>2
  <2>2. CASE k # m
    <3>1. k \in 0..(m - 1) /\ g[k] = f[k] /\ (k # 0 => k - 1 \in 0..m /\ k - 1 # m /\ g[k - 1] = f[k - 1])
      BY <2>2
    <3>2. f[k] = body(f, k)
      BY <3>1, <1>5
    <3> HIDE DEF g
    <3> QED BY <3>1, <3>2
  <2> QED BY <2>1, <2>2
<1>7. g = [k \in 0..m |-> g[k]]
  OBVIOUS
<1>8. g = [k \in 0..m |-> body(g, k)]
  <2> HIDE DEF g, body
  <2> QED BY <1>6, <1>7
<1>9. ProdRec(s, m, g)
  <2> HIDE DEF g
  <2> QED BY <1>8 DEF ProdRec
<1> QED
  BY <1>9

LEMMA ProductType ==
  ASSUME NEW s \in Seq(Int)
  PROVE  Product(s) \in Int
<1>1. PICK f : ProdRec(s, Len(s), f) /\ Product(s) = f[Len(s)]
  <2> DEFINE f == CHOOSE f : ProdRec(s, Len(s), f)
  <2>1. Len(s) \in Nat
    OBVIOUS
  <2>2. ProdRec(s, Len(s), f)
    BY <2>1, ProdRecExists, Zenon
  <2>3. Product(s) = f[Len(s)]
    BY Zenon DEF Product, ProdRec
  <2> QED BY <2>2, <2>3
<1>2. \A k \in 0..Len(s) : f[k] = IF k = 0 THEN 1 ELSE f[k - 1] * s[k]
  <2> DEFINE body(k) == IF k = 0 THEN 1 ELSE f[k - 1] * s[k]
  <2>1. f = [k \in 0..Len(s) |-> body(k)]
    BY <1>1 DEF ProdRec
  <2> HIDE DEF body
  <2>2. \A k \in 0..Len(s) : f[k] = body(k)
    BY <2>1
  <2> QED BY <2>2 DEF body
<1> DEFINE T == {k \in 0..Len(s) : f[k] \notin Int}
<1>3. T = {}
  <2> SUFFICES ASSUME T # {} PROVE FALSE
    OBVIOUS
  <2>1. PICK m \in T : \A k \in T : m <= k
    <3>1. T \in SUBSET Nat
      OBVIOUS
    <3> HIDE DEF T
    <3> QED BY <3>1, LeastNat
  <2>2. m \in 0..Len(s) /\ f[m] \notin Int
    OBVIOUS
  <2>3. m # 0
    BY <1>2, <2>2
  <2>4. m - 1 \in 0..Len(s) /\ m - 1 \notin T
    BY <2>1, <2>3
  <2>5. f[m - 1] \in Int /\ s[m] \in Int
    BY <2>3, <2>4
  <2> QED BY <2>2, <2>3, <2>5, <1>2
<1> QED
  BY <1>1, <1>3

-----------------------------------------------------------------------------
(* The steps of the driver.                                                *)

LEMMA BenchType ==
  ASSUME Types, pc \in Testing
  PROVE  /\ kind \in Kinds /\ idx \in DOMAIN benchmarks[kind] /\ Bench \in Benchs(kind)
         /\ benchmarks[kind] \in Seq(Benchs(kind))
BY DEF Types, Bench

(* The checks accept what the run has stored.                              *)
LEMMA CheckAccepts ==
  ASSUME Types, ImageInv, pc \in {"check_odd", "check"}
  PROVE  ~(IF kind = "pinwheel" THEN check_pinwheel(dim, mem) ELSE check_motion(dim, mem))
<1>1. mem.result = Expected /\ ~check_orig(mem)
  BY DEF ImageInv, check_orig
<1>2. naive_motion(dim, mem) = [a \in Pixels(dim) |-> check_weighted_sum(dim, Row(a, dim), Col(a, dim), mem)]
  BY Zenon DEF naive_motion, weighted_combo, check_weighted_sum
<1>3. CASE kind = "pinwheel"
  BY <1>1, <1>3 DEF Expected, check_pinwheel
<1>4. CASE kind # "pinwheel"
  BY <1>1, <1>2, <1>4 DEF Expected, check_motion
<1> QED
  BY <1>3, <1>4

LEMMA BestSame ==
  ASSUME BestInv, UNCHANGED <<benchmarks, best, kind, idx>>
  PROVE  BestInv'
BY DEF BestInv, Fastest, Scored, Cycles

LEMMA SamplerSame ==
  ASSUME SamplerInv, UNCHANGED fcycVars
  PROVE  SamplerInv'
BY DEF SamplerInv, fcycVars

LEMMA CreateStep ==
  ASSUME PerfInv, NEW from, NEW d \in Nat, d % (2 * TILE) = 0, NEW to, Create(from, d, to),
         <<from, to>> \in {<<"create_odd", "run_odd">>, <<"create", "run">>}
  PROVE  PerfInv'
<1> Types /\ ImageInv /\ SamplerInv /\ BestInv
  BY DEF PerfInv
<1>1. /\ pc = from /\ pc' = to /\ dim' = d
      /\ UNCHANGED <<setup, benchmarks, kind, idx, test_num, best, fcycVars>>
  BY DEF Create
<1>2. PICK image, stale : mem' = create(d, image, stale)
  BY DEF Create
<1>3. Types'
  BY <1>1 DEF Types, Testing, Bench
<1>4. ImageInv'
  BY <1>1, <1>2 DEF ImageInv, create
<1> QED
  BY <1>1, <1>3, <1>4, BestSame, SamplerSame DEF PerfInv

LEMMA RunStep ==
  ASSUME PerfInv, NEW from, NEW to, Run(from, to),
         <<from, to>> \in {<<"run_odd", "check_odd">>, <<"run", "check">>}
  PROVE  PerfInv'
<1> Types /\ ImageInv /\ SamplerInv /\ BestInv
  BY DEF PerfInv
<1>1. /\ pc = from /\ pc' = to /\ mem' = [mem EXCEPT !.result = Kernel(Bench.funct)]
      /\ UNCHANGED <<setup, benchmarks, kind, idx, test_num, dim, best, fcycVars>>
  BY DEF Run
<1>2. Types'
  BY <1>1 DEF Types, Testing, Bench
<1>3. /\ dim \in Nat /\ dim % (2 * TILE) = 0
      /\ mem = [orig |-> mem.orig, tmp |-> mem.tmp, result |-> mem.result, copy_of_orig |-> mem.orig]
  BY <1>1 DEF ImageInv
<1>4. PICK r : r = Kernel(Bench.funct)
  OBVIOUS
<1>5. /\ mem' = [orig |-> mem.orig, tmp |-> mem.tmp, result |-> r, copy_of_orig |-> mem.orig]
      /\ mem'.result = r /\ SameImages(mem, mem')
  BY <1>1, <1>3, <1>4 DEF SameImages
<1>6. Bench.funct \in {Registered(kind)[1], Registered(kind)[2]}
  BY BenchType, <1>1 DEF Benchs, Testing
<1>7. r = Expected'
  <2>1. kind \in {"pinwheel", "motion"}
    BY DEF Types, Kinds
  <2>2. CASE kind = "pinwheel"
    <3>1. Bench.funct \in {"pinwheel", "naive_pinwheel"}
      BY <2>2, <1>6 DEF Registered
    <3>2. r = naive_pinwheel(dim, mem)
      BY <3>1, <1>3, <1>4, PinwheelIsNaive DEF Kernel
    <3>3. naive_pinwheel(dim, mem) = naive_pinwheel(dim, mem')
      BY <1>3, <1>5, PinwheelSame
    <3> QED BY <2>2, <3>2, <3>3, <1>1 DEF Expected
  <2>3. CASE kind = "motion"
    <3>1. Bench.funct \in {"motion", "naive_motion"}
      BY <2>3, <1>6 DEF Registered
    <3>2. r = naive_motion(dim, mem)
      BY <3>1, <1>3, <1>4, MotionIsNaive DEF Kernel
    <3>3. naive_motion(dim, mem) = naive_motion(dim, mem')
      BY <1>5, MotionSame
    <3> QED BY <2>3, <3>2, <3>3, <1>1 DEF Expected
  <2> QED BY <2>1, <2>2, <2>3
<1>8. ImageInv'
  BY <1>1, <1>3, <1>5, <1>7 DEF ImageInv
<1> QED
  BY <1>1, <1>2, <1>8, BestSame, SamplerSame DEF PerfInv

LEMMA CheckStep ==
  ASSUME PerfInv, NEW from, NEW to, CheckResult(from, to),
         <<from, to>> \in {<<"check_odd", "create">>, <<"check", "measure">>}
  PROVE  PerfInv'
<1> Types /\ ImageInv /\ SamplerInv /\ BestInv
  BY DEF PerfInv
<1>1. pc = from /\ pc \in {"check_odd", "check"}
  BY DEF CheckResult
<1>2. /\ pc' = to /\ UNCHANGED <<setup, benchmarks, kind, idx, test_num, dim, best, fcycVars>>
  BY <1>1, CheckAccepts DEF CheckResult
<1>3. Types'
  BY <1>1, <1>2 DEF Types, Testing, Bench
<1>4. ImageInv'
  BY <1>2 DEF ImageInv
<1> QED
  BY <1>2, <1>3, <1>4, BestSame, SamplerSame DEF PerfInv

LEMMA NextBenchStep ==
  ASSUME PerfInv, NextBench
  PROVE  PerfInv'
<1> Types /\ ImageInv /\ SamplerInv /\ BestInv
  BY DEF PerfInv
<1>1. pc = "next" /\ UNCHANGED <<setup, benchmarks, dim, mem, best, fcycVars>>
  BY DEF NextBench
<1>2. /\ kind \in {"pinwheel", "motion"} /\ idx \in Nat /\ idx > 0
      /\ \A k \in Kinds : benchmarks[k] \in Seq(Benchs(k)) /\ DOMAIN benchmarks[k] = 1..Len(benchmarks[k])
                          /\ Len(benchmarks[k]) \in Nat
  BY DEF Types, Kinds
<1>3. SamplerInv'
  BY <1>1, SamplerSame
<1>4. ASSUME pc' \in {"next", "create_odd", "done"} PROVE ImageInv'
  BY <1>4 DEF ImageInv
<1>5. ASSUME \A k \in Kinds : Scored(k)' = Scored(k) PROVE BestInv'
  BY <1>1, <1>5 DEF BestInv, Fastest, Cycles
<1>6. CASE idx > Len(benchmarks[kind]) /\ kind = "pinwheel"
  <2>1. pc' = pc /\ kind' = "motion" /\ idx' = 1 /\ test_num' = test_num
    BY <1>2, <1>6 DEF NextBench, Kinds
  <2>2. Types'
    BY <1>1, <2>1 DEF Types, Kinds, Testing
  <2>3. Scored("pinwheel")' = Scored("pinwheel") /\ Scored("motion")' = Scored("motion")
    BY <1>1, <1>2, <1>6, <2>1 DEF Scored, Kinds
  <2>4. BestInv'
    BY <2>3, <1>5 DEF Kinds
  <2> QED BY <1>1, <1>3, <1>4, <2>1, <2>2, <2>4 DEF PerfInv
<1>7. CASE idx > Len(benchmarks[kind]) /\ kind = "motion"
  <2>1. pc' = "done" /\ kind' = kind /\ idx' = idx /\ test_num' = test_num
    BY <1>2, <1>7 DEF NextBench, Kinds
  <2>2. Types'
    BY <1>1, <1>7, <2>1 DEF Types, Testing
  <2>3. BestInv'
    BY <1>1, <2>1, BestSame
  <2> QED BY <1>3, <1>4, <2>1, <2>2, <2>3 DEF PerfInv
<1>8. CASE idx <= Len(benchmarks[kind]) /\ ~Bench.valid
  <2>1. pc' = pc /\ kind' = kind /\ idx' = idx + 1 /\ test_num' = test_num
    BY <1>2, <1>8 DEF NextBench, Kinds
  <2>2. Types'
    BY <1>1, <2>1 DEF Types, Testing
  <2>3. ASSUME NEW k \in Kinds PROVE Scored(k)' = Scored(k)
    BY <1>1, <1>2, <1>8, <2>1 DEF Scored, Bench
  <2>4. BestInv'
    BY <2>3, <1>5
  <2> QED BY <1>1, <1>3, <1>4, <2>1, <2>2, <2>4 DEF PerfInv
<1>9. CASE idx <= Len(benchmarks[kind]) /\ Bench.valid
  <2>1. pc' = "create_odd" /\ kind' = kind /\ idx' = idx /\ test_num' = 1
    BY <1>2, <1>9 DEF NextBench, Kinds
  <2>2. Types'
    BY <1>1, <1>9, <2>1, PerfAssumption DEF Types, Testing, Bench
  <2>3. BestInv'
    BY <1>1, <2>1, BestSame
  <2> QED BY <1>3, <1>4, <2>1, <2>2, <2>3 DEF PerfInv
<1> QED
  BY <1>2, <1>6, <1>7, <1>8, <1>9 DEF Kinds

LEMMA MeasureSteps ==
  ASSUME PerfInv, StartMeasure \/ \E val \in SampleValues : Sample(val)
  PROVE  PerfInv'
<1> Types /\ ImageInv /\ SamplerInv /\ BestInv
  BY DEF PerfInv
<1>1. UNCHANGED <<setup, benchmarks, kind, idx, test_num, dim, mem, best>>
  BY DEF StartMeasure, Sample, driverVars
<1>2. pc \in {"measure", "sampling"} /\ pc' = "sampling"
  BY DEF StartMeasure, Sample
<1>3. SamplerInv'
  <2>1. CASE StartMeasure
    BY <2>1, InitSamplerStep DEF StartMeasure
  <2>2. ASSUME NEW val \in SampleValues, Sample(val) PROVE SamplerInv'
    <3>1. val \in Int /\ add_sample(val)
      BY <2>2, FcycAssumption DEF Sample
    <3> QED BY <3>1, AddSampleStep
  <2> QED BY <2>1, <2>2
<1>4. Types'
  BY <1>1, <1>2 DEF Types, Testing, Bench
<1>5. ImageInv'
  BY <1>2 DEF ImageInv
<1> QED
  BY <1>1, <1>3, <1>4, <1>5, BestSame DEF PerfInv

(* A measurement adds to the benchmark being tested, which has no score    *)
(* yet.                                                                    *)
LEMMA EndMeasureStep ==
  ASSUME PerfInv, EndMeasure
  PROVE  PerfInv'
<1> Types /\ ImageInv /\ SamplerInv /\ BestInv
  BY DEF PerfInv
<1>1. /\ pc = "sampling" /\ UNCHANGED <<setup, kind, idx, dim, mem, best>> /\ init_sampler
      /\ benchmarks' = [benchmarks EXCEPT ![kind][idx].cpes = Append(@, values[1])]
      /\ \/ test_num < Len(test_dim[kind]) /\ test_num' = test_num + 1 /\ pc' = "create_odd"
         \/ pc' = "score" /\ test_num' = test_num
  BY DEF EndMeasure
<1>2. SamplerInv'
  BY <1>1, InitSamplerStep
<1>3. ImageInv'
  BY <1>1 DEF ImageInv
<1>4. /\ kind \in Kinds /\ idx \in 1..Len(benchmarks[kind]) /\ idx \in Nat /\ Bench.valid
      /\ test_num \in Nat /\ test_num > 0 /\ test_num <= Len(test_dim[kind]) /\ DOMAIN benchmarks = Kinds
      /\ benchmarks[kind] \in Seq(Benchs(kind)) /\ Bench \in Benchs(kind)
  BY <1>1, BenchType DEF Types, Testing
<1>5. values[1] \in Int
  BY FcycAssumption DEF SamplerInv
<1>6. PICK b : b = [Bench EXCEPT !.cpes = Append(@, values[1])]
  OBVIOUS
<1>7. /\ b \in Benchs(kind) /\ b.valid = Bench.valid /\ b.description = Bench.description
  <2>1. PICK c \in Seq(Int) : c = Append(Bench.cpes, values[1])
    <3>1. Bench.cpes \in Seq(Int)
      BY <1>4 DEF Benchs
    <3>2. \A c \in Seq(Int) : \A v \in Int : Append(c, v) \in Seq(Int)
      OBVIOUS
    <3> QED BY <3>1, <3>2, <1>5
  <2>2. b = [Bench EXCEPT !.cpes = c]
    BY <2>1, <1>6
  <2> QED BY <2>2, <1>4 DEF Benchs
<1>8. /\ DOMAIN benchmarks' = Kinds
      /\ \A k \in Kinds : k # kind => benchmarks'[k] = benchmarks[k]
      /\ benchmarks'[kind] = [benchmarks[kind] EXCEPT ![idx] = b]
  BY <1>1, <1>4, <1>6 DEF Bench
<1>9. /\ benchmarks'[kind] \in Seq(Benchs(kind)) /\ Len(benchmarks'[kind]) = Len(benchmarks[kind])
      /\ DOMAIN benchmarks'[kind] = DOMAIN benchmarks[kind]
      /\ benchmarks'[kind][idx] = b
      /\ \A n \in DOMAIN benchmarks[kind] : n # idx => benchmarks'[kind][n] = benchmarks[kind][n]
  BY <1>4, <1>7, <1>8
<1>10. Types'
  <2>1. DOMAIN benchmarks' = Kinds /\ \A k \in Kinds : benchmarks'[k] \in Seq(Benchs(k))
    BY <1>8, <1>9 DEF Types
  <2>2. Bench'.valid
    BY <1>1, <1>4, <1>7, <1>9 DEF Bench
  <2>3. test_num' \in Nat \ {0} /\ test_num' <= Len(test_dim[kind])
    BY <1>1, <1>4, PerfAssumption
  <2> QED
    BY <1>1, <1>4, <1>9, <2>1, <2>2, <2>3 DEF Types, Testing
<1>11. ASSUME NEW k \in Kinds
       PROVE  /\ DOMAIN benchmarks'[k] = DOMAIN benchmarks[k]
              /\ \A n \in DOMAIN benchmarks[k] : benchmarks'[k][n].valid = benchmarks[k][n].valid
              /\ \A n \in Scored(k) : benchmarks'[k][n] = benchmarks[k][n]
  <2>1. CASE k # kind
    BY <2>1, <1>8
  <2>2. CASE k = kind
    <3>1. \A n \in DOMAIN benchmarks[kind] : benchmarks'[kind][n].valid = benchmarks[kind][n].valid
      BY <1>7, <1>9 DEF Bench
    <3>2. \A n \in Scored(kind) : n # idx /\ n \in DOMAIN benchmarks[kind]
      BY <1>4 DEF Scored
    <3> QED BY <2>2, <3>1, <3>2, <1>9
  <2> QED BY <2>1, <2>2
<1>12. \A k \in Kinds : Scored(k)' = Scored(k)
  BY <1>1, <1>11 DEF Scored
<1>13. \A k \in Kinds : \A n \in Scored(k) : Cycles(k, n)' = Cycles(k, n)
  BY <1>11 DEF Cycles
<1>14. BestInv'
  <2>1. ASSUME NEW k \in Kinds PROVE Fastest(k, Scored(k))'
    <3>1. Fastest(k, Scored(k))
      BY DEF BestInv
    <3>2. CASE Scored(k) = {}
      BY <3>1, <3>2, <1>1, <1>12 DEF Fastest
    <3>3. CASE Scored(k) # {}
      <4>1. PICK n \in Scored(k) :
              /\ best[k] = [cycles |-> Cycles(k, n), desc |-> benchmarks[k][n].description]
              /\ \A m \in Scored(k) : Cycles(k, n) <= Cycles(k, m)
        BY <3>1, <3>3 DEF Fastest
      <4>2. best'[k] = [cycles |-> Cycles(k, n)', desc |-> benchmarks'[k][n].description]
        BY <4>1, <1>1, <1>11, <1>13
      <4>3. \A m \in Scored(k)' : Cycles(k, n)' <= Cycles(k, m)'
        BY <4>1, <1>12, <1>13
      <4> QED BY <4>1, <4>2, <4>3, <3>3, <1>12 DEF Fastest
    <3> QED BY <3>2, <3>3
  <2> QED BY <2>1, <1>1 DEF BestInv
<1> QED
  BY <1>2, <1>3, <1>10, <1>14 DEF PerfInv

LEMMA OptionsStep ==
  ASSUME PerfInv, Options
  PROVE  PerfInv'
<1> Types /\ ImageInv /\ SamplerInv /\ BestInv
  BY DEF PerfInv
<1>1. /\ pc = "options" /\ pc' \in {"exit", "crashed", "next"}
      /\ UNCHANGED <<setup, kind, idx, test_num, dim, mem, best, fcycVars>>
  BY DEF Options
<1>2. kind = "pinwheel" /\ idx = 1
  BY <1>1 DEF Types
<1>3. DOMAIN benchmarks' = Kinds /\ \A k \in Kinds : benchmarks'[k] \in Seq(Benchs(k))
  <2>1. CASE pc' # "next"
    BY <2>1 DEF Options, Types
  <2>2. CASE pc' = "next" /\ setup.autograder
    <3>1. benchmarks' = [k \in Kinds |-> <<[funct |-> k, description |-> <<k, "function">>,
                                           valid |-> TRUE, cpes |-> <<>>]>>]
      BY <2>2 DEF Options
    <3>2. ASSUME NEW k \in Kinds
          PROVE  [funct |-> k, description |-> <<k, "function">>, valid |-> TRUE, cpes |-> <<>>] \in Benchs(k)
      <4>1. k \in {Registered(k)[1], Registered(k)[2]}
        BY DEF Registered
      <4>2. <<k, "function">> \in Descriptions(k)
        BY DEF Descriptions
      <4> QED BY <4>1, <4>2 DEF Benchs
    <3>3. ASSUME NEW k \in Kinds, NEW b \in Benchs(k) PROVE <<b>> \in Seq(Benchs(k))
      OBVIOUS
    <3> QED BY <3>1, <3>2, <3>3
  <2>3. CASE pc' = "next" /\ ~setup.autograder
    <3> DEFINE b(k, n) == [benchmarks[k][n] EXCEPT !.valid = @ \/ Selected(k, benchmarks[k][n])]
    <3>1. benchmarks' = [k \in Kinds |-> [n \in DOMAIN benchmarks[k] |-> b(k, n)]]
      BY <2>3 DEF Options
    <3>2. ASSUME NEW k \in Kinds, NEW n \in DOMAIN benchmarks[k] PROVE b(k, n) \in Benchs(k)
      <4>1. benchmarks[k][n] \in Benchs(k)
        BY DEF Types
      <4>2. (benchmarks[k][n].valid \/ Selected(k, benchmarks[k][n])) \in BOOLEAN
        BY <4>1 DEF Benchs
      <4> QED BY <4>1, <4>2 DEF Benchs
    <3>3. ASSUME NEW k \in Kinds PROVE DOMAIN benchmarks[k] = 1..Len(benchmarks[k]) /\ Len(benchmarks[k]) \in Nat
      BY DEF Types
    <3> HIDE DEF b
    <3>4. ASSUME NEW k \in Kinds PROVE benchmarks'[k] \in Seq(Benchs(k))
      BY <3>1, <3>2, <3>3
    <3> QED BY <3>1, <3>4
  <2> QED BY <2>1, <2>2, <2>3
<1>4. Types'
  BY <1>1, <1>2, <1>3 DEF Types, Testing
<1>5. ImageInv'
  BY <1>1 DEF ImageInv
<1>6. BestInv'
  <2>1. \A k \in Kinds : Scored(k) = {}
    <3>1. \A k \in Kinds : DOMAIN benchmarks[k] \subseteq Nat \ {0}
      BY DEF Types
    <3> QED BY <3>1, <1>2 DEF Scored, Kinds
  <2>2. \A k \in Kinds : Scored(k)' = {}
    <3>1. \A k \in Kinds : DOMAIN benchmarks'[k] \subseteq Nat \ {0}
      BY <1>3
    <3> QED BY <3>1, <1>1, <1>2 DEF Scored, Kinds
  <2>3. \A k \in Kinds : best'[k] = NoBest /\ DOMAIN best' = Kinds
    BY <2>1, <1>1 DEF BestInv, Fastest
  <2> QED BY <2>2, <2>3, <1>1 DEF BestInv, Fastest
<1> QED
  BY <1>1, <1>4, <1>5, <1>6, SamplerSame DEF PerfInv

(* The score of a benchmark is compared with the best of those before.     *)
LEMMA ScoreStep ==
  ASSUME PerfInv, Score
  PROVE  PerfInv'
<1> Types /\ ImageInv /\ SamplerInv /\ BestInv
  BY DEF PerfInv
<1>1. pc = "score" /\ UNCHANGED <<setup, benchmarks, kind, test_num, dim, mem, fcycVars>>
  BY DEF Score
<1>2. /\ kind \in Kinds /\ idx \in 1..Len(benchmarks[kind]) /\ idx \in Nat /\ Bench.valid
      /\ benchmarks[kind] \in Seq(Benchs(kind)) /\ Bench \in Benchs(kind)
      /\ DOMAIN benchmarks[kind] = 1..Len(benchmarks[kind])
  BY <1>1, BenchType DEF Types, Testing
<1>3. SamplerInv'
  BY <1>1, SamplerSame
<1>4. CASE ~(\A n \in DOMAIN Bench.cpes : Bench.cpes[n] > 0)
  <2>1. pc' = "exit" /\ UNCHANGED <<best, idx>>
    BY <1>4 DEF Score
  <2>2. Types'
    BY <1>1, <2>1 DEF Types, Testing
  <2>3. ImageInv'
    BY <2>1 DEF ImageInv
  <2> QED BY <1>1, <1>3, <2>1, <2>2, <2>3, BestSame DEF PerfInv
<1>5. CASE \A n \in DOMAIN Bench.cpes : Bench.cpes[n] > 0
  <2>1. /\ pc' = "next" /\ idx' = idx + 1
        /\ best' = IF Better(Cycles(kind, idx))
                   THEN [best EXCEPT ![kind] = [cycles |-> Cycles(kind, idx), desc |-> Bench.description]]
                   ELSE best
    BY <1>5 DEF Score, Cycles, Bench
  <2>2. Types'
    BY <1>1, <2>1 DEF Types, Testing
  <2>3. ImageInv'
    BY <2>1 DEF ImageInv
  <2>4. \A k \in Kinds : k # kind => Scored(k)' = Scored(k)
    BY <1>1 DEF Scored
  <2>5. Scored(kind)' = Scored(kind) \cup {idx}
    BY <1>1, <1>2, <2>1 DEF Scored, Bench
  <2>6. \A n \in DOMAIN benchmarks[kind] : /\ Cycles(kind, n) \in Int
                                           /\ benchmarks[kind][n].description \in Descriptions(kind)
    <3> SUFFICES ASSUME NEW n \in DOMAIN benchmarks[kind]
                 PROVE  Cycles(kind, n) \in Int /\ benchmarks[kind][n].description \in Descriptions(kind)
      OBVIOUS
    <3>1. benchmarks[kind][n] \in Benchs(kind)
      BY <1>2
    <3> QED BY <3>1, ProductType DEF Benchs, Cycles
  <2>7. \A k, n : Cycles(k, n)' = Cycles(k, n)
    BY <1>1 DEF Cycles
  <2>8. DOMAIN best' = Kinds /\ DOMAIN best = Kinds /\ \A k \in Kinds : k # kind => best'[k] = best[k]
    BY <2>1, <1>2 DEF BestInv
  <2>9. Fastest(kind, Scored(kind))'
    <3>1. Fastest(kind, Scored(kind))
      BY <1>2 DEF BestInv
    <3>2. Scored(kind) \subseteq DOMAIN benchmarks[kind]
      BY DEF Scored
    <3>3. CASE Better(Cycles(kind, idx))
      <4> PICK i \in DOMAIN benchmarks[kind] : i = idx
        BY <1>2
      <4>1. best'[kind] = [cycles |-> Cycles(kind, i)', desc |-> benchmarks'[kind][i].description]
        <5>1. Cycles(kind, i)' = Cycles(kind, i)
          BY <2>7, <1>1
        <5> QED BY <3>3, <2>1, <2>8, <1>1, <1>2, <5>1 DEF Bench
      <4>2. \A m \in Scored(kind) : Cycles(kind, idx) <= Cycles(kind, m)
        <5> SUFFICES ASSUME NEW m \in Scored(kind) PROVE Cycles(kind, idx) <= Cycles(kind, m)
          OBVIOUS
        <5>1. PICK n \in Scored(kind) :
                /\ best[kind] = [cycles |-> Cycles(kind, n), desc |-> benchmarks[kind][n].description]
                /\ \A x \in Scored(kind) : Cycles(kind, n) <= Cycles(kind, x)
          BY <3>1 DEF Fastest
        <5>2. best[kind].desc # NULL
          BY <5>1, <3>2, <2>6, <1>2, PerfAssumption
        <5>3. Cycles(kind, idx) < Cycles(kind, n) /\ Cycles(kind, n) <= Cycles(kind, m)
          BY <5>1, <5>2, <3>3 DEF Better
        <5>4. Cycles(kind, idx) \in Int /\ Cycles(kind, n) \in Int /\ Cycles(kind, m) \in Int
          BY <3>2, <2>6, <1>2
        <5> QED BY <5>3, <5>4
      <4>3. \A m \in Scored(kind)' : Cycles(kind, i)' <= Cycles(kind, m)'
        <5>1. \A m \in Scored(kind) \cup {idx} : Cycles(kind, i) <= Cycles(kind, m)
          BY <4>2, <2>6, <1>2
        <5>2. \A m : Cycles(kind, m)' = Cycles(kind, m)
          BY <2>7, <1>1
        <5> QED BY <5>1, <5>2, <2>5
      <4>4. i \in Scored(kind)'
        BY <2>5
      <4>5. Scored(kind)' # {}
        BY <4>4
      <4>6. kind' = kind
        BY <1>1
      <4> QED BY ONLY <4>1, <4>3, <4>4, <4>5, <4>6 DEF Fastest
    <3>4. CASE ~Better(Cycles(kind, idx))
      <4>1. best' = best /\ best[kind] # NoBest /\ ~(Cycles(kind, idx) < best[kind].cycles)
        BY <3>4, <2>1 DEF Better, NoBest
      <4>2. PICK n \in Scored(kind) :
              /\ best[kind] = [cycles |-> Cycles(kind, n), desc |-> benchmarks[kind][n].description]
              /\ \A x \in Scored(kind) : Cycles(kind, n) <= Cycles(kind, x)
        BY <3>1, <4>1 DEF Fastest
      <4>3. Cycles(kind, n) <= Cycles(kind, idx)
        BY <4>1, <4>2, <3>2, <2>6, <1>2
      <4>4. \A m \in Scored(kind)' : Cycles(kind, n)' <= Cycles(kind, m)'
        <5>1. \A m \in Scored(kind) \cup {idx} : Cycles(kind, n) <= Cycles(kind, m)
          BY <4>2, <4>3
        <5>2. \A m : Cycles(kind, m)' = Cycles(kind, m)
          BY <2>7, <1>1
        <5> QED BY <5>1, <5>2, <2>5
      <4>5. best'[kind] = [cycles |-> Cycles(kind, n)', desc |-> benchmarks'[kind][n].description]
        BY <4>1, <4>2, <2>7, <1>1
      <4> QED BY <4>4, <4>5, <2>5, <1>1 DEF Fastest
    <3> QED BY <3>3, <3>4
  <2>10. ASSUME NEW k \in Kinds, k # kind PROVE Fastest(k, Scored(k))'
    <3>1. Fastest(k, Scored(k))
      BY DEF BestInv
    <3> QED BY <3>1, <2>4, <2>7, <2>8, <2>10, <1>1 DEF Fastest
  <2>11. BestInv'
    BY <2>8, <2>9, <2>10, <1>1 DEF BestInv
  <2> QED BY <1>3, <2>2, <2>3, <2>11 DEF PerfInv
<1> QED
  BY <1>4, <1>5

LEMMA InitHolds == Init => PerfInv
<1> SUFFICES ASSUME Init PROVE PerfInv
  OBVIOUS
<1> kbest \in Nat /\ kbest >= 1
  BY FcycAssumption
<1>1. benchmarks = [k \in Kinds |->
                      [n \in 1..2 |-> [funct |-> Registered(k)[n],
                                       description |-> Description(Registered(k)[n]),
                                       valid |-> FALSE, cpes |-> <<>>]]]
  BY DEF Init
<1>2. ASSUME NEW k \in Kinds PROVE benchmarks[k] \in Seq(Benchs(k))
  <2> DEFINE b(n) == [funct |-> Registered(k)[n], description |-> Description(Registered(k)[n]),
                      valid |-> FALSE, cpes |-> <<>>]
  <2>1. benchmarks[k] = [n \in 1..2 |-> b(n)]
    BY <1>1
  <2>2. b(1) \in Benchs(k) /\ b(2) \in Benchs(k)
    BY DEF Benchs, Descriptions
  <2> HIDE DEF b
  <2> QED BY <2>1, <2>2
<1>3. Types
  BY <1>1, <1>2 DEF Init, Types, Testing, Kinds
<1>4. ImageInv
  BY DEF Init, ImageInv
<1>5. SamplerInv
  <2>1. values \in [1..kbest -> Int] /\ samples = <<>> /\ samplecount = 0 /\ samples \in Seq(Int) /\ Len(samples) = 0
    BY DEF Init
  <2>2. KeptBy(<<>>, 0, values, samples) /\ Covers(<<>>, 0, samples)
    BY <2>1 DEF KeptBy, Covers
  <2> QED BY <2>1, <2>2 DEF SamplerInv
<1>6. BestInv
  <2>1. \A k \in Kinds : Scored(k) = {}
    BY <1>1 DEF Scored
  <2>2. best = [k \in Kinds |-> NoBest]
    BY DEF Init
  <2> QED BY <2>1, <2>2 DEF BestInv, Fastest
<1> QED
  BY <1>3, <1>4, <1>5, <1>6 DEF PerfInv

LEMMA NextHolds == PerfInv /\ [Next]_vars => PerfInv'
<1> SUFFICES ASSUME PerfInv, [Next]_vars PROVE PerfInv'
  OBVIOUS
<1>1. CASE Options
  BY <1>1, OptionsStep
<1>2. CASE NextBench
  BY <1>2, NextBenchStep
<1>3. CASE Create("create_odd", ODD_DIM, "run_odd")
  BY <1>3, CreateStep, PerfAssumption
<1>4. CASE Create("create", Dim, "run")
  <2>1. pc = "create" /\ kind \in Kinds /\ test_num \in DOMAIN test_dim[kind]
    BY <1>4, PerfAssumption DEF Create, PerfInv, Types, Testing
  <2>2. Dim \in Nat /\ Dim % (2 * TILE) = 0
    BY <2>1, PerfAssumption DEF Dim
  <2> QED BY <1>4, <2>2, CreateStep
<1>5. CASE Run("run_odd", "check_odd") \/ Run("run", "check")
  BY <1>5, RunStep
<1>6. CASE CheckResult("check_odd", "create") \/ CheckResult("check", "measure")
  BY <1>6, CheckStep
<1>7. CASE StartMeasure \/ \E val \in SampleValues : Sample(val)
  BY <1>7, MeasureSteps
<1>8. CASE EndMeasure
  BY <1>8, EndMeasureStep
<1>9. CASE Score
  BY <1>9, ScoreStep
<1>10. CASE UNCHANGED vars
  <2>1. UNCHANGED <<pc, setup, benchmarks, kind, idx, test_num, dim, mem, best>> /\ UNCHANGED fcycVars
    BY <1>10 DEF vars, driverVars
  <2>2. Types' /\ ImageInv'
    BY <2>1 DEF PerfInv, Types, ImageInv, Bench, Expected
  <2> QED BY <2>1, <2>2, BestSame, SamplerSame DEF PerfInv
<1> QED
  BY <1>1, <1>2, <1>3, <1>4, <1>5, <1>6, <1>7, <1>8, <1>9, <1>10 DEF Next

(* The driver keeps PerfInv, for any images, counters and command lines.   *)
THEOREM PerfCorrect == Spec => []PerfInv
  BY InitHolds, NextHolds, PTL DEF Spec

(* add_sample of fcyc.c keeps the smallest samples in order, for any kbest *)
(* and any readings of the counters.                                       *)
THEOREM SamplerCorrect == Spec => []KeepsSmallest
<1>1. PerfInv => KeepsSmallest
  BY SamplerKeeps DEF PerfInv
<1> QED
  BY <1>1, PerfCorrect, PTL

(* The checks of driver.c accept the kernels of kernels.c on every image   *)
(* whose side is a multiple of two blocks: no benchmark is given up.       *)
THEOREM KernelsAccepted == Spec => NeverRefused
<1>1. PerfInv /\ [Next]_vars => [(pc \in {"check_odd", "check"}) => pc' # "next"]_vars
  <2> SUFFICES ASSUME PerfInv, Next, pc \in {"check_odd", "check"} PROVE pc' # "next"
    OBVIOUS
  <2>1. CheckResult("check_odd", "create") \/ CheckResult("check", "measure")
    BY DEF Next, Options, NextBench, Create, Run, StartMeasure, Sample, EndMeasure, Score
  <2> QED
    BY <2>1, CheckAccepts DEF PerfInv, CheckResult
<1> QED
  BY <1>1, PerfCorrect, PTL DEF Spec, NeverRefused

(* The summary of driver.c names the fastest of the selected functions of  *)
(* each kind.                                                              *)
THEOREM BestCorrect == Spec => []BestIsFastest
<1>1. PerfInv => BestIsFastest
  <2> SUFFICES ASSUME PerfInv, pc = "done", NEW k \in Kinds
               PROVE  LET tested == {n \in DOMAIN benchmarks[k] : benchmarks[k][n].valid}
                          cycles(n) == Product(benchmarks[k][n].cpes)
                      IN  IF tested = {} THEN best[k] = NoBest
                          ELSE \E n \in tested :
                                 /\ best[k] = [cycles |-> cycles(n), desc |-> benchmarks[k][n].description]
                                 /\ \A m \in tested : cycles(n) <= cycles(m)
    BY DEF BestIsFastest
  <2>1. kind = "motion" /\ idx > Len(benchmarks["motion"]) /\ idx \in Nat
        /\ DOMAIN benchmarks["motion"] = 1..Len(benchmarks["motion"]) /\ Len(benchmarks["motion"]) \in Nat
    BY DEF PerfInv, Types, Kinds
  <2>2. Scored(k) = {n \in DOMAIN benchmarks[k] : benchmarks[k][n].valid}
    BY <2>1 DEF Scored
  <2>3. Fastest(k, Scored(k))
    BY DEF PerfInv, BestInv
  <2> QED
    BY <2>2, <2>3 DEF Fastest, Cycles
<1> QED
  BY <1>1, PerfCorrect, PTL
=============================================================================
