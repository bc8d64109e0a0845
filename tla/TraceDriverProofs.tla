------------------------- MODULE TraceDriverProofs --------------------------
(***************************************************************************)
(* mdriver.c for any trace files, any number of them, any page size and    *)
(* any malloc package: what the range list lets through, and that the      *)
(* errors it counts are the traces that failed.                            *)
(***************************************************************************)
EXTENDS TraceDriver, FiniteSetTheorems, SequenceTheorems, WellFoundedInduction, TLAPS

Extents == [lo : Int, hi : Int]

Graded == {"util_init", "util", "speed_init", "speed"}
Working == {"valid_init", "valid"} \cup Graded

(* The part of the types that the arguments need.  Requests are read from  *)
(* the trace only while op is at most num_ops, which read_trace has        *)
(* compared with the number of requests.                                   *)
Types ==
  /\ files \in [1..num_tracefiles -> Files]
  /\ pass \in {"libc", "read", "exit", "done"} \cup Working
  /\ num \in 1..(num_tracefiles + 1) /\ op \in Nat \ {0}
  /\ pass = "libc" => num = 1
  /\ ranges \in Seq(Extents)
  /\ pass \in Working =>
       trace \in Files /\ Len(trace.ops) = trace.num_ops /\ num <= num_tracefiles

IsStats ==
  /\ stats = [n \in 1..num_tracefiles |-> stats[n]]
  /\ \A n \in 1..num_tracefiles : "valid" \in DOMAIN stats[n]

(* The traces that eval_mm_valid has refused so far. *)
Failed == {n \in 1..(num - 1) : ~stats[n].valid}

(* The errors are counted as the traces fail, and only eval_mm_valid makes *)
(* a trace valid.                                                          *)
CountInv ==
  /\ errors = Cardinality(Failed)
  /\ pass # "exit" =>
       \A n \in num..num_tracefiles : stats[n].valid <=> n = num /\ pass \in Graded
  /\ pass = "done" => num = num_tracefiles + 1 /\ (perfindex = "index" <=> errors = 0)

DriverInv == Types /\ IsStats /\ CountInv /\ OverlapOnlyEngulfs

-----------------------------------------------------------------------------
(* The range list *)

Engulfs(list) ==
  \A i, j \in 1..Len(list) :
    i < j => \/ Disjoint(list[i], list[j])
             \/ list[i].lo < list[j].lo /\ list[j].hi < list[i].hi

(* A non-empty set of naturals has a least element. *)
LEMMA LeastNat ==
  ASSUME NEW T \in SUBSET Nat, T # {}
  PROVE  \E n \in T : \A m \in T : n <= m
  <1>1. PICK n \in T : \A m \in T : ~(<<m, n>> \in OpToRel(<, Nat))
    BY WFMin, NatLessThanWellFounded, Zenon
  <1>2. \A m \in T : ~(m < n)
    BY <1>1 DEF OpToRel
  <1>3. QED
    BY <1>2

(* remove_range takes out at most one record and keeps the order of the    *)
(* others.                                                                 *)
LEMMA RemoveKeeps ==
  ASSUME NEW list \in Seq(Extents), Engulfs(list), NEW lo
  PROVE  remove_range(list, lo) \in Seq(Extents) /\ Engulfs(remove_range(list, lo))
  <1> DEFINE found == {i \in 1..Len(list) : list[i].lo = lo}
             first == CHOOSE i \in found : \A j \in found : i <= j
             left == SubSeq(list, 1, first - 1) \o SubSeq(list, first + 1, Len(list))
  <1>1. CASE found = {}
    BY <1>1 DEF remove_range
  <1>2. CASE found # {}
    <2>1. \E i \in found : \A j \in found : i <= j
      <3>1. found \in SUBSET Nat
        OBVIOUS
      <3>2. QED
        BY <1>2, <3>1, LeastNat
    <2>2. first \in 1..Len(list)
      BY <2>1
    <2>3. remove_range(list, lo) = left
      BY <1>2 DEF remove_range
    <2> HIDE DEF first
    <2>4. /\ SubSeq(list, 1, first - 1) \in Seq(Extents) /\ Len(SubSeq(list, 1, first - 1)) = first - 1
          /\ SubSeq(list, first + 1, Len(list)) \in Seq(Extents)
          /\ Len(SubSeq(list, first + 1, Len(list))) = Len(list) - first
          /\ \A n \in 1..(first - 1) : SubSeq(list, 1, first - 1)[n] = list[n]
          /\ \A n \in 1..(Len(list) - first) : SubSeq(list, first + 1, Len(list))[n] = list[first + n]
      BY <2>2
    <2>5. /\ left \in Seq(Extents) /\ Len(left) = Len(list) - 1
          /\ \A n \in 1..Len(left) : left[n] = IF n < first THEN list[n] ELSE list[n + 1]
      <3> DEFINE a == SubSeq(list, 1, first - 1)
                 b == SubSeq(list, first + 1, Len(list))
      <3>1. /\ a \in Seq(Extents) /\ Len(a) = first - 1
            /\ b \in Seq(Extents) /\ Len(b) = Len(list) - first
            /\ \A n \in 1..(first - 1) : a[n] = list[n]
            /\ \A n \in 1..(Len(list) - first) : b[n] = list[first + n]
        BY <2>4
      <3> HIDE DEF a, b
      <3>2. /\ a \o b \in Seq(Extents) /\ Len(a \o b) = Len(a) + Len(b)
            /\ \A n \in 1..(Len(a) + Len(b)) : (a \o b)[n] = IF n <= Len(a) THEN a[n] ELSE b[n - Len(a)]
        BY <3>1, ConcatProperties, Zenon
      <3>3. Len(list) \in Nat /\ first \in Int
        BY <2>2
      <3>4. ASSUME NEW n \in 1..(Len(list) - 1)
            PROVE  (a \o b)[n] = IF n < first THEN list[n] ELSE list[n + 1]
        <4>1. CASE n < first
          BY <2>2, <3>1, <3>2, <3>3, <4>1
        <4>2. CASE ~(n < first)
          <5>1. n - (first - 1) \in 1..(Len(list) - first) /\ first + (n - (first - 1)) = n + 1
            BY <2>2, <3>3, <4>2
          <5>2. b[n - (first - 1)] = list[n + 1]
            BY <3>1, <5>1
          <5>3. QED
            BY <2>2, <3>1, <3>2, <3>3, <4>2, <5>2
        <4>3. QED
          BY <4>1, <4>2
      <3>5. Len(a \o b) = Len(list) - 1
        BY <3>1, <3>2, <3>3
      <3>6. left = a \o b
        BY DEF a, b
      <3>7. QED
        BY <3>2, <3>4, <3>5, <3>6
    <2> HIDE DEF left
    <2>6. Engulfs(left)
      <3> SUFFICES ASSUME NEW i \in 1..Len(left), NEW j \in 1..Len(left), i < j
                   PROVE  \/ Disjoint(left[i], left[j])
                          \/ left[i].lo < left[j].lo /\ left[j].hi < left[i].hi
        BY DEF Engulfs
      <3> DEFINE at(n) == IF n < first THEN n ELSE n + 1
      <3>1. Len(list) \in Nat /\ at(i) \in 1..Len(list) /\ at(j) \in 1..Len(list) /\ at(i) < at(j)
        BY <2>2, <2>5
      <3>2. left[i] = list[at(i)] /\ left[j] = list[at(j)]
        BY <2>5
      <3> HIDE DEF at
      <3>3. QED
        BY <3>1, <3>2 DEF Engulfs
    <2>7. QED
      BY <2>3, <2>5, <2>6
  <1>3. QED
    BY <1>1, <1>2

(* A payload that add_range accepts is disjoint from every record or       *)
(* strictly contains it: the test looks at the payload's two ends only.    *)
LEMMA AddKeeps ==
  ASSUME NEW list \in Seq(Extents), Engulfs(list), NEW lo \in Int, NEW size \in Int,
         NEW page, NEW pages, Accepts(list, lo, size, page, pages)
  PROVE  add_range(list, lo, size) \in Seq(Extents) /\ Engulfs(add_range(list, lo, size))
  <1> DEFINE new == [lo |-> lo, hi |-> lo + size - 1]
             longer == <<new>> \o list
  <1>1. new \in Extents /\ new.lo = lo /\ new.hi = lo + size - 1
    BY DEF Extents
  <1> HIDE DEF new
  <1>2. /\ longer \in Seq(Extents) /\ Len(longer) = Len(list) + 1 /\ longer[1] = new
        /\ \A n \in 2..Len(longer) : longer[n] = list[n - 1]
    BY <1>1
  <1>3. \A n \in 1..Len(list) : list[n].lo \in Int /\ list[n].hi \in Int
    <2>1. \A n \in 1..Len(list) : list[n] \in Extents
      OBVIOUS
    <2>2. QED
      BY <2>1 DEF Extents
  <1>4. \A n \in 1..Len(list) : Disjoint(new, list[n]) \/ (new.lo < list[n].lo /\ list[n].hi < new.hi)
    BY <1>1, <1>3, SMTT(30) DEF Accepts, Hits, Disjoint
  <1> HIDE DEF longer
  <1>5. Engulfs(longer)
    <2> SUFFICES ASSUME NEW i \in 1..Len(longer), NEW j \in 1..Len(longer), i < j
                 PROVE  \/ Disjoint(longer[i], longer[j])
                        \/ longer[i].lo < longer[j].lo /\ longer[j].hi < longer[i].hi
      BY DEF Engulfs
    <2>1. Len(list) \in Nat /\ j \in 2..Len(longer) /\ j - 1 \in 1..Len(list)
      BY <1>2
    <2>2. CASE i = 1
      BY <1>2, <1>4, <2>1, <2>2
    <2>3. CASE i # 1
      <3>1. i \in 2..Len(longer) /\ i - 1 \in 1..Len(list) /\ i - 1 < j - 1
        BY <1>2, <2>1, <2>3
      <3>2. longer[i] = list[i - 1] /\ longer[j] = list[j - 1]
        BY <1>2, <2>1, <3>1
      <3>3. QED
        BY <2>1, <3>1, <3>2 DEF Engulfs
    <2>4. QED
      BY <2>2, <2>3
  <1>6. QED
    BY <1>2, <1>5 DEF add_range, new, longer

-----------------------------------------------------------------------------
(* The count of errors *)

(* A trace that read_trace accepts has as many requests as it says. *)
LEMMA TraceType ==
  ASSUME NEW f \in Files, read_trace(f) # NULL
  PROVE  read_trace(f) = f /\ Len(f.ops) = f.num_ops
  BY DEF read_trace

(* The traces that failed can be counted. *)
LEMMA FailedFinite == ASSUME Types PROVE IsFiniteSet(Failed) /\ Cardinality(Failed) \in Nat
  <1>1. IsFiniteSet(1..(num - 1))
    BY FS_Interval, BoundsAssumption DEF Types
  <1>2. IsFiniteSet(Failed)
    BY <1>1, FS_Subset DEF Failed
  <1>3. QED
    BY <1>2, FS_CardinalityType

(* A trace that eval_mm_valid refuses is counted once. *)
LEMMA InvalidCounts ==
  ASSUME Types, IsStats, CountInv, pass \in {"valid_init", "valid"},
         num' = num + 1, pass' = "read", errors' = errors + 1, stats' = stats
  PROVE  CountInv' /\ num' \in 1..(num_tracefiles + 1)
  <1>1. num \in 1..num_tracefiles /\ num_tracefiles \in Nat /\ pass \in Working
    BY BoundsAssumption DEF Types, Working
  <1>2. ~stats[num].valid
    BY <1>1 DEF CountInv, Graded
  <1>3. Failed' = Failed \cup {num} /\ num \notin Failed
    BY <1>1, <1>2 DEF Failed
  <1>4. Cardinality(Failed') = Cardinality(Failed) + 1
    BY <1>3, FailedFinite, FS_AddElement
  <1>5. \A n \in num'..num_tracefiles : ~stats'[n].valid
    BY <1>1 DEF CountInv
  <1>6. QED
    BY <1>1, <1>4, <1>5 DEF CountInv, Graded

(* A trace that went through all its passes is not. *)
LEMMA ValidCounts ==
  ASSUME Types, IsStats, CountInv, pass \in Graded,
         num' = num + 1, pass' = "read", errors' = errors, stats' = stats
  PROVE  CountInv' /\ num' \in 1..(num_tracefiles + 1)
  <1>1. num \in 1..num_tracefiles /\ num_tracefiles \in Nat
    BY BoundsAssumption DEF Types, Working
  <1>2. stats[num].valid /\ pass # "exit"
    BY <1>1 DEF CountInv, Graded
  <1>3. Failed' = Failed
    BY <1>1, <1>2 DEF Failed
  <1>4. \A n \in num'..num_tracefiles : ~stats'[n].valid
    BY <1>1, <1>2 DEF CountInv
  <1>5. QED
    BY <1>1, <1>3, <1>4 DEF CountInv, Graded

(* Within a trace, as long as the driver does not move from a pass that    *)
(* makes no trace valid to one that follows it.                            *)
LEMMA SameCount ==
  ASSUME CountInv, UNCHANGED <<num, errors, stats>>,
         pass' = "exit" \/ (pass # "exit" /\ pass' # "done" /\ (pass \in Graded <=> pass' \in Graded))
  PROVE  CountInv'
  <1>1. Failed' = Failed
    BY DEF Failed
  <1>2. QED
    BY <1>1 DEF CountInv

(* mm_init, in each of the three passes. *)
LEMMA InitPackageStep == ASSUME DriverInv, InitPackage PROVE DriverInv'
  <1>1. UNCHANGED <<input, ranges, stats>> /\ Types /\ IsStats /\ CountInv
    BY DEF InitPackage, DriverInv
  <1>2. IsStats' /\ OverlapOnlyEngulfs'
    BY <1>1 DEF DriverInv, IsStats, OverlapOnlyEngulfs
  <1>3. CASE Invalid /\ pass = "valid_init"
    <2>1. /\ num' = num + 1 /\ pass' = "read" /\ errors' = errors + 1 /\ op' = op
      BY <1>3 DEF Invalid, NextTrace
    <2>2. CountInv' /\ num' \in 1..(num_tracefiles + 1)
      BY <1>1, <1>3, <2>1, InvalidCounts
    <2>3. Types'
      BY <1>1, <2>1, <2>2 DEF Types, Working, Graded, input
    <2>4. QED
      BY <1>2, <2>1, <2>2, <2>3 DEF DriverInv
  <1>4. CASE /\ UNCHANGED <<num, op, trace, blocks, mapped, errors>> /\ pass \in Working
             /\ \/ pass' = "exit"
                \/ pass' \in {"valid", "util", "speed"} /\ (pass \in Graded <=> pass' \in Graded)
    <2>1. Types' /\ CountInv'
      BY <1>1, <1>4, SameCount DEF Types, Working, Graded, input
    <2>2. QED
      BY <1>2, <2>1 DEF DriverInv
  <1>5. QED
    BY <1>3, <1>4 DEF InitPackage, mm_init, Working, Graded

(* The request that is replayed is one of the trace. *)
LEMMA RequestType ==
  ASSUME Types, pass \in Working, op <= trace.num_ops PROVE Request \in Requests
  <1>1. trace.ops \in Seq(Requests) /\ op \in 1..Len(trace.ops)
    BY FilesAssumption DEF Types
  <1>2. QED
    BY <1>1 DEF Request

(* A malloc or realloc of eval_mm_valid, whatever the package answers. *)
LEMMA ValidAllocStep == ASSUME DriverInv, ValidAlloc PROVE DriverInv'
  <1>1. /\ pass = "valid" /\ op <= trace.num_ops /\ UNCHANGED <<input, stats>>
        /\ Types /\ IsStats /\ CountInv /\ Engulfs(ranges) /\ ranges \in Seq(Extents)
    BY DEF ValidAlloc, DriverInv, Types, OverlapOnlyEngulfs, Engulfs
  <1> DEFINE known == IF Request.type = "REALLOC" THEN remove_range(ranges, Old.ptr) ELSE ranges
  <1>2. known \in Seq(Extents) /\ Engulfs(known)
    BY <1>1, RemoveKeeps
  <1> HIDE DEF known
  <1>3. PICK r \in mm_malloc(Request.size) :
           IF r.ptr = NULL
           THEN Invalid /\ UNCHANGED ranges
           ELSE IF Aborts(Request.size)
           THEN pass' = "exit" /\ ranges' = known /\ UNCHANGED <<num, op, trace, errors>>
           ELSE IF Accepts(known, r.ptr, Request.size, PageSize, r.mapped)
           THEN /\ ranges' = add_range(known, r.ptr, Request.size)
                /\ op' = op + 1
                /\ UNCHANGED <<num, trace, errors, pass>>
           ELSE errors' = errors + 1 /\ NextTrace /\ ranges' = known /\ UNCHANGED op
    BY DEF ValidAlloc, known
  <1>4. IsStats'
    BY <1>1 DEF IsStats
  <1>5. CASE errors' = errors + 1 /\ NextTrace /\ op' = op /\ (ranges' = ranges \/ ranges' = known)
    <2>1. num' = num + 1 /\ pass' = "read"
      BY <1>5 DEF NextTrace
    <2>2. CountInv' /\ num' \in 1..(num_tracefiles + 1)
      BY <1>1, <1>5, <2>1, InvalidCounts
    <2>3. Types'
      BY <1>1, <1>2, <1>5, <2>1, <2>2 DEF Types, Working, Graded, input
    <2>4. OverlapOnlyEngulfs'
      BY <1>1, <1>2, <1>5 DEF OverlapOnlyEngulfs, Engulfs
    <2>5. QED
      BY <1>4, <2>1, <2>2, <2>3, <2>4 DEF DriverInv
  <1>6. CASE /\ r.ptr # NULL /\ Accepts(known, r.ptr, Request.size, PageSize, r.mapped)
             /\ ranges' = add_range(known, r.ptr, Request.size) /\ op' = op + 1
             /\ UNCHANGED <<num, trace, errors, pass>>
    <2>1. Request.size \in Int
      BY <1>1, RequestType DEF Working, Requests
    <2>2. r.ptr \in Int
      <3>1. r.ptr = NULL \/ r.ptr \in Addrs
        BY DEF mm_malloc
      <3>2. r.ptr \in Addrs
        BY <1>6, <3>1, Zenon
      <3>3. \A a \in Addrs : a \in Int
        BY BoundsAssumption
      <3>4. QED
        BY <3>2, <3>3, Zenon
    <2>3. ranges' \in Seq(Extents) /\ Engulfs(ranges')
      BY <1>2, <1>6, <2>1, <2>2, AddKeeps
    <2>4. OverlapOnlyEngulfs'
      BY <2>3 DEF OverlapOnlyEngulfs, Engulfs
    <2>5. Types'
      BY <1>1, <1>6, <2>3 DEF Types, input
    <2>6. CountInv'
      BY <1>1, <1>6, SameCount
    <2>7. QED
      BY <1>4, <2>4, <2>5, <2>6 DEF DriverInv
  <1>7. CASE pass' = "exit" /\ ranges' = known /\ UNCHANGED <<num, op, trace, errors>>
    <2>1. Types' /\ CountInv'
      BY <1>1, <1>2, <1>7, SameCount DEF Types, Working, Graded, input
    <2>2. OverlapOnlyEngulfs'
      BY <1>2, <1>7 DEF OverlapOnlyEngulfs, Engulfs
    <2>3. QED
      BY <1>4, <2>1, <2>2 DEF DriverInv
  <1>8. QED
    BY <1>3, <1>5, <1>6, <1>7 DEF Invalid

(* A free of eval_mm_valid. *)
LEMMA ValidFreeStep == ASSUME DriverInv, ValidFree PROVE DriverInv'
  <1>1. /\ pass = "valid" /\ op <= trace.num_ops /\ op' = op + 1
        /\ ranges' = remove_range(ranges, Old.ptr)
        /\ UNCHANGED <<input, pass, num, trace, stats, errors>>
        /\ Types /\ IsStats /\ CountInv /\ Engulfs(ranges) /\ ranges \in Seq(Extents)
    BY DEF ValidFree, DriverInv, Types, OverlapOnlyEngulfs, Engulfs
  <1>2. ranges' \in Seq(Extents) /\ Engulfs(ranges')
    BY <1>1, RemoveKeeps
  <1>3. OverlapOnlyEngulfs' /\ IsStats'
    BY <1>1, <1>2 DEF OverlapOnlyEngulfs, Engulfs, IsStats
  <1>4. Types'
    BY <1>1, <1>2 DEF Types, input
  <1>5. CountInv'
    BY <1>1, SameCount
  <1>6. QED
    BY <1>3, <1>4, <1>5 DEF DriverInv

(* eval_mm_valid returns 1: this makes the trace valid. *)
LEMMA ValidEndStep == ASSUME DriverInv, ValidEnd PROVE DriverInv'
  <1>1. /\ pass = "valid" /\ mapped' = {} /\ pass' = "util_init" /\ op' = 1
        /\ stats' = [stats EXCEPT ![num].valid = TRUE]
        /\ UNCHANGED <<input, num, trace, ranges, errors>>
        /\ Types /\ IsStats /\ CountInv
    BY DEF ValidEnd, DriverInv
  <1>2. num \in 1..num_tracefiles /\ num_tracefiles \in Nat
    BY <1>1, BoundsAssumption DEF Types, Working
  <1>3. /\ "valid" \in DOMAIN stats'[num] /\ stats'[num].valid = TRUE
        /\ \A n \in 1..num_tracefiles \ {num} : stats'[n] = stats[n]
        /\ stats' = [n \in 1..num_tracefiles |-> stats'[n]]
    <2>1. stats = [n \in 1..num_tracefiles |-> stats[n]] /\ "valid" \in DOMAIN stats[num]
      BY <1>1, <1>2 DEF IsStats
    <2>2. /\ stats'[num] = [stats[num] EXCEPT !.valid = TRUE]
          /\ \A n \in 1..num_tracefiles \ {num} : stats'[n] = stats[n]
          /\ stats' = [n \in 1..num_tracefiles |-> stats'[n]]
      BY <1>1, <1>2, <2>1
    <2>3. QED
      BY <2>1, <2>2
  <1>4. IsStats'
    BY <1>1, <1>2, <1>3 DEF IsStats
  <1>5. Failed' = Failed
    BY <1>1, <1>2, <1>3 DEF Failed
  <1>6. CountInv'
    BY <1>1, <1>2, <1>3, <1>5 DEF CountInv, Graded
  <1>7. Types' /\ OverlapOnlyEngulfs'
    BY <1>1 DEF DriverInv, Types, Working, Graded, input, OverlapOnlyEngulfs
  <1>8. QED
    BY <1>4, <1>6, <1>7 DEF DriverInv

(* eval_mm_util keeps its result, and what was valid stays so. *)
LEMMA UtilEndStep == ASSUME DriverInv, UtilEnd PROVE DriverInv'
  <1> DEFINE result == <<max_total_size, max_heap_size>>
  <1>1. /\ pass = "util" /\ mapped' = {} /\ pass' = "speed_init" /\ op' = 1
        /\ stats' = [stats EXCEPT ![num].util = result]
        /\ UNCHANGED <<input, num, trace, ranges, errors>>
        /\ Types /\ IsStats /\ CountInv
    BY DEF UtilEnd, DriverInv
  <1> HIDE DEF result
  <1>2. num \in 1..num_tracefiles /\ num_tracefiles \in Nat
    BY <1>1, BoundsAssumption DEF Types, Working, Graded
  <1>3. /\ "valid" \in DOMAIN stats'[num] /\ stats'[num].valid = stats[num].valid
        /\ \A n \in 1..num_tracefiles \ {num} : stats'[n] = stats[n]
        /\ stats' = [n \in 1..num_tracefiles |-> stats'[n]]
    <2>1. stats = [n \in 1..num_tracefiles |-> stats[n]] /\ "valid" \in DOMAIN stats[num]
      BY <1>1, <1>2 DEF IsStats
    <2>2. /\ stats'[num] = [stats[num] EXCEPT !.util = result]
          /\ \A n \in 1..num_tracefiles \ {num} : stats'[n] = stats[n]
          /\ stats' = [n \in 1..num_tracefiles |-> stats'[n]]
      BY <1>1, <1>2, <2>1
    <2>3. QED
      BY <2>1, <2>2
  <1>4. IsStats'
    BY <1>1, <1>2, <1>3 DEF IsStats
  <1>5. Failed' = Failed
    BY <1>1, <1>2, <1>3 DEF Failed
  <1>6. CountInv'
    BY <1>1, <1>2, <1>3, <1>5 DEF CountInv, Graded
  <1>7. Types' /\ OverlapOnlyEngulfs'
    BY <1>1 DEF DriverInv, Types, Working, Graded, input, OverlapOnlyEngulfs
  <1>8. QED
    BY <1>4, <1>6, <1>7 DEF DriverInv

(* The other steps. *)
LEMMA OtherSteps ==
  ASSUME DriverInv,
         Libc \/ StartTrace \/ UtilOp \/ SpeedOp \/ SpeedEnd \/ PackageFails \/ Summary
  PROVE  DriverInv'
  <1>1. Types /\ IsStats /\ CountInv /\ OverlapOnlyEngulfs /\ num_tracefiles \in Nat
    BY BoundsAssumption DEF DriverInv
  <1>2. stats' = stats /\ IsStats'
    BY <1>1 DEF IsStats, Libc, StartTrace, UtilOp, SpeedOp, SpeedEnd, PackageFails, Summary
  <1>3. CASE Libc \/ UtilOp \/ SpeedOp \/ PackageFails
    <2>1. UNCHANGED <<input, num, trace, ranges, stats, errors>>
      BY <1>3 DEF Libc, UtilOp, SpeedOp, PackageFails
    <2>2. \/ pass = "libc" /\ pass' \in {"read", "exit"} /\ op' = op
          \/ pass \in {"util", "speed"} /\ pass' = pass /\ op' = op + 1
          \/ pass \in {"util", "speed"} /\ pass' = "exit" /\ op' = op
      BY <1>3 DEF Libc, UtilOp, SpeedOp, PackageFails, Replay
    <2>3. CountInv'
      BY <1>1, <2>1, <2>2, SameCount DEF Graded
    <2>4. Types' /\ OverlapOnlyEngulfs'
      BY <1>1, <2>1, <2>2 DEF Types, Working, Graded, input, OverlapOnlyEngulfs
    <2>5. QED
      BY <1>2, <2>3, <2>4 DEF DriverInv
  <1>4. CASE StartTrace
    <2>1. /\ pass = "read" /\ num \in 1..num_tracefiles /\ UNCHANGED <<input, num, errors>>
          /\ trace' = read_trace(files[num]) /\ files[num] \in Files
      BY <1>1, <1>4 DEF StartTrace, Types
    <2>2. \/ pass' = "exit" /\ ranges' = ranges /\ op' = op
          \/ trace' # NULL /\ pass' = "valid_init" /\ ranges' = <<>> /\ op' = 1
      BY <1>4 DEF StartTrace
    <2>3. pass' = "valid_init" => trace' \in Files /\ Len(trace'.ops) = trace'.num_ops
      BY <2>1, <2>2, TraceType
    <2>4. CountInv'
      BY <1>1, <1>2, <2>1, <2>2, SameCount DEF Graded
    <2>5. ranges' \in Seq(Extents) /\ OverlapOnlyEngulfs'
      <3>1. CASE ranges' = ranges
        BY <1>1, <3>1 DEF Types, OverlapOnlyEngulfs
      <3>2. CASE ranges' = <<>>
        <4>1. Len(ranges') = 0 /\ ranges' \in Seq(Extents)
          BY <3>2
        <4>2. QED
          BY <4>1 DEF OverlapOnlyEngulfs
      <3>3. QED
        BY <2>2, <3>1, <3>2
    <2>6. Types'
      BY <1>1, <2>1, <2>2, <2>3, <2>5 DEF Types, Working, Graded, input
    <2>7. QED
      BY <1>2, <2>4, <2>5, <2>6 DEF DriverInv
  <1>5. CASE SpeedEnd
    <2>1. /\ pass = "speed" /\ op' = 1 /\ mapped' = {} /\ UNCHANGED <<input, ranges, errors>>
          /\ \/ num' = num + 1 /\ pass' = "read"
             \/ num' = num /\ trace' = trace /\ pass' = "speed_init"
      BY <1>5 DEF SpeedEnd, NextTrace
    <2>2. CountInv' /\ num' \in 1..(num_tracefiles + 1)
      BY <1>1, <1>2, <2>1, SameCount, ValidCounts DEF Graded, Types
    <2>3. Types'
      BY <1>1, <2>1, <2>2 DEF Types, Working, Graded, input
    <2>4. QED
      BY <1>1, <1>2, <2>1, <2>2, <2>3 DEF DriverInv, OverlapOnlyEngulfs
  <1>6. CASE Summary
    <2>1. /\ pass = "read" /\ num = num_tracefiles + 1 /\ pass' = "done"
          /\ UNCHANGED <<input, num, op, trace, ranges, errors>>
          /\ perfindex' = IF errors = 0 THEN "index" ELSE "none"
      BY <1>1, <1>6 DEF Summary, Types
    <2>2. Failed' = Failed
      BY <1>2, <2>1 DEF Failed
    <2>3. CountInv'
      BY <1>1, <1>2, <2>1, <2>2 DEF CountInv, Graded
    <2>4. Types' /\ OverlapOnlyEngulfs'
      BY <1>1, <2>1 DEF Types, Working, Graded, input, OverlapOnlyEngulfs
    <2>5. QED
      BY <1>2, <2>3, <2>4 DEF DriverInv
  <1>7. QED
    BY <1>3, <1>4, <1>5, <1>6

(* The inductive invariant: the range list and the count of errors at      *)
(* every place of the driver, whatever the package does.                   *)
THEOREM DriverCorrect == Spec => []DriverInv
  <1>1. Init => DriverInv
    <2> SUFFICES ASSUME Init PROVE DriverInv
      OBVIOUS
    <2>1. num = 1 /\ op = 1 /\ ranges = <<>> /\ pass \in {"libc", "read"} /\ num_tracefiles \in Nat
      BY BoundsAssumption DEF Init
    <2>2. Types /\ OverlapOnlyEngulfs
      BY <2>1 DEF Init, Types, Working, Graded, OverlapOnlyEngulfs
    <2>3. \A n \in 1..num_tracefiles : stats[n] = [valid |-> FALSE, util |-> NULL]
      BY DEF Init, NoStats
    <2>4. IsStats
      <3>1. stats = [n \in 1..num_tracefiles |-> stats[n]]
        BY DEF Init
      <3>2. QED
        BY <2>3, <3>1 DEF IsStats
    <2>5. Failed = {} /\ Cardinality(Failed) = 0
      BY <2>1, FS_EmptySet DEF Failed
    <2>6. CountInv
      BY <2>1, <2>3, <2>5 DEF Init, CountInv, Graded
    <2>7. QED
      BY <2>2, <2>4, <2>6 DEF DriverInv
  <1>2. DriverInv /\ [Next]_vars => DriverInv'
    <2> SUFFICES ASSUME DriverInv, [Next]_vars PROVE DriverInv'
      OBVIOUS
    <2>1. CASE UNCHANGED vars
      BY <2>1 DEF DriverInv, Types, IsStats, CountInv, Failed, OverlapOnlyEngulfs,
                  vars, input
    <2>2. CASE Next
      BY <2>2, InitPackageStep, ValidAllocStep, ValidFreeStep, ValidEndStep, UtilEndStep, OtherSteps
         DEF Next
    <2>3. QED
      BY <2>1, <2>2
  <1>3. QED
    BY <1>1, <1>2, PTL DEF Spec

(* add_range's test lets a payload overlap a known one only if it strictly *)
(* contains it, for every package, page size and trace: remove_range never *)
(* breaks the order that this rests on.                                    *)
THEOREM OverlapCorrect == Spec => []OverlapOnlyEngulfs
  <1>1. DriverInv => OverlapOnlyEngulfs
    BY DEF DriverInv
  <1>2. QED
    BY <1>1, DriverCorrect, PTL

(* The error count that main ends with is the number of traces that were   *)
(* not valid, and the performance index is given exactly if there is none. *)
THEOREM ErrorsAgreeCorrect == Spec => []ErrorsAgree
  <1>1. DriverInv => ErrorsAgree
    <2> SUFFICES ASSUME DriverInv, pass = "done"
                 PROVE  LET failed == {n \in 1..num_tracefiles : ~stats[n].valid}
                        IN  errors = Cardinality(failed) /\ (perfindex = "index" <=> failed = {})
      BY DEF ErrorsAgree
    <2>1. num = num_tracefiles + 1 /\ errors = Cardinality(Failed) /\ (perfindex = "index" <=> errors = 0)
      BY DEF DriverInv, CountInv
    <2>2. {n \in 1..num_tracefiles : ~stats[n].valid} = Failed
      BY <2>1, BoundsAssumption DEF Failed
    <2>3. errors = 0 <=> Failed = {}
      BY <2>1, FailedFinite, FS_EmptySet DEF DriverInv
    <2>4. QED
      BY <2>1, <2>2, <2>3
  <1>2. QED
    BY <1>1, DriverCorrect, PTL

-----------------------------------------------------------------------------
(* The bytes in use *)

LEMMA MaxIs ==
  ASSUME NEW S \in SUBSET Int, NEW m \in S, \A x \in S : x <= m
  PROVE  Max(S) = m
  <1>1. \E x \in S : \A y \in S : x >= y
    OBVIOUS
  <1>2. Max(S) \in S /\ \A y \in S : Max(S) >= y
    BY <1>1 DEF Max
  <1>3. Max(S) \in Int /\ m \in Int /\ Max(S) <= m /\ Max(S) >= m
    BY <1>2
  <1> HIDE DEF Max
  <1>4. QED
    BY <1>3

(* The indices that read_trace compares with num_ids. *)
Indices(ops, k) == {0} \cup {ops[n].index : n \in {m \in 1..k : ops[m].type # "FREE"}}

LEMMA IndicesMax ==
  ASSUME NEW ops \in Seq(Requests), NEW k \in 0..Len(ops)
  PROVE  \E x \in Indices(ops, k) : \A y \in Indices(ops, k) : y <= x
  <1> DEFINE HasMax(n) == \E x \in Indices(ops, n) : \A y \in Indices(ops, n) : y <= x
             T == {n \in 0..Len(ops) : ~HasMax(n)}
  <1>1. T = {}
    <2> SUFFICES ASSUME T # {} PROVE FALSE
      OBVIOUS
    <2>1. PICK n \in T : \A m \in T : n <= m
      <3>1. T \in SUBSET Nat
        OBVIOUS
      <3> HIDE DEF T
      <3>2. QED
        BY <3>1, LeastNat
    <2>2. HasMax(0)
      BY DEF Indices
    <2> HIDE DEF HasMax
    <2>3. n \in 1..Len(ops) /\ HasMax(n - 1)
      BY <2>1, <2>2
    <2>4. \A r \in Requests : r.index \in Nat
      BY DEF Requests
    <2>5. \A m \in 1..Len(ops) : ops[m].index \in Nat
      BY <2>4
    <2>6. Indices(ops, n) = Indices(ops, n - 1) \cup (IF ops[n].type = "FREE" THEN {} ELSE {ops[n].index})
      <3>1. \A m : m \in 1..n <=> m \in 1..(n - 1) \/ m = n
        BY <2>3
      <3>2. QED
        BY <3>1 DEF Indices
    <2>7. PICK x \in Indices(ops, n - 1) : \A y \in Indices(ops, n - 1) : y <= x
      BY <2>3 DEF HasMax
    <2>8. Indices(ops, n - 1) \subseteq Nat
      BY <2>3, <2>5 DEF Indices
    <2>9. HasMax(n)
      <3>1. CASE ops[n].type = "FREE" \/ ops[n].index <= x
        <4>1. x \in Indices(ops, n) /\ \A y \in Indices(ops, n) : y <= x
          BY <3>1, <2>6, <2>7
        <4>2. QED
          BY <4>1 DEF HasMax
      <3>2. CASE ops[n].type # "FREE" /\ ops[n].index > x
        <4>1. ops[n].index \in Indices(ops, n) /\ \A y \in Indices(ops, n) : y <= ops[n].index
          BY <3>2, <2>3, <2>5, <2>6, <2>7, <2>8
        <4>2. QED
          BY <4>1 DEF HasMax
      <3>3. QED
        BY <3>1, <3>2, <2>3, <2>5, <2>7, <2>8
    <2>10. QED
      BY <2>9
  <1>2. QED
    BY <1>1

(* A trace that read_trace accepts names no block beyond num_ids. *)
LEMMA TraceIndexed ==
  ASSUME NEW f \in Files, read_trace(f) # NULL, NEW n \in 1..Len(f.ops), f.ops[n].type # "FREE"
  PROVE  f.ops[n].index < f.num_ids
  <1>1. f.ops \in Seq(Requests) /\ f.num_ids \in Nat /\ DOMAIN f.ops = 1..Len(f.ops) /\ Len(f.ops) \in Nat
    BY FilesAssumption
  <1>2. Max(Indices(f.ops, Len(f.ops))) = f.num_ids - 1
    BY <1>1 DEF read_trace, Indices
  <1>3. PICK x \in Indices(f.ops, Len(f.ops)) : \A y \in Indices(f.ops, Len(f.ops)) : y <= x
    BY <1>1, IndicesMax
  <1>4. Indices(f.ops, Len(f.ops)) \in SUBSET Int
    <2>1. \A r \in Requests : r.index \in Nat
      BY DEF Requests
    <2>2. \A m \in 1..Len(f.ops) : f.ops[m].index \in Nat
      BY <1>1, <2>1
    <2>3. QED
      BY <2>2 DEF Indices
  <1>5. x = f.num_ids - 1
    BY <1>2, <1>3, <1>4, MaxIs
  <1>6. f.ops[n].index \in Indices(f.ops, Len(f.ops))
    BY DEF Indices
  <1>7. QED
    BY <1>1, <1>3, <1>4, <1>5, <1>6

LEMMA LastStep ==
  ASSUME NEW ops, NEW n \in Nat \ {0}, NEW i
  PROVE  /\ Last(ops, 0, i) = 0
         /\ Last(ops, n, i) = IF ops[n].index = i THEN n ELSE Last(ops, n - 1, i)
  <1> DEFINE at(k) == {m \in 1..k : ops[m].index = i}
  <1>1. \A k : Last(ops, k, i) = IF at(k) = {} THEN 0 ELSE Max(at(k))
    BY DEF Last
  <1>2. at(0) = {}
    OBVIOUS
  <1>3. ops[n].index = i => n \in at(n) /\ \A x \in at(n) : x <= n
    OBVIOUS
  <1>4. at(n) \in SUBSET Int
    OBVIOUS
  <1>5. ops[n].index # i => at(n) = at(n - 1)
    <2>1. \A m : m \in 1..n <=> m \in 1..(n - 1) \/ m = n
      OBVIOUS
    <2>2. QED
      BY <2>1
  <1> HIDE DEF at
  <1>6. ops[n].index = i => Max(at(n)) = n /\ at(n) # {}
    BY <1>3, <1>4, MaxIs
  <1>7. QED
    BY <1>1, <1>2, <1>5, <1>6

LEMMA LastType ==
  ASSUME NEW ops, NEW n \in Nat, NEW i
  PROVE  Last(ops, n, i) \in 0..n /\ (Last(ops, n, i) # 0 => ops[Last(ops, n, i)].index = i)
  <1> DEFINE Good(k) == Last(ops, k, i) \in 0..k /\ (Last(ops, k, i) # 0 => ops[Last(ops, k, i)].index = i)
             T == {k \in Nat : ~Good(k)}
  <1>1. T = {}
    <2> SUFFICES ASSUME T # {} PROVE FALSE
      OBVIOUS
    <2>1. PICK k \in T : \A m \in T : k <= m
      <3>1. T \in SUBSET Nat
        OBVIOUS
      <3> HIDE DEF T
      <3>2. QED
        BY <3>1, LeastNat
    <2>2. Good(0)
      BY LastStep, 1 \in Nat \ {0}
    <2>3. k \in Nat \ {0} /\ k - 1 \in Nat /\ Good(k - 1)
      <3> HIDE DEF Good
      <3>1. QED
        BY <2>1, <2>2
    <2>4. Last(ops, k, i) = IF ops[k].index = i THEN k ELSE Last(ops, k - 1, i)
      BY <2>3, LastStep
    <2>5. Good(k)
      BY <2>3, <2>4
    <2>6. QED
      BY <2>5
  <1>2. QED
    BY <1>1

(* The sum of the sizes, as the function that SumTo defines. *)
SumRec(s, n, f) == f = [i \in 0..n |-> IF i = 0 THEN 0 ELSE f[i - 1] + s[i - 1]]

LEMMA SumRecExists ==
  ASSUME NEW s, NEW n \in Nat
  PROVE  \E f : SumRec(s, n, f)
  <1> DEFINE T == {k \in Nat : ~\E f : SumRec(s, k, f)}
  <1> SUFFICES ASSUME T # {} PROVE FALSE
    OBVIOUS
  <1>1. PICK m \in T : \A k \in T : m <= k
    <2>1. T \in SUBSET Nat
      OBVIOUS
    <2> HIDE DEF T
    <2>2. QED
      BY <2>1, LeastNat
  <1>2. m # 0
    <2>1. SumRec(s, 0, [i \in 0..0 |-> 0])
      BY DEF SumRec
    <2>2. QED
      BY <2>1
  <1>3. m - 1 \in Nat /\ m - 1 \notin T
    BY <1>1, <1>2
  <1>4. PICK f : SumRec(s, m - 1, f)
    BY <1>3
  <1> DEFINE g == [i \in 0..m |-> IF i = m THEN f[m - 1] + s[m - 1] ELSE f[i]]
             body(h, i) == IF i = 0 THEN 0 ELSE h[i - 1] + s[i - 1]
  <1>5. \A i \in 0..(m - 1) : f[i] = body(f, i)
    <2>1. f = [i \in 0..(m - 1) |-> body(f, i)]
      BY <1>4 DEF SumRec
    <2> HIDE DEF body
    <2>2. QED
      BY <2>1
  <1>6. ASSUME NEW i \in 0..m PROVE g[i] = body(g, i)
    <2>1. CASE i = m
      BY <2>1, <1>2
    <2>2. CASE i # m
      <3>1. /\ i \in 0..(m - 1) /\ g[i] = f[i]
            /\ i # 0 => i - 1 \in 0..m /\ i - 1 # m /\ g[i - 1] = f[i - 1]
        BY <2>2
      <3>2. f[i] = body(f, i)
        BY <3>1, <1>5
      <3> HIDE DEF g
      <3>3. QED
        BY <3>1, <3>2
    <2>3. QED
      BY <2>1, <2>2
  <1>7. g = [i \in 0..m |-> g[i]]
    OBVIOUS
  <1>8. g = [i \in 0..m |-> body(g, i)]
    <2> HIDE DEF g, body
    <2>1. QED
      BY <1>6, <1>7
  <1>9. SumRec(s, m, g)
    <2> HIDE DEF g
    <2>1. QED
      BY <1>8 DEF SumRec
  <1>10. QED
    BY <1>9

LEMMA SumIs ==
  ASSUME NEW s, NEW n \in Nat
  PROVE  \E f : SumTo(s, n) = f[n] /\ f[0] = 0 /\ \A i \in 1..n : f[i] = f[i - 1] + s[i - 1]
  <1> DEFINE f == CHOOSE f : SumRec(s, n, f)
             body(i) == IF i = 0 THEN 0 ELSE f[i - 1] + s[i - 1]
  <1>1. SumRec(s, n, f)
    BY SumRecExists, Zenon
  <1>2. SumTo(s, n) = f[n]
    BY Zenon DEF SumTo, SumRec
  <1> HIDE DEF f
  <1>3. f = [i \in 0..n |-> body(i)]
    BY <1>1 DEF SumRec
  <1> HIDE DEF body
  <1>4. \A i \in 0..n : f[i] = body(i)
    BY <1>3
  <1>5. f[0] = 0 /\ \A i \in 1..n : f[i] = f[i - 1] + s[i - 1]
    BY <1>4 DEF body
  <1>6. QED
    BY <1>2, <1>5

(* One size that changes changes the sum by as much. *)
LEMMA SumChange ==
  ASSUME NEW ids \in Nat, NEW s \in [0..(ids - 1) -> Int], NEW t \in [0..(ids - 1) -> Int],
         NEW j \in 0..(ids - 1), \A i \in 0..(ids - 1) : i # j => t[i] = s[i]
  PROVE  SumTo(s, ids) \in Int /\ SumTo(t, ids) = SumTo(s, ids) + (t[j] - s[j])
  <1>1. PICK f : SumTo(s, ids) = f[ids] /\ f[0] = 0 /\ \A i \in 1..ids : f[i] = f[i - 1] + s[i - 1]
    BY SumIs
  <1>2. PICK g : SumTo(t, ids) = g[ids] /\ g[0] = 0 /\ \A i \in 1..ids : g[i] = g[i - 1] + t[i - 1]
    BY SumIs
  <1> DEFINE Good(k) == f[k] \in Int /\ g[k] = f[k] + (IF k > j THEN t[j] - s[j] ELSE 0)
             T == {k \in 0..ids : ~Good(k)}
  <1>3. t[j] \in Int /\ s[j] \in Int
    OBVIOUS
  <1>4. T = {}
    <2> SUFFICES ASSUME T # {} PROVE FALSE
      OBVIOUS
    <2>1. PICK k \in T : \A m \in T : k <= m
      <3>1. T \in SUBSET Nat
        OBVIOUS
      <3> HIDE DEF T
      <3>2. QED
        BY <3>1, LeastNat
    <2>2. Good(0)
      BY <1>1, <1>2
    <2>3. k \in 1..ids /\ k - 1 \in 0..ids /\ k - 1 \in 0..(ids - 1) /\ Good(k - 1)
      <3> HIDE DEF Good
      <3>1. QED
        BY <2>1, <2>2
    <2>4. f[k] = f[k - 1] + s[k - 1] /\ g[k] = g[k - 1] + t[k - 1]
      BY <1>1, <1>2, <2>3
    <2>5. s[k - 1] \in Int /\ t[k - 1] \in Int /\ (k - 1 # j => t[k - 1] = s[k - 1])
      BY <2>3
    <2>6. Good(k)
      <3>1. CASE k - 1 = j
        BY <3>1, <2>3, <2>4, <2>5, SMTT(30)
      <3>2. CASE k - 1 # j
        BY <3>2, <2>3, <2>4, <2>5, <1>3, SMTT(30)
      <3>3. QED
        BY <3>1, <3>2
    <2>7. QED
      BY <2>6
  <1>5. Good(ids)
    BY <1>4
  <1>6. QED
    BY <1>1, <1>2, <1>5

LEMMA SumZero ==
  ASSUME NEW ids \in Nat, NEW s, \A i \in 0..(ids - 1) : s[i] = 0
  PROVE  SumTo(s, ids) = 0
  <1>1. PICK f : SumTo(s, ids) = f[ids] /\ f[0] = 0 /\ \A i \in 1..ids : f[i] = f[i - 1] + s[i - 1]
    BY SumIs
  <1> DEFINE T == {k \in 0..ids : f[k] # 0}
  <1>2. T = {}
    <2> SUFFICES ASSUME T # {} PROVE FALSE
      OBVIOUS
    <2>1. PICK k \in T : \A m \in T : k <= m
      <3>1. T \in SUBSET Nat
        OBVIOUS
      <3> HIDE DEF T
      <3>2. QED
        BY <3>1, LeastNat
    <2>2. k \in 1..ids /\ k - 1 \in 0..(ids - 1) /\ f[k - 1] = 0
      BY <1>1, <2>1
    <2>3. f[k] = 0
      BY <1>1, <2>2
    <2>4. QED
      BY <2>3
  <1>3. QED
    BY <1>1, <1>2

-----------------------------------------------------------------------------
(* eval_mm_util *)

(* While a trace is worked on, blocks has an entry for each of its ids. *)
BlocksInv ==
  pass \in Working =>
    /\ blocks = [i \in 0..(trace.num_ids - 1) |-> blocks[i]]
    /\ \A n \in 1..Len(trace.ops) : trace.ops[n].type # "FREE" => trace.ops[n].index < trace.num_ids

(* block_sizes holds the sizes of the blocks in use, total_size their sum, *)
(* and max_total_size the largest sum so far.                              *)
TotalInv ==
  /\ pass = "util_init" => op = 1 /\ total_size = 0 /\ max_total_size = 0
  /\ pass = "util" =>
       /\ op <= trace.num_ops + 1
       /\ \A i \in 0..(trace.num_ids - 1) :
            Live(trace.ops, op - 1, i) => blocks[i].size = trace.ops[Last(trace.ops, op - 1, i)].size
       /\ total_size = InUse(op - 1)
       /\ \E n \in 0..(op - 1) : max_total_size = InUse(n)
       /\ \A n \in 0..(op - 1) : InUse(n) <= max_total_size

UtilInv == BlocksInv /\ TotalInv

(* The trace that is worked on. *)
LEMMA OpsType ==
  ASSUME Types, pass \in Working
  PROVE  /\ trace.ops \in Seq(Requests) /\ trace.num_ids \in Nat /\ trace.num_ops = Len(trace.ops)
         /\ \A n \in 1..Len(trace.ops) : trace.ops[n].index \in Nat /\ trace.ops[n].size \in Nat
         /\ \A n \in 1..Len(trace.ops) :
              Live(trace.ops, n - 1, trace.ops[n].index) <=> trace.ops[n].type # "ALLOC"
  <1>1. /\ trace \in Files /\ trace.ops \in Seq(Requests) /\ trace.num_ids \in Nat
        /\ trace.num_ops = Len(trace.ops)
    BY FilesAssumption DEF Types
  <1>2. \A r \in Requests : r.index \in Nat /\ r.size \in Nat
    BY DEF Requests
  <1>3. QED
    BY <1>1, <1>2, TracesAssumption

LEMMA SizesType ==
  ASSUME Types, pass \in Working, NEW n \in 0..Len(trace.ops)
  PROVE  Sizes(n) \in [0..(trace.num_ids - 1) -> Int]
  <1>1. ASSUME NEW i \in 0..(trace.num_ids - 1), Live(trace.ops, n, i)
        PROVE  trace.ops[Last(trace.ops, n, i)].size \in Int
    <2>1. Last(trace.ops, n, i) \in 1..Len(trace.ops)
      BY <1>1, LastType, OpsType DEF Live
    <2>2. QED
      BY <2>1, OpsType
  <1>2. QED
    BY <1>1 DEF Sizes

LEMMA InUseType ==
  ASSUME Types, pass \in Working, NEW n \in 0..Len(trace.ops)
  PROVE  InUse(n) \in Int
  <1>1. CASE trace.num_ids = 0
    <2>1. InUse(n) = 0
      BY <1>1, SumZero DEF InUse
    <2>2. QED
      BY <2>1
  <1>2. CASE trace.num_ids # 0
    <2>1. 0 \in 0..(trace.num_ids - 1) /\ trace.num_ids \in Nat
      BY <1>2, OpsType
    <2>2. PICK s \in [0..(trace.num_ids - 1) -> Int] : s = Sizes(n)
      BY SizesType
    <2>3. SumTo(s, trace.num_ids) \in Int
      BY <2>1, SumChange
    <2>4. QED
      BY <2>2, <2>3 DEF InUse
  <1>3. QED
    BY <1>1, <1>2

LEMMA InUseStart ==
  ASSUME Types, pass \in Working
  PROVE  InUse(0) = 0 /\ \A i : ~Live(trace.ops, 0, i)
  <1>1. \A i : ~Live(trace.ops, 0, i)
    BY LastStep, 1 \in Nat \ {0} DEF Live
  <1>2. \A i \in 0..(trace.num_ids - 1) : Sizes(0)[i] = 0
    BY <1>1 DEF Sizes
  <1>3. QED
    BY <1>1, <1>2, OpsType, SumZero DEF InUse

(* The block a request names has an entry. *)
LEMMA IndexInside ==
  ASSUME Types, BlocksInv, pass \in Working, NEW n \in 1..Len(trace.ops)
  PROVE  trace.ops[n].index \in 0..(trace.num_ids - 1)
  <1>1. trace.ops[n].index \in Nat /\ trace.num_ids \in Nat
    BY OpsType
  <1>2. CASE trace.ops[n].type # "FREE"
    BY <1>1, <1>2 DEF BlocksInv
  <1>3. CASE trace.ops[n].type = "FREE"
    <2>1. Live(trace.ops, n - 1, trace.ops[n].index)
      BY <1>3, OpsType
    <2>2. PICK m : m = Last(trace.ops, n - 1, trace.ops[n].index)
      OBVIOUS
    <2>3. m \in 1..Len(trace.ops) /\ trace.ops[m].index = trace.ops[n].index /\ trace.ops[m].type # "FREE"
      BY <2>1, <2>2, LastType, OpsType DEF Live
    <2>4. trace.ops[m].index < trace.num_ids
      BY <2>3 DEF BlocksInv
    <2>5. QED
      BY <1>1, <2>3, <2>4
  <1>4. QED
    BY <1>2, <1>3

(* What request n does to the sizes, by the trace's text. *)
LEMMA InUseStep ==
  ASSUME Types, BlocksInv, pass \in Working, NEW n \in 1..Len(trace.ops)
  PROVE  InUse(n) = InUse(n - 1) + (Sizes(n)[trace.ops[n].index] - Sizes(n - 1)[trace.ops[n].index])
  <1>1. n \in 0..Len(trace.ops) /\ n - 1 \in 0..Len(trace.ops) /\ n \in Nat \ {0} /\ trace.num_ids \in Nat
    BY OpsType
  <1>2. PICK j \in 0..(trace.num_ids - 1) : j = trace.ops[n].index
    BY IndexInside
  <1>3. PICK s \in [0..(trace.num_ids - 1) -> Int], t \in [0..(trace.num_ids - 1) -> Int] :
          s = Sizes(n - 1) /\ t = Sizes(n)
    BY <1>1, SizesType
  <1>4. ASSUME NEW i \in 0..(trace.num_ids - 1), i # j PROVE t[i] = s[i]
    <2>1. Last(trace.ops, n, i) = Last(trace.ops, n - 1, i)
      BY <1>1, <1>2, <1>4, LastStep
    <2>2. QED
      BY <1>3, <2>1 DEF Sizes, Live
  <1>5. SumTo(t, trace.num_ids) = SumTo(s, trace.num_ids) + (t[j] - s[j])
    BY <1>1, <1>4, SumChange
  <1>6. QED
    BY <1>2, <1>3, <1>5 DEF InUse

LEMMA GrowthIs ==
  ASSUME Types, UtilInv, pass = "util", op <= trace.num_ops
  PROVE  /\ Growth \in Int /\ InUse(op) = InUse(op - 1) + Growth
         /\ InUse(op) \in Int /\ InUse(op - 1) \in Int
  <1>1. /\ pass \in Working /\ op \in 1..Len(trace.ops) /\ op \in Nat \ {0} /\ BlocksInv
        /\ op \in 0..Len(trace.ops) /\ op - 1 \in 0..Len(trace.ops)
    <2>1. pass \in Working
      BY DEF Working, Graded
    <2>2. QED
      BY <2>1, OpsType DEF Types, UtilInv
  <1>2. PICK j \in 0..(trace.num_ids - 1) : j = Request.index
    BY <1>1, IndexInside DEF Request
  <1>3. Request \in Requests /\ Request = trace.ops[op] /\ Request.size \in Nat
    BY <1>1, RequestType, OpsType DEF Request
  <1>4. Last(trace.ops, op, j) = op
    BY <1>1, <1>2, <1>3, LastStep
  <1>5. Sizes(op)[j] = IF Request.type = "FREE" THEN 0 ELSE Request.size
    BY <1>1, <1>3, <1>4 DEF Sizes, Live
  <1>6. Live(trace.ops, op - 1, j) <=> Request.type # "ALLOC"
    BY <1>1, <1>2, <1>3, OpsType
  <1>7. Sizes(op - 1)[j] = IF Request.type = "ALLOC" THEN 0 ELSE Old.size
    <2>1. Live(trace.ops, op - 1, j) => Old.size = trace.ops[Last(trace.ops, op - 1, j)].size
      BY <1>2 DEF UtilInv, TotalInv, Old
    <2>2. QED
      BY <1>6, <2>1 DEF Sizes
  <1>8. Sizes(op)[j] \in Int /\ Sizes(op - 1)[j] \in Int
    BY <1>1, SizesType
  <1>9. Growth = Sizes(op)[j] - Sizes(op - 1)[j]
    <2>1. Request.type \in {"ALLOC", "REALLOC", "FREE"}
      BY <1>3 DEF Requests
    <2>2. CASE Request.type = "ALLOC"
      BY <2>2, <1>3, <1>5, <1>7 DEF Growth
    <2>3. CASE Request.type = "REALLOC"
      BY <2>3, <1>3, <1>5, <1>7 DEF Growth
    <2>4. CASE Request.type = "FREE"
      BY <2>4, <1>3, <1>5, <1>7 DEF Growth
    <2>5. QED
      BY <2>1, <2>2, <2>3, <2>4
  <1>10. InUse(op) = InUse(op - 1) + (Sizes(op)[j] - Sizes(op - 1)[j])
    BY <1>1, <1>2, <1>3, InUseStep
  <1>11. QED
    BY <1>1, <1>8, <1>9, <1>10, InUseType

(* The block a request stores or frees keeps the shape of blocks. *)
LEMMA StoreShape ==
  ASSUME Types, BlocksInv, pass \in Working, op <= trace.num_ops, NEW b,
         blocks' = [blocks EXCEPT ![Request.index] = b], UNCHANGED <<pass, trace>>
  PROVE  /\ BlocksInv' /\ blocks'[Request.index] = b
         /\ \A i \in 0..(trace.num_ids - 1) : i # Request.index => blocks'[i] = blocks[i]
  <1>1. op \in 1..Len(trace.ops)
    BY OpsType DEF Types
  <1>2. PICK j \in 0..(trace.num_ids - 1) : j = Request.index
    BY <1>1, IndexInside DEF Request
  <1>3. blocks = [i \in 0..(trace.num_ids - 1) |-> blocks[i]] /\ blocks' = [blocks EXCEPT ![j] = b]
    BY <1>2 DEF BlocksInv
  <1>4. /\ blocks' = [i \in 0..(trace.num_ids - 1) |-> blocks'[i]]
        /\ blocks'[j] = b /\ \A i \in 0..(trace.num_ids - 1) : i # j => blocks'[i] = blocks[i]
    BY <1>3
  <1>5. QED
    BY <1>2, <1>4 DEF BlocksInv

LEMMA ReplayStores ==
  ASSUME Replay
  PROVE  /\ op <= trace.num_ops /\ op' = op + 1
         /\ \E b : /\ blocks' = [blocks EXCEPT ![Request.index] = b]
                   /\ Request.type # "FREE" => b.size = Request.size
  <1>1. op <= trace.num_ops /\ op' = op + 1
    BY DEF Replay
  <1>2. CASE Request.type = "FREE"
    BY <1>1, <1>2 DEF Replay
  <1>3. CASE Request.type # "FREE"
    <2>1. PICK r : blocks' = Store(r)
      BY <1>3 DEF Replay
    <2>2. PICK b : b = [ptr |-> r, size |-> Request.size]
      OBVIOUS
    <2>3. b.size = Request.size /\ blocks' = [blocks EXCEPT ![Request.index] = b]
      BY <2>1, <2>2 DEF Store
    <2>4. QED
      BY <1>1, <2>3
  <1>4. QED
    BY <1>2, <1>3

LEMMA UtilOpStep ==
  ASSUME Types, UtilInv, UtilOp
  PROVE  UtilInv'
  <1>1. /\ pass = "util" /\ Replay /\ total_size' = total_size + Growth
        /\ max_total_size' = Max({max_total_size, total_size'}) /\ UNCHANGED <<pass, trace>>
    BY DEF UtilOp
  <1>2. /\ pass \in Working /\ op \in Nat \ {0} /\ BlocksInv /\ op <= trace.num_ops /\ op' = op + 1
        /\ op' - 1 = op /\ trace.num_ops = Len(trace.ops) /\ Len(trace.ops) \in Nat
    <2>1. pass \in Working
      BY <1>1 DEF Working, Graded
    <2>2. QED
      BY <1>1, <2>1, ReplayStores, OpsType DEF Types, UtilInv
  <1>3. PICK b : /\ blocks' = [blocks EXCEPT ![Request.index] = b]
                 /\ Request.type # "FREE" => b.size = Request.size
    BY <1>1, ReplayStores
  <1>4. /\ BlocksInv' /\ blocks'[Request.index] = b
        /\ \A i \in 0..(trace.num_ids - 1) : i # Request.index => blocks'[i] = blocks[i]
    BY <1>1, <1>2, <1>3, StoreShape
  <1>5. ASSUME NEW i \in 0..(trace.num_ids - 1), Live(trace.ops, op, i)
        PROVE  blocks'[i].size = trace.ops[Last(trace.ops, op, i)].size
    <2>1. Last(trace.ops, op, i) = IF Request.index = i THEN op ELSE Last(trace.ops, op - 1, i)
      BY <1>2, LastStep DEF Request
    <2>2. CASE Request.index = i
      <3>1. Last(trace.ops, op, i) = op /\ Request.type # "FREE"
        BY <1>5, <2>1, <2>2 DEF Live, Request
      <3>2. QED
        BY <1>3, <1>4, <2>2, <3>1 DEF Request
    <2>3. CASE Request.index # i
      <3>1. Last(trace.ops, op, i) = Last(trace.ops, op - 1, i)
        BY <2>1, <2>3
      <3>2. Live(trace.ops, op - 1, i)
        BY <1>5, <3>1 DEF Live
      <3>3. blocks[i].size = trace.ops[Last(trace.ops, op - 1, i)].size
        BY <1>1, <3>2 DEF UtilInv, TotalInv
      <3>4. QED
        BY <1>4, <2>3, <3>1, <3>3
    <2>4. QED
      BY <2>2, <2>3
  <1>6. \A n : InUse(n)' = InUse(n)
    BY <1>1 DEF InUse, Sizes
  <1>7. /\ total_size = InUse(op - 1)
        /\ \E n \in 0..(op - 1) : max_total_size = InUse(n)
        /\ \A n \in 0..(op - 1) : InUse(n) <= max_total_size
    BY <1>1 DEF UtilInv, TotalInv
  <1>8. total_size' = InUse(op)
    BY <1>1, <1>2, <1>7, GrowthIs
  <1>9. \A n \in 0..op : InUse(n) \in Int
    BY <1>2, InUseType
  <1>10. max_total_size \in Int /\ total_size' \in Int
    BY <1>2, <1>7, <1>8, <1>9
  <1>11. max_total_size' = IF max_total_size < total_size' THEN total_size' ELSE max_total_size
    <2>1. PICK S \in SUBSET Int : S = {max_total_size, total_size'}
      BY <1>10
    <2>2. CASE max_total_size < total_size'
      <3>1. Max(S) = total_size'
        BY <1>10, <2>1, <2>2, MaxIs
      <3>2. QED
        BY <1>1, <2>1, <2>2, <3>1
    <2>3. CASE ~(max_total_size < total_size')
      <3>1. Max(S) = max_total_size
        BY <1>10, <2>1, <2>3, MaxIs
      <3>2. QED
        BY <1>1, <2>1, <2>3, <3>1
    <2>4. QED
      BY <2>2, <2>3
  <1>12. \E n \in 0..op : max_total_size' = InUse(n)
    <2>1. PICK n \in 0..(op - 1) : max_total_size = InUse(n)
      BY <1>7
    <2>2. n \in 0..op /\ op \in 0..op
      BY <1>2
    <2>3. QED
      BY <1>8, <1>11, <2>1, <2>2
  <1>13. \A n \in 0..op : InUse(n) <= max_total_size'
    <2> SUFFICES ASSUME NEW n \in 0..op PROVE InUse(n) <= max_total_size'
      OBVIOUS
    <2>1. InUse(n) \in Int
      BY <1>9
    <2>2. CASE n = op
      BY <1>8, <1>10, <1>11, <2>2
    <2>3. CASE n # op
      <3>1. InUse(n) <= max_total_size
        BY <1>2, <1>7, <2>3
      <3>2. QED
        BY <1>10, <1>11, <2>1, <3>1
    <2>4. QED
      BY <2>2, <2>3
  <1>14. op' <= trace'.num_ops + 1 /\ pass' # "util_init"
    BY <1>1, <1>2
  <1>15. QED
    BY <1>1, <1>2, <1>4, <1>5, <1>6, <1>8, <1>12, <1>13, <1>14 DEF UtilInv, TotalInv

(* The shape of blocks where a step moves on within a trace. *)
LEMMA SameShape ==
  ASSUME BlocksInv, pass \in Working, trace' = trace,
         blocks' = blocks \/ blocks' = [i \in DOMAIN blocks |-> NULL]
  PROVE  BlocksInv'
  <1>1. blocks = [i \in 0..(trace.num_ids - 1) |-> blocks[i]]
    BY DEF BlocksInv
  <1>2. DOMAIN blocks = 0..(trace.num_ids - 1)
    BY <1>1
  <1>3. blocks' = [i \in 0..(trace.num_ids - 1) |-> blocks'[i]]
    BY <1>1, <1>2
  <1>4. QED
    BY <1>3 DEF BlocksInv

LEMMA OutsideTrace ==
  ASSUME pass' \notin Working
  PROVE  UtilInv'
  BY DEF UtilInv, BlocksInv, TotalInv, Working, Graded

LEMMA UtilOtherSteps ==
  ASSUME Types, Types', UtilInv, Next, ~UtilOp
  PROVE  UtilInv'
  <1>1. BlocksInv /\ TotalInv
    BY DEF UtilInv
  <1>2. CASE Libc \/ PackageFails \/ Summary
    <2>1. pass' \in {"read", "exit", "done"}
      BY <1>2 DEF Libc, PackageFails, Summary
    <2>2. QED
      BY <2>1, OutsideTrace DEF Working, Graded
  <1>3. CASE StartTrace
    <2>1. CASE pass' = "exit"
      BY <2>1, OutsideTrace DEF Working, Graded
    <2>2. CASE pass' # "exit"
      <3>1. /\ num \in 1..num_tracefiles /\ pass' = "valid_init" /\ trace' = read_trace(files[num])
            /\ trace' # NULL /\ blocks' = [i \in 0..(files[num].num_ids - 1) |-> NULL]
        BY <1>3, <2>2, BoundsAssumption DEF StartTrace, Types
      <3>2. files[num] \in Files
        BY <3>1 DEF Types
      <3>3. trace' = files[num]
        BY <3>1, <3>2, TraceType
      <3>4. \A n \in 1..Len(trace'.ops) : trace'.ops[n].type # "FREE" => trace'.ops[n].index < trace'.num_ids
        BY <3>1, <3>2, <3>3, TraceIndexed
      <3>5. BlocksInv'
        BY <3>1, <3>3, <3>4 DEF BlocksInv
      <3>6. TotalInv'
        BY <3>1 DEF TotalInv
      <3>7. QED
        BY <3>5, <3>6 DEF UtilInv
    <2>3. QED
      BY <2>1, <2>2
  <1>4. CASE InitPackage
    <2>1. CASE pass' \in {"read", "exit"}
      BY <2>1, OutsideTrace DEF Working, Graded
    <2>2. CASE pass' \notin {"read", "exit"}
      <3>1. /\ UNCHANGED <<op, trace, blocks, total_size, max_total_size>>
            /\ \/ pass = "valid_init" /\ pass' = "valid"
               \/ pass = "util_init" /\ pass' = "util"
               \/ pass = "speed_init" /\ pass' = "speed"
        BY <1>4, <2>2 DEF InitPackage, mm_init, Invalid, NextTrace, util
      <3>2. pass \in Working /\ pass' \in Working
        BY <3>1 DEF Working, Graded
      <3>3. BlocksInv'
        BY <1>1, <3>1, <3>2, SameShape
      <3>4. TotalInv'
        <4>1. CASE pass' # "util"
          BY <3>1, <4>1 DEF TotalInv
        <4>2. CASE pass' = "util"
          <5>1. op' = 1 /\ total_size' = 0 /\ max_total_size' = 0
            BY <1>1, <3>1, <4>2 DEF TotalInv
          <5>2. InUse(0) = 0 /\ \A i : ~Live(trace.ops, 0, i)
            BY <3>2, InUseStart
          <5>3. InUse(0)' = 0
            BY <3>1, <5>2 DEF InUse, Sizes
          <5>4. op' - 1 = 0 /\ \A n \in 0..(op' - 1) : n = 0
            BY <5>1
          <5>5. op' <= trace'.num_ops + 1
            BY <3>1, <3>2, <5>1, OpsType
          <5>6. QED
            BY <3>1, <4>2, <5>1, <5>2, <5>3, <5>4, <5>5 DEF TotalInv
        <4>3. QED
          BY <4>1, <4>2
      <3>5. QED
        BY <3>3, <3>4 DEF UtilInv
    <2>3. QED
      BY <2>1, <2>2
  <1>5. CASE ValidAlloc \/ ValidFree \/ SpeedOp
    <2>1. CASE pass' \in {"read", "exit"}
      BY <2>1, OutsideTrace DEF Working, Graded
    <2>2. CASE pass' \notin {"read", "exit"}
      <3>1. /\ pass \in {"valid", "speed"} /\ op <= trace.num_ops /\ UNCHANGED <<pass, trace>>
        BY <1>5, <2>2 DEF ValidAlloc, ValidFree, SpeedOp, Replay, Invalid, NextTrace
      <3>2. \E b : blocks' = [blocks EXCEPT ![Request.index] = b]
        <4>1. CASE ValidAlloc
          <5>1. PICK r : blocks' = Store(r)
            BY <2>2, <4>1 DEF ValidAlloc, Invalid, NextTrace
          <5>2. QED
            BY <5>1 DEF Store
        <4>2. CASE ValidFree
          BY <4>2 DEF ValidFree
        <4>3. CASE SpeedOp
          BY <4>3, ReplayStores DEF SpeedOp
        <4>4. QED
          BY <1>5, <4>1, <4>2, <4>3
      <3>3. pass \in Working
        BY <3>1 DEF Working, Graded
      <3>4. BlocksInv'
        BY <1>1, <3>1, <3>2, <3>3, StoreShape
      <3>5. QED
        BY <3>1, <3>4 DEF UtilInv, TotalInv
    <2>3. QED
      BY <2>1, <2>2
  <1>6. CASE ValidEnd \/ UtilEnd \/ SpeedEnd
    <2>1. CASE pass' = "read"
      BY <2>1, OutsideTrace DEF Working, Graded
    <2>2. CASE pass' # "read"
      <3>1. /\ pass \in {"valid", "util", "speed"} /\ trace' = trace /\ op' = 1
            /\ blocks' = [i \in DOMAIN blocks |-> NULL]
            /\ \/ pass' = "util_init" /\ total_size' = 0 /\ max_total_size' = 0
               \/ pass' = "speed_init"
        BY <1>6, <2>2 DEF ValidEnd, UtilEnd, SpeedEnd, NextTrace
      <3>2. BlocksInv'
        BY <1>1, <3>1, SameShape DEF Working, Graded
      <3>3. QED
        BY <3>1, <3>2 DEF UtilInv, TotalInv
    <2>3. QED
      BY <2>1, <2>2
  <1>7. QED
    BY <1>2, <1>3, <1>4, <1>5, <1>6 DEF Next

(* The second inductive invariant: what eval_mm_util has counted.          *)
THEOREM UtilInvCorrect == Spec => []UtilInv
  <1>1. Init => UtilInv
    BY DEF Init, UtilInv, BlocksInv, TotalInv, Working, Graded
  <1>2. Types /\ Types' /\ UtilInv /\ [Next]_vars => UtilInv'
    <2> SUFFICES ASSUME Types, Types', UtilInv, [Next]_vars PROVE UtilInv'
      OBVIOUS
    <2>1. CASE UNCHANGED vars
      BY <2>1 DEF UtilInv, BlocksInv, TotalInv, InUse, Sizes, vars, util
    <2>2. CASE UtilOp
      BY <2>2, UtilOpStep
    <2>3. CASE Next /\ ~UtilOp
      BY <2>3, UtilOtherSteps
    <2>4. QED
      BY <2>1, <2>2, <2>3
  <1>3. DriverInv => Types
    BY DEF DriverInv
  <1>4. QED
    BY <1>1, <1>2, <1>3, DriverCorrect, PTL DEF Spec

(* The total that eval_mm_util keeps is the number of bytes the trace has  *)
(* in use, and its maximum the largest such number, whatever the package   *)
(* under test does.                                                        *)
THEOREM UtilCorrect == Spec => []UtilExact
  <1>1. Types /\ UtilInv => UtilExact
    <2> SUFFICES ASSUME Types, UtilInv, pass = "util"
                 PROVE  /\ total_size = InUse(op - 1)
                        /\ max_total_size = Max({InUse(n) : n \in 0..(op - 1)})
      BY DEF UtilExact
    <2>1. /\ total_size = InUse(op - 1) /\ op <= trace.num_ops + 1
          /\ \E n \in 0..(op - 1) : max_total_size = InUse(n)
          /\ \A n \in 0..(op - 1) : InUse(n) <= max_total_size
      BY DEF UtilInv, TotalInv
    <2>2. pass \in Working
      BY DEF Working, Graded
    <2>3. \A n \in 0..(op - 1) : n \in 0..Len(trace.ops)
      BY <2>1, <2>2, OpsType DEF Types
    <2>4. \A n \in 0..(op - 1) : InUse(n) \in Int
      BY <2>2, <2>3, InUseType
    <2>5. PICK S : S = {InUse(n) : n \in 0..(op - 1)}
      OBVIOUS
    <2>6. S \in SUBSET Int /\ max_total_size \in S /\ \A x \in S : x <= max_total_size
      BY <2>1, <2>4, <2>5
    <2>7. Max(S) = max_total_size
      BY <2>6, MaxIs
    <2>8. QED
      BY <2>1, <2>5, <2>7
  <1>2. DriverInv => Types
    BY DEF DriverInv
  <1>3. QED
    BY <1>1, <1>2, DriverCorrect, UtilInvCorrect, PTL
=============================================================================
