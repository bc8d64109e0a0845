---------------------------- MODULE TraceDriver -----------------------------
(***************************************************************************)
(* mdriver.c around an arbitrary malloc package: main, read_trace and the  *)
(* three passes of each trace, eval_mm_valid, eval_mm_util and             *)
(* eval_mm_speed.  The package under test may fail, return any address and *)
(* map and unmap pages as it likes; the C library's package, which the     *)
(* driver runs first when asked to, may fail.  The traces are well formed: *)
(* they realloc and free what they allocated, so what trace->blocks holds  *)
(* from an earlier pass is never read, and is forgotten here.              *)
(***************************************************************************)
EXTENDS Ranges, FiniteSets, FiniteSetsExt

CONSTANTS
  Files,       \* trace files: [num_ids, num_ops, ops], ops a sequence of requests
  num_tracefiles,
  PageSize,
  Addrs,       \* bound: addresses the package returns
  Repeats,     \* calls of eval_mm_speed that ftimer_gettod times (10)
  NULL

Requests == [type : {"ALLOC", "REALLOC", "FREE"}, index : Nat, size : Nat]

ASSUME FilesAssumption ==
  Files \subseteq [num_ids : Nat, num_ops : Nat, ops : Seq(Requests)]

(* The last of the first n requests that names block i, and whether the    *)
(* block is in use after them.                                             *)
Last(ops, n, i) == LET at == {m \in 1..n : ops[m].index = i} IN IF at = {} THEN 0 ELSE Max(at)
Live(ops, n, i) == Last(ops, n, i) # 0 /\ ops[Last(ops, n, i)].type # "FREE"

(* A trace allocates a block that is not in use, and reallocates and frees *)
(* one that is: mdriver.c does not check this, and all the files under     *)
(* traces/ obey it.                                                        *)
ASSUME TracesAssumption ==
  \A f \in Files : \A n \in 1..Len(f.ops) :
    Live(f.ops, n - 1, f.ops[n].index) <=> f.ops[n].type # "ALLOC"

ASSUME BoundsAssumption ==
  /\ num_tracefiles \in Nat /\ PageSize \in Nat \ {0} /\ Addrs \subseteq Nat
  /\ NULL \notin Addrs /\ NULL \notin Files

VARIABLES
  run_libc,    \* option -l
  files,       \* the trace files of this run
  pass,        \* where the driver is
  num,         \* index of the trace
  op,          \* index of the next request
  trace,       \* what read_trace returned
  blocks,      \* trace->blocks and trace->block_sizes
  ranges,
  mapped,      \* pages mapped through memlib
  total_size, max_total_size, max_heap_size,
  calls,       \* calls of eval_mm_speed made for this trace
  stats,       \* mm_stats
  errors, perfindex

input == <<run_libc, files>>
util == <<total_size, max_total_size, max_heap_size>>
vars == <<input, pass, num, op, trace, blocks, ranges, mapped, util, calls, stats, errors, perfindex>>

NoStats == [valid |-> FALSE, util |-> NULL]

Init ==
  /\ run_libc \in BOOLEAN
  /\ files \in [1..num_tracefiles -> Files]
  /\ pass = IF run_libc THEN "libc" ELSE "read"
  /\ num = 1 /\ op = 1 /\ trace = NULL /\ blocks = NULL
  /\ ranges = <<>> /\ mapped = {}
  /\ total_size = 0 /\ max_total_size = 0 /\ max_heap_size = 0
  /\ calls = 0 /\ stats = [i \in 1..num_tracefiles |-> NoStats]
  /\ errors = 0 /\ perfindex = NULL

-----------------------------------------------------------------------------
(* The asserts of read_trace: the header counts the requests, and the      *)
(* largest index of an alloc or a realloc is num_ids - 1.                  *)
read_trace(f) ==
  LET max_index == Max({0} \cup {f.ops[n].index : n \in {m \in DOMAIN f.ops : f.ops[m].type # "FREE"}})
  IN  IF max_index = f.num_ids - 1 /\ Len(f.ops) = f.num_ops THEN f ELSE NULL

(* eval_libc_valid and eval_libc_speed over all traces: libc malloc works, *)
(* or the driver exits; so does an assert of read_trace.                   *)
Libc ==
  /\ pass = "libc"
  /\ \/ (\A n \in DOMAIN files : read_trace(files[n]) # NULL) /\ pass' = "read"
     \/ pass' = "exit"
  /\ UNCHANGED <<input, num, op, trace, blocks, ranges, mapped, util, calls, stats, errors, perfindex>>

(* read_trace for the mm package, and the start of eval_mm_valid: no range *)
(* is left from the trace before.                                          *)
StartTrace ==
  /\ pass = "read" /\ num <= num_tracefiles
  /\ trace' = read_trace(files[num])
  /\ IF trace' = NULL
     THEN pass' = "exit" /\ UNCHANGED <<ranges, blocks, op>>
     ELSE /\ pass' = "valid_init" /\ ranges' = <<>> /\ op' = 1
          /\ blocks' = [i \in 0..(files[num].num_ids - 1) |-> NULL]
  /\ UNCHANGED <<input, num, mapped, util, calls, stats, errors, perfindex>>

(* free_trace, and the loop of main. *)
NextTrace == num' = num + 1 /\ pass' = "read" /\ trace' = NULL /\ blocks' = NULL

(* malloc_error and return 0: the pages the package mapped stay mapped.    *)
Invalid ==
  /\ errors' = errors + 1
  /\ NextTrace
  /\ UNCHANGED <<op, mapped>>

mm_init(next) ==
  \/ pass' = next /\ UNCHANGED <<num, op, trace, blocks, mapped, errors>>
  \/ IF pass = "valid_init" THEN Invalid
     ELSE pass' = "exit" /\ UNCHANGED <<num, op, trace, blocks, mapped, errors>>

InitPackage ==
  /\ \/ pass = "valid_init" /\ mm_init("valid")
     \/ pass = "util_init" /\ mm_init("util")
     \/ pass = "speed_init" /\ mm_init("speed")
  /\ UNCHANGED <<input, ranges, util, calls, stats, perfindex>>

-----------------------------------------------------------------------------
(* The package under test.  A call maps the pages of the payload, or not.  *)
RangePages(lo, size) == {a \div PageSize : a \in lo..(lo + size - 1)}
mm_malloc(size) ==
  {[ptr |-> NULL, mapped |-> mapped]}
    \cup {[ptr |-> p, mapped |-> mapped] : p \in Addrs}
    \cup {[ptr |-> p, mapped |-> mapped \cup RangePages(p, size)] : p \in Addrs}
mm_free(pages) == {pages, {}}

Request == trace.ops[op]
Old == blocks[Request.index]
Store(p) == [blocks EXCEPT ![Request.index] = [ptr |-> p, size |-> Request.size]]

(* eval_mm_valid: ALLOC and REALLOC differ in the range forgotten first    *)
(* and the block freed last.                                               *)
ValidAlloc ==
  /\ pass = "valid" /\ op <= trace.num_ops /\ Request.type # "FREE"
  /\ \E r \in mm_malloc(Request.size) :
       LET known == IF Request.type = "REALLOC" THEN remove_range(ranges, Old.ptr) ELSE ranges
       IN  IF r.ptr = NULL
           THEN Invalid /\ UNCHANGED ranges
           ELSE IF Aborts(Request.size)
           THEN /\ pass' = "exit" /\ ranges' = known /\ mapped' = r.mapped
                /\ UNCHANGED <<num, op, trace, blocks, errors>>
           ELSE IF Accepts(known, r.ptr, Request.size, PageSize, r.mapped)
           THEN /\ ranges' = add_range(known, r.ptr, Request.size)
                /\ blocks' = Store(r.ptr)
                /\ op' = op + 1
                /\ IF Request.type = "REALLOC" THEN mapped' \in mm_free(r.mapped)
                   ELSE mapped' = r.mapped
                /\ UNCHANGED <<num, trace, errors, pass>>
           ELSE /\ errors' = errors + 1 /\ NextTrace /\ ranges' = known /\ mapped' = r.mapped
                /\ UNCHANGED op
  /\ UNCHANGED <<input, util, calls, stats, perfindex>>

ValidFree ==
  /\ pass = "valid" /\ op <= trace.num_ops /\ Request.type = "FREE"
  /\ ranges' = remove_range(ranges, Old.ptr)
  /\ mapped' \in mm_free(mapped)
  /\ blocks' = [blocks EXCEPT ![Request.index] = NULL]
  /\ op' = op + 1
  /\ UNCHANGED <<input, pass, num, trace, util, calls, stats, errors, perfindex>>

(* eval_mm_valid returns 1; eval_mm_util starts. *)
ValidEnd ==
  /\ pass = "valid" /\ op > trace.num_ops
  /\ mapped' = {}
  /\ stats' = [stats EXCEPT ![num].valid = TRUE]
  /\ pass' = "util_init" /\ op' = 1 /\ blocks' = [i \in DOMAIN blocks |-> NULL]
  /\ total_size' = 0 /\ max_total_size' = 0 /\ max_heap_size' = 0
  /\ UNCHANGED <<input, num, trace, ranges, calls, errors, perfindex>>

-----------------------------------------------------------------------------
(* mutant: a realloc adds its new size and keeps the old one *)
Growth_realloc_adds == IF Request.type = "FREE" THEN 0 - Old.size ELSE Request.size

(* What a request adds to the bytes in use. *)
Growth == CASE Request.type = "ALLOC" -> Request.size
            [] Request.type = "REALLOC" -> Request.size - Old.size
            [] Request.type = "FREE" -> 0 - Old.size

(* A request of eval_mm_util or eval_mm_speed, which check no payload.     *)
Replay ==
  /\ op <= trace.num_ops
  /\ op' = op + 1
  /\ IF Request.type = "FREE"
     THEN mapped' \in mm_free(mapped) /\ blocks' = [blocks EXCEPT ![Request.index] = NULL]
     ELSE \E r \in mm_malloc(Request.size) :
            /\ r.ptr = Min(Addrs)     \* the address is not looked at
            /\ blocks' = Store(r.ptr)
            /\ mapped' \in IF Request.type = "REALLOC" THEN mm_free(r.mapped) ELSE {r.mapped}

(* app_error: the package fails where it did not in eval_mm_valid.         *)
PackageFails ==
  /\ pass \in {"util", "speed"} /\ op <= trace.num_ops /\ Request.type # "FREE"
  /\ pass' = "exit"
  /\ UNCHANGED <<input, num, op, trace, blocks, ranges, mapped, util, calls, stats, errors, perfindex>>

UtilOp ==
  /\ pass = "util" /\ Replay
  /\ total_size' = total_size + Growth
  /\ max_total_size' = Max({max_total_size, total_size'})
  /\ max_heap_size' = Max({max_heap_size, PageSize * Cardinality(mapped')})
  /\ UNCHANGED <<input, pass, num, trace, ranges, calls, stats, errors, perfindex>>

UtilEnd ==
  /\ pass = "util" /\ op > trace.num_ops
  /\ mapped' = {}
  /\ stats' = [stats EXCEPT ![num].util = <<max_total_size, max_heap_size>>]
  /\ total_size' = 0 /\ max_total_size' = 0 /\ max_heap_size' = 0
  /\ pass' = "speed_init" /\ op' = 1 /\ calls' = 0
  /\ blocks' = [i \in DOMAIN blocks |-> NULL]
  /\ UNCHANGED <<input, num, trace, ranges, errors, perfindex>>

SpeedOp ==
  /\ pass = "speed" /\ Replay
  /\ UNCHANGED <<input, pass, num, trace, ranges, util, calls, stats, errors, perfindex>>

(* ftimer_gettod calls eval_mm_speed again and again. *)
SpeedEnd ==
  /\ pass = "speed" /\ op > trace.num_ops
  /\ mapped' = {} /\ op' = 1 /\ calls' = calls + 1
  /\ IF calls' = Repeats THEN NextTrace
     ELSE pass' = "speed_init" /\ blocks' = [i \in DOMAIN blocks |-> NULL] /\ UNCHANGED <<num, trace>>
  /\ UNCHANGED <<input, ranges, util, stats, errors, perfindex>>

(* mutant: a trace that failed only lowers the averages *)
Summary_averages ==
  /\ pass = "read" /\ num > num_tracefiles
  /\ perfindex' = "index"
  /\ pass' = "done"
  /\ UNCHANGED <<input, num, op, trace, blocks, ranges, mapped, util, calls, stats, errors>>

(* The performance index is computed only if there was no error. *)
Summary ==
  /\ pass = "read" /\ num > num_tracefiles
  /\ perfindex' = IF errors = 0 THEN "index" ELSE "none"
  /\ pass' = "done"
  /\ UNCHANGED <<input, num, op, trace, blocks, ranges, mapped, util, calls, stats, errors>>

Next ==
  \/ Libc \/ StartTrace \/ InitPackage
  \/ ValidAlloc \/ ValidFree \/ ValidEnd
  \/ UtilOp \/ UtilEnd \/ SpeedOp \/ SpeedEnd \/ PackageFails
  \/ Summary

Spec == Init /\ [][Next]_vars

-----------------------------------------------------------------------------
(* What mdriver.c:396 says of add_range: an accepted payload shares no     *)
(* byte with another.  The test looks at the new payload's two ends only,  *)
(* so one that lies around an older payload is accepted.                   *)
PayloadsDisjoint == \A i, j \in 1..Len(ranges) : i < j => Disjoint(ranges[i], ranges[j])

(* How far the overlap test of add_range goes: whatever package is driven, *)
(* an accepted payload shares bytes only with older ones that lie strictly *)
(* inside it, the one case PayloadsDisjoint fails in.  In particular no    *)
(* two start at one address, so remove_range takes the right record.       *)
OverlapOnlyEngulfs ==
  \A i, j \in 1..Len(ranges) :
    i < j => \/ Disjoint(ranges[i], ranges[j])
             \/ ranges[i].lo < ranges[j].lo /\ ranges[j].hi < ranges[i].hi

(* The sizes of the blocks after n requests, by the trace's text alone,    *)
(* and their sum.                                                          *)
Sizes(n) ==
  [i \in 0..(trace.num_ids - 1) |->
     IF Live(trace.ops, n, i) THEN trace.ops[Last(trace.ops, n, i)].size ELSE 0]
SumTo(sizes, ids) ==
  LET sum[i \in 0..ids] == IF i = 0 THEN 0 ELSE sum[i - 1] + sizes[i - 1] IN sum[ids]
InUse(n) == SumTo(Sizes(n), trace.num_ids)

(* eval_mm_util counts the bytes in use exactly and keeps their maximum,   *)
(* so the numerator of the utilisation does not depend on the package.     *)
UtilExact ==
  pass = "util" => /\ total_size = InUse(op - 1)
                   /\ max_total_size = Max({InUse(n) : n \in 0..(op - 1)})

(* When the driver ends, it reports a performance index exactly if every   *)
(* trace was valid, and it has counted one error for each that was not.    *)
ErrorsAgree ==
  pass = "done" =>
    LET failed == {n \in 1..num_tracefiles : ~stats[n].valid}
    IN  errors = Cardinality(failed) /\ (perfindex = "index" <=> failed = {})
=============================================================================
