----------------------------- MODULE PerfDriver -----------------------------
(***************************************************************************)
(* driver.c of the performance lab: the benchmarks that kernels.c          *)
(* registers and the options select are checked on an image of ODD_DIM     *)
(* and of every test dimension, timed with fcyc_v, and the best mean       *)
(* speedup of each kind is kept.                                           *)
(*                                                                         *)
(* The speedups of one kind are quotients with the same baselines and the  *)
(* same work, so the mean of one benchmark is larger exactly when the      *)
(* product of its cycles is smaller: means are kept as these products.     *)
(* What earlier images left in data beyond the new ones is any of Stale.   *)
(***************************************************************************)
EXTENDS Kernels, Fcyc

CONSTANTS
  ODD_DIM, test_dim,    \* test_dim[kind] : the dimensions of one kind
  SQUARE,               \* side of the squares of image mode "squares"
  Setups,               \* command lines: see SetupType
  Stale,                \* contents of memory that create leaves alone
  Bright,               \* Bright[dim] : pixels that a random image may light
  NULL

Kinds == {"pinwheel", "motion"}
Channels == {"red", "green", "blue"}

(* register_pinwheel_functions and register_motion_functions *)
Registered(kind) == <<kind, IF kind = "pinwheel" THEN "naive_pinwheel" ELSE "naive_motion">>

(* A dump file's line is its flag, the colon and the description.          *)
Flag(kind) == IF kind = "pinwheel" THEN "R" ELSE "S"
DumpLine(kind, f) == <<Flag(kind), ":", f, ":", "version", "\n">>
Description(f) == <<f, ":", "version">>
Descriptions(kind) ==
  {Description(Registered(kind)[n]) : n \in 1..2} \cup {<<kind, "function">>}
Dump == {DumpLine(kind, Registered(kind)[n]) : kind \in Kinds, n \in 1..2}

(* Lines without a colon that may be in the file of -f. *)
Bare == {<<"R", "\n">>, <<"S", "\n">>, <<"\n">>}

SetupType ==
  [autograder : BOOLEAN,              \* -g
   bench_func_file : SUBSET (Dump \cup Bare) \cup {NULL},   \* the lines of -f
   file_opens : BOOLEAN,              \* and whether fopen finds it
   quit_after_dump : BOOLEAN,         \* -d with -q
   refused : BOOLEAN,                 \* an option main does not know, a -m of no
                                      \* mode, a -d that cannot be opened, or -h
   image_mode : {"random", "gradient", "squares"},
   channel : Channels]

ASSUME PerfAssumption ==
  /\ Setups \subseteq SetupType
  /\ \A kind \in Kinds : NULL \notin Descriptions(kind)
  /\ \A kind \in Kinds : test_dim[kind] \in Seq(Nat) /\ Len(test_dim[kind]) > 0
  /\ \A kind \in Kinds : \A n \in DOMAIN test_dim[kind] : test_dim[kind][n] % (2 * TILE) = 0
  /\ ODD_DIM \in Nat /\ ODD_DIM % (2 * TILE) = 0

VARIABLES
  setup,      \* the command line
  pc,         \* where main and the test functions are
  benchmarks, \* benchmarks[kind] : <<[funct, description, valid, cpes], ...>>
  kind, idx,  \* the benchmark being tested
  test_num,   \* index of the dimension being tested
  dim,        \* dimension of the current image
  mem,        \* data, while an image is being checked
  best        \* best[kind] : maxmean, as a product of cycles, and its desc

driverVars == <<setup, benchmarks, kind, idx, test_num, dim, mem, best>>
vars == <<pc, driverVars, fcycVars>>

NoBest == [cycles |-> NULL, desc |-> NULL]

Init ==
  /\ setup \in Setups
  /\ pc = "options"
  /\ benchmarks = [k \in Kinds |->
                     [n \in 1..2 |-> [funct |-> Registered(k)[n],
                                      description |-> Description(Registered(k)[n]),
                                      valid |-> FALSE, cpes |-> <<>>]]]
  /\ kind = "pinwheel" /\ idx = 1 /\ test_num = 1
  /\ dim = 0 /\ mem = NULL
  /\ best = [k \in Kinds |-> NoBest]
  /\ values = [i \in 1..kbest |-> 0] /\ samplecount = 0 /\ samples = <<>>

-----------------------------------------------------------------------------
(* What strsep leaves of a line: behind the first colon, up to the newline *)
(* or, when there is no colon, NULL.                                       *)
func_name(line) ==
  LET colon == CHOOSE n \in 1..Len(line) : line[n] = ":" /\ \A m \in 1..(n - 1) : line[m] # ":"
  IN  IF \A n \in 1..Len(line) : line[n] # ":" THEN NULL
      ELSE SelectSeq(SubSeq(line, colon + 1, Len(line)), LAMBDA c : c # "\n")

Selected(k, b) ==
  IF setup.bench_func_file = NULL THEN TRUE
  ELSE \E line \in setup.bench_func_file : line[1] = Flag(k) /\ func_name(line) = b.description

(* The file of -f is read, and strcmp is given the NULL of one of its lines. *)
ReadsFile == ~setup.autograder /\ setup.bench_func_file # NULL
ComparesNull ==
  /\ ReadsFile
  /\ \E line \in setup.bench_func_file, k \in Kinds : line[1] = Flag(k) /\ func_name(line) = NULL

(* The options are read, and which functions are valid.                    *)
Options ==
  /\ pc = "options"
  /\ pc' = IF setup.refused \/ setup.quit_after_dump \/ (ReadsFile /\ ~setup.file_opens) THEN "exit"
           ELSE IF ComparesNull THEN "crashed" ELSE "next"
  /\ benchmarks' =
       IF pc' # "next" THEN benchmarks
       ELSE IF setup.autograder
       THEN [k \in Kinds |-> <<[funct |-> k, description |-> <<k, "function">>,
                           valid |-> TRUE, cpes |-> <<>>]>>]
       ELSE [k \in Kinds |-> [n \in DOMAIN benchmarks[k] |->
               [benchmarks[k][n] EXCEPT !.valid = @ \/ Selected(k, benchmarks[k][n])]]]
  /\ UNCHANGED <<setup, kind, idx, test_num, dim, mem, best, fcycVars>>

Bench == benchmarks[kind][idx]

(* The loops of main over the benchmarks of both kinds. *)
NextBench ==
  /\ pc = "next"
  /\ CASE idx > Len(benchmarks[kind]) /\ kind = "pinwheel" ->
            kind' = "motion" /\ idx' = 1 /\ UNCHANGED <<pc, test_num>>
       [] idx > Len(benchmarks[kind]) /\ kind = "motion" ->
            pc' = "done" /\ UNCHANGED <<kind, idx, test_num>>
       [] idx <= Len(benchmarks[kind]) /\ ~Bench.valid ->
            idx' = idx + 1 /\ UNCHANGED <<pc, kind, test_num>>
       [] OTHER ->
            pc' = "create_odd" /\ test_num' = 1 /\ UNCHANGED <<kind, idx>>
  /\ UNCHANGED <<setup, benchmarks, dim, mem, best, fcycVars>>

(* Images create may paint. *)
Images(d) ==
  CASE setup.image_mode = "gradient" -> {Gradient(d, setup.channel)}
    [] setup.image_mode = "squares" -> {Squares(d, SQUARE, setup.channel)}
    [] setup.image_mode = "random" ->
         {[p \in Pixels(d) |-> IF p \in lit THEN 65535 ELSE 0] :
            lit \in {{p} : p \in Bright[d]} \cup {Pixels(d)}}

(* tmp is not initialised. *)
create(d, image, stale) ==
  [orig |-> image, tmp |-> [p \in Pixels(d) |-> stale],
   result |-> [p \in Pixels(d) |-> 0], copy_of_orig |-> image]

Create(from, d, to) ==
  /\ pc = from
  /\ dim' = d
  /\ \E image \in Images(d), stale \in Stale : mem' = create(d, image, stale)
  /\ pc' = to
  /\ UNCHANGED <<setup, benchmarks, kind, idx, test_num, best, fcycVars>>

Dim == test_dim[kind][test_num]

Kernel(f) ==
  CASE f = "pinwheel" -> pinwheel(dim, mem)
    [] f = "naive_pinwheel" -> naive_pinwheel(dim, mem)
    [] f = "motion" -> motion(dim, mem)
    [] f = "naive_motion" -> naive_motion(dim, mem)

(* run_pinwheel_benchmark and run_motion_benchmark *)
Run(from, to) ==
  /\ pc = from
  /\ mem' = [mem EXCEPT !.result = Kernel(Bench.funct)]
  /\ pc' = to
  /\ UNCHANGED <<setup, benchmarks, kind, idx, test_num, dim, best, fcycVars>>

(* A benchmark that fails the check is given up: the test function returns *)
(* and main goes on to the next.                                           *)
CheckResult(from, to) ==
  /\ pc = from
  /\ IF IF kind = "pinwheel" THEN check_pinwheel(dim, mem) ELSE check_motion(dim, mem)
     THEN pc' = "next" /\ idx' = idx + 1
     ELSE pc' = to /\ UNCHANGED idx
  /\ mem' = NULL
  /\ UNCHANGED <<setup, benchmarks, kind, test_num, dim, best, fcycVars>>

(* fcyc_v on a fresh image: what the kernel stores is not looked at.       *)
StartMeasure ==
  /\ pc = "measure" /\ init_sampler
  /\ pc' = "sampling"
  /\ UNCHANGED driverVars

Sample(val) ==
  /\ pc = "sampling" /\ Sampling /\ add_sample(val)
  /\ UNCHANGED <<pc, driverVars>>

(* fcyc_v returns the smallest time. *)
EndMeasure ==
  /\ pc = "sampling" /\ ~Sampling
  /\ benchmarks' = [benchmarks EXCEPT ![kind][idx].cpes = Append(@, values[1])]
  /\ IF test_num < Len(test_dim[kind])
     THEN test_num' = test_num + 1 /\ pc' = "create_odd"
     ELSE pc' = "score" /\ UNCHANGED test_num
  /\ init_sampler
  /\ UNCHANGED <<setup, kind, idx, dim, mem, best>>

Product(s) ==
  LET prod[n \in 0..Len(s)] == IF n = 0 THEN 1 ELSE prod[n - 1] * s[n]
  IN  prod[Len(s)]

(* mutant: the maximum is replaced by every later mean *)
Better_last(cycles) == TRUE

(* mean > maxmean, which starts at 0.0 *)
Better(cycles) == best[kind].desc = NULL \/ cycles < best[kind].cycles

(* The speedups: a cpe that is not positive ends the program. *)
Score ==
  /\ pc = "score"
  /\ IF \A n \in DOMAIN Bench.cpes : Bench.cpes[n] > 0
     THEN /\ best' = IF Better(Product(Bench.cpes))
                     THEN [best EXCEPT ![kind] = [cycles |-> Product(Bench.cpes),
                                                  desc |-> Bench.description]]
                     ELSE best
          /\ idx' = idx + 1 /\ pc' = "next"
     ELSE pc' = "exit" /\ UNCHANGED <<best, idx>>
  /\ UNCHANGED <<setup, benchmarks, kind, test_num, dim, mem, fcycVars>>

Next ==
  \/ Options \/ NextBench
  \/ Create("create_odd", ODD_DIM, "run_odd") \/ Create("create", Dim, "run")
  \/ Run("run_odd", "check_odd") \/ Run("run", "check")
  \/ CheckResult("check_odd", "create") \/ CheckResult("check", "measure")
  \/ StartMeasure \/ (\E val \in SampleValues : Sample(val)) \/ EndMeasure
  \/ Score

Spec == Init /\ [][Next]_vars
FairSpec == Spec /\ WF_vars(Next)

-----------------------------------------------------------------------------
(* check_pinwheel and check_motion accept all four registered kernels on   *)
(* every image, whatever is left in the memory behind orig, which the      *)
(* blocks of motion read: no test function ever gives up.                  *)
NeverRefused ==
  [][(pc \in {"check_odd", "check"}) => pc' # "next"]_vars

(* When the driver prints its summary, the best score of a kind is that of *)
(* the fastest of the functions the options selected, and names it; there  *)
(* is none only if none was selected.                                      *)
BestIsFastest ==
  pc = "done" => \A k \in Kinds :
    LET tested == {n \in DOMAIN benchmarks[k] : benchmarks[k][n].valid}
        cycles(n) == Product(benchmarks[k][n].cpes)
    IN  IF tested = {} THEN best[k] = NoBest
        ELSE \E n \in tested : /\ best[k] = [cycles |-> cycles(n),
                                            desc |-> benchmarks[k][n].description]
                               /\ \A m \in tested : cycles(n) <= cycles(m)

(* The driver ends, whatever times fcyc_v samples: it converges or gives   *)
(* up after maxsamples, and a cpe of 0 ends the program.  It dies of a     *)
(* signal only when a line of the -f file has a flag and no colon          *)
(* (driver.c:808, 815 and 822).                                            *)
DriverEnds == <>(pc \in {"done", "exit"} \/ (pc = "crashed" /\ setup.bench_func_file \cap Bare # {}))
=============================================================================
