-------------------------------- MODULE Fcyc --------------------------------
(***************************************************************************)
(* The K-best sampler of fcyc.c: a function is timed until the kbest       *)
(* smallest times agree or maxsamples were taken, and the smallest is      *)
(* returned.  What the counters measure is any of SampleValues.            *)
(***************************************************************************)
EXTENDS Integers, Sequences

CONSTANTS
  kbest,          \* K of K-best
  maxsamples,     \* samples taken at most
  epsilon,        \* tolerance in percent
  SampleValues    \* what get_counter and get_comp_counter return

ASSUME FcycAssumption ==
  /\ kbest \in Nat \ {0} /\ maxsamples \in Nat /\ epsilon \in Nat
  /\ SampleValues \subseteq Int

VARIABLES
  values,         \* the smallest times, ascending; zeroes where none was taken
  samplecount,
  samples         \* every sample of the current measurement

fcycVars == <<values, samplecount, samples>>

init_sampler ==
  /\ values' = [i \in 1..kbest |-> 0]
  /\ samplecount' = 0
  /\ samples' = <<>>

Swap(vs, i) == [vs EXCEPT ![i] = vs[i - 1], ![i - 1] = vs[i]]

(* The insertion sort: the value at pos sinks past the larger ones before  *)
(* it.                                                                     *)
Sink(vs, pos) ==
  LET sink[p \in 1..pos] ==   \* the array after the value has left p..pos
        IF p = pos THEN vs
        ELSE LET v == sink[p + 1]
             IN  IF v[p] > v[p + 1] THEN Swap(v, p + 1) ELSE v
  IN  sink[1]

(* mutant: the sample is stored but not counted *)
add_sample_uncounted(val) ==
  /\ values' = Sink([values EXCEPT ![samplecount + 1] = val], samplecount + 1)
  /\ UNCHANGED <<samplecount, samples>>

(* mutant: a full array takes the new value whether it is smaller or not *)
add_sample_always(val) ==
  /\ values' = Sink([values EXCEPT ![IF samplecount < kbest THEN samplecount + 1 ELSE kbest] = val],
                    IF samplecount < kbest THEN samplecount + 1 ELSE kbest)
  /\ samplecount' = samplecount + 1
  /\ samples' = Append(samples, val)

add_sample(val) ==
  /\ values' =
       IF samplecount < kbest
       THEN Sink([values EXCEPT ![samplecount + 1] = val], samplecount + 1)
       ELSE IF val < values[kbest] THEN Sink([values EXCEPT ![kbest] = val], kbest)
       ELSE values
  /\ samplecount' = samplecount + 1
  /\ samples' = Append(samples, val)

has_converged ==
  samplecount >= kbest /\ (100 + epsilon) * values[1] >= 100 * values[kbest]

(* The condition of the do-while loop of fcyc_v, entered at least once.    *)
Sampling == samplecount = 0 \/ (~has_converged /\ samplecount < maxsamples)

(* The values kept are the smallest of all samples, in order: each is a    *)
(* sample of its own, and no sample that was dropped is smaller than one   *)
(* that was kept.                                                          *)
KeepsSmallest ==
  LET n == IF samplecount < kbest THEN samplecount ELSE kbest
  IN  \E from \in [1..n -> DOMAIN samples] :
        /\ \A a, b \in 1..n : a < b => from[a] # from[b] /\ values[a] <= values[b]
        /\ \A a \in 1..n : values[a] = samples[from[a]]
        /\ \A m \in DOMAIN samples : (\A a \in 1..n : from[a] # m) => values[n] <= samples[m]
=============================================================================
