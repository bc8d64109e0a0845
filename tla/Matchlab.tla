------------------------------ MODULE Matchlab ------------------------------
(***************************************************************************)
(* matchlab.c: for each argument, whether it matches one of three models,  *)
(* or, under -t, its conversion.  The arguments lie one after the other in *)
(* memory, as execve lays them out, and the conversions write there.       *)
(***************************************************************************)
EXTENDS Integers, Sequences, SequencesExt, FiniteSetsExt

CONSTANTS
  ArgLists,    \* the command lines, without the program name
  Environment, \* the bytes after the last argument
  StaleBytes,  \* what a chunk of the allocator may hold when malloc returns
               \* it again, up to the first 0; <<>> is a zeroed one
  SMALL_CHUNK, \* bytes that can be written behind malloc(10), 24 in glibc
  LARGE_CHUNK  \* and behind malloc(255), 264 in glibc

(* Strings end at their first 0. *)
ASSUME BytesAssumption == ArgLists \subseteq Seq(Seq(1..255)) /\ Environment \in Seq(0..255)
ASSUME ChunksAssumption == SMALL_CHUNK \in Nat /\ LARGE_CHUNK \in Nat

VARIABLES
  args,        \* the command line
  mem,         \* the bytes of argv
  argno,       \* i of main
  mode,        \* [model, convert] as main has decided
  freed,       \* the chunk of temp is free and the next small one gets it
  stale,       \* what that chunk holds
  output,      \* per argument: its text when its turn came, what is printed
  matching     \* "main", "loop", "done", "crashed" or "overrun"

matchVars == <<args, mem, argno, mode, freed, stale, output, matching>>

-----------------------------------------------------------------------------
Digit == 48..57
Upper == 65..90
ch_A == 65
ch_D == 68
ch_F == 70
ch_f == 102
ch_i == 105
ch_l == 108
ch_p == 112
ch_t == 116
ch_u == 117

flag_a == <<45, 97>>
flag_b == <<45, 98>>
flag_c == <<45, 99>>
flag_t == <<45, 116>>
Models == {flag_a, flag_b, flag_c}

Yes == <<89>>
No == <<78>>

odd(n) == n % 2 = 1

(* Where a loop over characters of one class stops. *)
Skip(s, i, class) == Min({k \in i..Len(s) : s[k] \notin class} \cup {Len(s) + 1})

is_a_model(s) ==
  LET l == Skip(s, 1, {ch_l})
      t == Skip(s, l, {ch_t})
  IN  /\ l - 1 <= 3 /\ l < Len(s)
      /\ t - l \in 1..5
      /\ Len(s) + 1 - t \in 1..3 /\ Skip(s, t, Digit) = Len(s) + 1

str_reverse(str) == Reverse(str)

(* mutant: the digits are not reversed *)
is_b_model_forward(s, rest) ==
  LET i == Skip(s, 1, {ch_i})
      d == Skip(s, i, Digit)
      u == Skip(s, d, {ch_u})
      e == Skip(s, u, Digit)
      tem_str == SubSeq(s, i, d - 1) \o SubSeq(rest, d - i + 1, Len(rest))
  IN  /\ i - 1 >= 2 /\ i < Len(s)
      /\ d - i \in 1..3 /\ d < Len(s)
      /\ odd(u - d) /\ u < Len(s)
      /\ SubSeq(s, u, e - 1) = tem_str
      /\ odd(Len(s) + 1 - e) /\ Skip(s, e, Upper) = Len(s) + 1

(* The digits are collected in tem_str, which has no terminator: what the  *)
(* chunk held behind them belongs to it.  The other buffer is a new chunk. *)
is_b_model(s, rest) ==
  LET i == Skip(s, 1, {ch_i})
      d == Skip(s, i, Digit)
      u == Skip(s, d, {ch_u})
      e == Skip(s, u, Digit)
      tem_str == SubSeq(s, i, d - 1) \o SubSeq(rest, d - i + 1, Len(rest))
  IN  /\ i - 1 >= 2 /\ i < Len(s)
      /\ d - i \in 1..3 /\ d < Len(s)
      /\ odd(u - d) /\ u < Len(s)
      /\ SubSeq(s, u, e - 1) = str_reverse(tem_str)
      /\ odd(Len(s) + 1 - e) /\ Skip(s, e, Upper) = Len(s) + 1

(* is_b_model comes as far as its first malloc; an empty string is judged  *)
(* by the byte behind it.                                                  *)
AllocatesFor(s, next) ==
  LET i == Skip(s, 1, {ch_i}) IN IF s = <<>> THEN next # 0 ELSE i - 1 >= 2 /\ i < Len(s)

deal_positioned(positioned) == [k \in 1..(1 + Len(positioned) \div 2) |-> positioned[2 * k - 1]]

is_c_model(s) ==
  LET f == Skip(s, 1, {ch_f})
      up == Skip(s, f, Upper)
      p == Skip(s, up, {ch_p})
      e == Skip(s, p, Upper)
  IN  /\ odd(f - 1) /\ f < Len(s)
      /\ odd(up - f) /\ up < Len(s)
      /\ p - up >= 2 /\ p < Len(s)
      /\ SubSeq(s, p, e - 1) = deal_positioned(SubSeq(s, f, up - 1))
      /\ Len(s) + 1 - e \in 1..3 /\ Skip(s, e, Digit) = Len(s) + 1

(* The digits collected in tem_str or in temp_for_cmp, or the letters in   *)
(* positioned, are more than their chunk holds.                            *)
OverrunsB(s) ==
  LET i == Skip(s, 1, {ch_i})
      d == Skip(s, i, Digit)
      u == Skip(s, d, {ch_u})
      e == Skip(s, u, Digit)
  IN  /\ i - 1 >= 2 /\ i < Len(s)
      /\ \/ d - i > SMALL_CHUNK
         \/ d - i \in 1..3 /\ d < Len(s) /\ odd(u - d) /\ u < Len(s) /\ e - u > SMALL_CHUNK
OverrunsC(s) ==
  LET f == Skip(s, 1, {ch_f})
  IN  odd(f - 1) /\ f < Len(s) /\ Skip(s, f, Upper) - f > LARGE_CHUNK
Overruns(model, s) == (model = flag_b /\ OverrunsB(s)) \/ (model = flag_c /\ OverrunsC(s))

-----------------------------------------------------------------------------
(* Strings in memory: m[p] is the first byte. *)
strlen(m, p) == Min({k \in p..Len(m) : m[k] = 0}) - p
Str(m, p) == SubSeq(m, p, p + strlen(m, p) - 1)

Layout(list) == FlattenSeq([k \in DOMAIN list |-> Append(list[k], 0)]) \o Environment
Start(list, k) == 1 + Len(FlattenSeq([j \in 1..(k - 1) |-> Append(list[j], 0)]))

a_model_conversion(m, p) ==
  [k \in DOMAIN m |->
     IF k \notin p..(p + strlen(m, p) - 1) THEN m[k]
     ELSE IF m[k] = ch_D THEN ch_F ELSE IF m[k] = ch_F THEN ch_D ELSE m[k]]

(* Each character and the last digit of its index in octal.  temp has no   *)
(* room for a terminator: from the second one on it is the chunk that was  *)
(* just freed, and strcat copies what follows in it.                       *)
b_model_conversion(s, rest) ==
  SubSeq(FlattenSeq([k \in DOMAIN s |->
           <<s[k], 48 + ((k - 1) % 8)>> \o IF k = 1 THEN <<>> ELSE SubSeq(rest, 3, Len(rest))]),
         1, 2 * Len(s))

(* mutant: the whole length is moved *)
remove_char_at_index_whole(m, p, index) ==
  LET n == strlen(m, p)
  IN  [k \in DOMAIN m |-> IF k \in (p + index)..(p + index + n - 1) THEN m[k + 1] ELSE m[k]]

(* memmove of strlen(str) - 1 bytes, however few there are behind index.   *)
remove_char_at_index(m, p, index) ==
  LET n == strlen(m, p) - 1
  IN  [k \in DOMAIN m |-> IF k \in (p + index)..(p + index + n - 1) THEN m[k + 1] ELSE m[k]]

Indices(s) == {k - 1 : k \in {j \in DOMAIN s : s[j] = ch_A}}

(* 0 stands for no 'A' at all. *)
c_model_conversion(m, p) ==
  LET found == Indices(Str(m, p))
      first_index == IF found = {} THEN 0 ELSE Min(found)
      last_index == Max(found)
  IN  IF first_index = 0 THEN m
      ELSE remove_char_at_index(remove_char_at_index(m, p, first_index), p, last_index - 1)

-----------------------------------------------------------------------------
MatchIdle == argno = 1 /\ mode = <<>> /\ freed = FALSE /\ output = <<>>

MatchInit ==
  /\ args \in ArgLists
  /\ mem = Layout(args)
  /\ stale \in StaleBytes
  /\ MatchIdle
  /\ matching = "main"

Loop(model, convert, from) ==
  /\ mode' = [model |-> model, convert |-> convert]
  /\ argno' = from
  /\ matching' = "loop"

Stop(result) == matching' = result /\ UNCHANGED <<mode, argno>>

(* The chain of conditions in main.  With one argument the last ones       *)
(* compare argv[2], which is NULL.                                         *)
main ==
  /\ matching = "main"
  /\ LET argc == Len(args) + 1
         flagged == argc >= 2 /\ args[1] \in Models \cup {flag_t}
     IN  IF argc <= 1 THEN Stop("done")
         ELSE IF ~flagged THEN Loop(flag_a, FALSE, 1)
         ELSE IF argc = 2 THEN Stop("crashed")
         ELSE IF args[1] = flag_t /\ args[2] \notin Models THEN Loop(flag_a, TRUE, 2)
         ELSE IF args[1] # flag_t /\ args[2] # flag_t THEN Loop(args[1], FALSE, 2)
         ELSE IF args[1] = flag_t THEN Loop(args[2], TRUE, 3)
         ELSE IF argc >= 4 THEN Loop(args[1], TRUE, 3)
         ELSE Stop("done")
  /\ UNCHANGED <<args, mem, freed, stale, output>>

(* One argument: what is printed, and what it leaves in memory.            *)
Answer(s, matches, m, converted) ==
  /\ output' = Append(output, [arg |-> argno, seen |-> s,
                               said |-> IF mode.convert THEN (IF matches THEN converted ELSE <<>>)
                                        ELSE IF matches THEN Yes ELSE No])
  /\ mem' = IF mode.convert /\ matches THEN m ELSE mem
  /\ argno' = argno + 1

Each(model) ==
  /\ matching = "loop" /\ argno <= Len(args) /\ mode.model = model
  /\ ~Overruns(model, Str(mem, Start(args, argno)))
  /\ UNCHANGED <<args, mode, stale>>

EachA ==
  /\ Each(flag_a)
  /\ \E p \in {Start(args, argno)} :
       LET m == a_model_conversion(mem, p)
       IN  Answer(Str(mem, p), is_a_model(Str(mem, p)), m, Str(m, p))
  /\ UNCHANGED <<freed, matching>>

EachB ==
  /\ Each(flag_b)
  /\ \E p \in {Start(args, argno)} : \E s \in {Str(mem, p)} :
       LET held == IF freed THEN stale ELSE <<>>
           allocates == AllocatesFor(s, mem[p + 1])
           matches == is_b_model(s, held)
       IN  /\ s = <<>> /\ allocates => held # <<>>
           /\ Answer(s, matches, mem, b_model_conversion(s, stale))
           /\ freed' = IF matches /\ mode.convert THEN TRUE ELSE freed /\ ~allocates
  /\ UNCHANGED matching

EachC ==
  /\ Each(flag_c)
  /\ \E p \in {Start(args, argno)} :
       \E m \in {IF mode.convert /\ is_c_model(Str(mem, p)) THEN c_model_conversion(mem, p) ELSE mem} :
         Answer(Str(mem, p), is_c_model(Str(mem, p)), m, Str(m, p))
  /\ UNCHANGED <<freed, matching>>

(* An empty argument: is_a_model reads index, which is not set, and        *)
(* is_b_model may come to reverse an empty string, from index 0 to -1.     *)
EmptyArgument ==
  /\ matching = "loop" /\ argno <= Len(args)
  /\ LET p == Start(args, argno)
     IN  /\ mem[p] = 0
         /\ \/ mode.model = flag_a
            \/ mode.model = flag_b /\ AllocatesFor(<<>>, mem[p + 1]) /\ (freed => stale = <<>>)
  /\ matching' = "crashed"
  /\ UNCHANGED <<args, mem, argno, mode, freed, stale, output>>

(* A chunk is written past its end, by the match or, where the chunk of    *)
(* temp holds more than two bytes, by strcat in a conversion under -b: from *)
(* here on malloc may abort or any answer may be printed.                  *)
Overrun ==
  /\ matching = "loop" /\ argno <= Len(args)
  /\ \E s \in {Str(mem, Start(args, argno))} :
       \/ Overruns(mode.model, s)
       \/ /\ mode = [model |-> flag_b, convert |-> TRUE] /\ Len(stale) > 2
          /\ is_b_model(s, IF freed THEN stale ELSE <<>>)
  /\ matching' = "overrun"
  /\ UNCHANGED <<args, mem, argno, mode, freed, stale, output>>

Return ==
  /\ matching = "loop" /\ argno > Len(args)
  /\ matching' = "done"
  /\ UNCHANGED <<args, mem, argno, mode, freed, stale, output>>

MatchNext == main \/ EachA \/ EachB \/ EachC \/ EmptyArgument \/ Overrun \/ Return

MatchSpec == MatchInit /\ [][MatchNext]_matchVars

-----------------------------------------------------------------------------
(* The models, stated without loops: runs of given lengths, each over one  *)
(* class of characters.                                                    *)
Offset(lens, part) ==
  LET before[k \in 1..part] == IF k = 1 THEN 0 ELSE before[k - 1] + lens[k - 1]
  IN  before[part]
Part(s, lens, part) == SubSeq(s, Offset(lens, part) + 1, Offset(lens, part + 1))
Shape(s, lens, classes) ==
  /\ Len(s) = Offset(lens, Len(lens) + 1)
  /\ \A part \in DOMAIN lens : ToSet(Part(s, lens, part)) \subseteq classes[part]

Fits(model, s) ==
  CASE model = flag_a ->
         \E l \in 0..3, t \in 1..5, d \in 1..3 : Shape(s, <<l, t, d>>, <<{ch_l}, {ch_t}, Digit>>)
    [] model = flag_b ->
         \E i \in 2..Len(s), d \in 1..3, u, e \in {n \in DOMAIN s : odd(n)} :
           LET lens == <<i, d, u, d, e>>
           IN  Shape(s, lens, <<{ch_i}, Digit, {ch_u}, Digit, Upper>>)
                 /\ Part(s, lens, 4) = Reverse(Part(s, lens, 2))
    [] model = flag_c ->
         \E f, e \in {n \in DOMAIN s : odd(n)}, p \in 2..Len(s), d \in 1..3 :
           LET lens == <<f, e, p, (e + 1) \div 2, d>>
           IN  /\ Shape(s, lens, <<{ch_f}, Upper, {ch_p}, Upper, Digit>>)
               /\ \A k \in 1..((e + 1) \div 2) : Part(s, lens, 4)[k] = Part(s, lens, 2)[2 * k - 1]

Without(s, gone) == [k \in 1..(Len(s) - Cardinality(gone)) |->
  s[CHOOSE j \in DOMAIN s \ gone : Cardinality({i \in DOMAIN s \ gone : i <= j}) = k]]

(* Without its first and last 'A', or without the only one and what is in  *)
(* front of it.                                                            *)
Converted(model, s) ==
  LET found == {k \in DOMAIN s : s[k] = ch_A}
  IN  CASE model = flag_a -> s
        [] model = flag_b -> [k \in 1..(2 * Len(s)) |-> IF odd(k) THEN s[(k + 1) \div 2]
                                                        ELSE 48 + (((k \div 2) - 1) % 8)]
        [] model = flag_c -> IF found = {} THEN s
                             ELSE IF Cardinality(found) = 1 THEN Without(s, found \cup {Min(found) - 1})
                             ELSE Without(s, {Min(found), Max(found)})

(* The options: a model (-a unless one is given) and -t, in any order.     *)
Options ==
  LET given == IF Len(args) >= 2 /\ {args[1], args[2]} \in {{m, flag_t} : m \in Models} THEN 2
               ELSE IF args # <<>> /\ args[1] \in Models \cup {flag_t} THEN 1 ELSE 0
      flags == {args[k] : k \in 1..given}
  IN  [given |-> given, convert |-> flag_t \in flags,
       model |-> IF flags \cap Models = {} THEN flag_a ELSE CHOOSE m \in Models : m \in flags]

(* s has n characters of the class in a row. *)
HasRun(s, n, class) == \E j \in 0..(Len(s) - n) : \A k \in 1..n : s[j + k] \in class

(* What is printed for each argument is its verdict or conversion by the   *)
(* model the options name, as long as malloc returns zeroed memory or no   *)
(* conversion under -b has freed a chunk (matchlab.c:154 and 195).  The    *)
(* program crashes only on a lone option or an empty argument, and leaves  *)
(* its chunks (matchlab.c:125, 161, 195 and 247) only on a run of digits   *)
(* under -b or of letters under -c that is longer than them, or when a     *)
(* chunk that is not zeroed is converted into under -b.                    *)
OutputRight ==
  /\ (stale = <<>> \/ [model |-> flag_b, convert |-> TRUE] # mode) =>
       \A k \in DOMAIN output :
         output[k].said = IF ~Options.convert THEN (IF Fits(Options.model, output[k].seen) THEN Yes ELSE No)
                          ELSE IF Fits(Options.model, output[k].seen) THEN Converted(Options.model, output[k].seen)
                          ELSE <<>>
  /\ matching = "done" => Len(output) = Len(args) - Options.given
  /\ matching = "crashed" => Len(args) = Options.given \/ \E k \in DOMAIN args : args[k] = <<>>
  /\ matching = "overrun" =>
       LET s == Str(mem, Start(args, argno))
       IN  \/ Options.model = flag_b /\ HasRun(s, SMALL_CHUNK + 1, Digit)
           \/ Options.model = flag_c /\ HasRun(s, LARGE_CHUNK + 1, Upper)
           \/ Options.model = flag_b /\ Options.convert /\ Len(stale) > 2 /\ Fits(flag_b, s)

(* An argument is still what was given on the command line when its turn   *)
(* comes, unless the conversion of an earlier one under -c moved bytes     *)
(* behind its own end: remove_char_at_index moves as many bytes as the     *)
(* string is long, wherever the 'A' is (matchlab.c:311), so a first 'A' at *)
(* index 3 or more, or a last one at 5 or more, reaches the next argument. *)
ArgumentsKept ==
  \A k \in DOMAIN output :
    \/ output[k].seen = args[output[k].arg]
    \/ /\ mode = [model |-> flag_c, convert |-> TRUE]
       /\ \E j \in 1..(k - 1) :
            LET found == Indices(output[j].seen)
            IN  found # {} /\ Fits(flag_c, output[j].seen) /\ (Min(found) >= 3 \/ Max(found) >= 5)
=============================================================================
