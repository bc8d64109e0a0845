------------------------------ MODULE Kernels -------------------------------
(***************************************************************************)
(* The image kernels of kernels.c and the checks of driver.c, for one of   *)
(* the three colour channels, which are computed alike and independently.  *)
(* The driver's data is the images orig, tmp, result and copy_of_orig, one *)
(* behind the other.  A loop over pixels is the image it leaves, since no  *)
(* loop reads what it writes: the kernels read orig and write result.      *)
(***************************************************************************)
EXTENDS Integers

CONSTANT TILE     \* the kernels' blocks are TILE x TILE pixels (8)

ASSUME TileAssumption == TILE \in Nat \ {0}

RIDX(i, j, n) == i * n + j
Row(a, n) == a \div n
Col(a, n) == a % n
Pixels(dim) == 0..(dim * dim - 1)

(* A read through the pointer orig, which may run on into tmp. *)
Read(dim, mem, a) == IF a < dim * dim THEN mem.orig[a] ELSE mem.tmp[a - dim * dim]

(* The indices a loop in steps of TILE visits: whole blocks, so it may run *)
(* past n.                                                                 *)
Tiles(n) == 0..(((n + TILE - 1) \div TILE) * TILE - 1)

(* The four quadrants, turned: in the quadrant at (top, left),             *)
(* dest[top + semi - 1 - j][left + i] = src[top + i][left + j]             *)
(* for i and j in span.  Other pixels keep what result held.               *)
Turned(dim, span, mem) ==
  LET semi == dim \div 2
  IN  [a \in Pixels(dim) |->
         LET top == IF Row(a, dim) < semi THEN 0 ELSE semi
             left == IF Col(a, dim) < semi THEN 0 ELSE semi
             i == Col(a, dim) - left
             j == top + semi - 1 - Row(a, dim)
         IN  IF i \in span /\ j \in span
             THEN Read(dim, mem, RIDX(top + i, left + j, dim)) ELSE mem.result[a]]

naive_pinwheel(dim, mem) == Turned(dim, 0..(dim \div 2 - 1), mem)
pinwheel(dim, mem) == Turned(dim, Tiles(dim \div 2), mem)

-----------------------------------------------------------------------------
(* weights[di][dj] is 2^-Shift(di, dj); the two corners left out have      *)
(* weight 0.  A term is truncated before it is added, by the int sum of    *)
(* the naive code as by the shift of the optimised one.                    *)
Window == {<<0,0>>, <<0,1>>, <<1,0>>, <<1,1>>, <<1,2>>, <<2,1>>, <<2,2>>}
Shift(d) == CASE d = <<0,0>> -> 1 [] d = <<1,1>> -> 2 [] d = <<2,2>> -> 3 [] OTHER -> 5
Term(dim, mem, i, j, d) == Read(dim, mem, RIDX(i + d[1], j + d[2], dim)) \div 2^Shift(d)

(* The sum over the given part of the window, stored as an unsigned short. *)
Sum(dim, mem, i, j, part) ==
  LET t(d) == IF d \in part THEN Term(dim, mem, i, j, d) ELSE 0
  IN  (t(<<0,0>>) + t(<<0,1>>) + t(<<1,0>>) + t(<<1,1>>) + t(<<1,2>>)
         + t(<<2,1>>) + t(<<2,2>>)) % 65536

weighted_combo(dim, i, j, mem) ==
  Sum(dim, mem, i, j, {d \in Window : i + d[1] < dim /\ j + d[2] < dim})

naive_motion(dim, mem) ==
  [a \in Pixels(dim) |-> weighted_combo(dim, Row(a, dim), Col(a, dim), mem)]

(* The loops of motion in their order: where each stores (case 1 in whole  *)
(* blocks, so also in the last two rows and columns) and which part of the *)
(* window it adds up.                                                      *)
Store(dim, n) ==
  CASE n = 1 -> [rows |-> Tiles(dim - 2), cols |-> Tiles(dim - 2), part |-> Window]
    [] n = 2 -> [rows |-> {dim - 1}, cols |-> {dim - 1}, part |-> {<<0,0>>}]
    [] n = 3 -> [rows |-> 0..(dim - 2), cols |-> {dim - 1}, part |-> {<<0,0>>, <<1,0>>}]
    [] n = 4 -> [rows |-> {dim - 1}, cols |-> 0..(dim - 2), part |-> {<<0,0>>, <<0,1>>}]
    [] n = 5 -> [rows |-> 0..(dim - 3), cols |-> {dim - 2},
                 part |-> {<<0,0>>, <<1,0>>, <<0,1>>, <<1,1>>, <<2,1>>}]
    [] n = 6 -> [rows |-> {dim - 2}, cols |-> 0..(dim - 3),
                 part |-> {<<0,0>>, <<1,0>>, <<0,1>>, <<1,1>>, <<1,2>>}]
    [] n = 7 -> [rows |-> {dim - 2}, cols |-> {dim - 2},
                 part |-> {<<0,0>>, <<0,1>>, <<1,0>>, <<1,1>>}]

(* mutant: the special case is left out *)
Storing_no_special_case(dim, i, j) ==
  {n \in 1..6 : i \in Store(dim, n).rows /\ j \in Store(dim, n).cols}

(* The loops that store at (i, j). *)
Storing(dim, i, j) == {n \in 1..7 : i \in Store(dim, n).rows /\ j \in Store(dim, n).cols}
Latest(S) == CHOOSE n \in S : \A m \in S : m <= n

(* A pixel has the sum that was stored last.  Where case 1 stores in the   *)
(* last two rows it has read past the end of orig.                         *)
motion(dim, mem) ==
  [a \in Pixels(dim) |->
     LET i == Row(a, dim)  j == Col(a, dim)
         stored == Storing(dim, i, j)
     IN  IF stored = {} THEN mem.result[a]
         ELSE Sum(dim, mem, i, j, Store(dim, Latest(stored)).part)]

-----------------------------------------------------------------------------
(* compare_pixels over the whole of orig *)
check_orig(mem) == mem.orig # mem.copy_of_orig

(* The checks recompute the image into tmp and compare result with it.     *)
check_pinwheel(dim, mem) ==
  check_orig(mem) \/ naive_pinwheel(dim, mem) # mem.result

check_weighted_sum(dim, i, j, mem) ==
  Sum(dim, mem, i, j, {d \in Window : i + d[1] < dim /\ j + d[2] < dim})

check_motion(dim, mem) ==
  check_orig(mem) \/
    [a \in Pixels(dim) |-> check_weighted_sum(dim, Row(a, dim), Col(a, dim), mem)] # mem.result

-----------------------------------------------------------------------------
(* Colours of create, for the channel the model follows: scale of driver.c *)
(* and its three formulas, then the unsigned short it is stored in.        *)
scale(i, from, to) == (i * to) \div from
Abs(x) == IF x < 0 THEN -x ELSE x

Gradient(dim, channel) ==
  [a \in Pixels(dim) |->
     LET i == Row(a, dim)  j == Col(a, dim)
     IN  CASE channel = "red" -> scale(i, dim, 65536)
           [] channel = "green" -> scale(Abs(j - i), dim, 65536)
           [] channel = "blue" -> scale(i + j, 2 * dim, 65536)]

Squares(dim, side, channel) ==
  [a \in Pixels(dim) |->
     LET i == Row(a, dim)  j == Col(a, dim)
     IN  IF (i \div side) % 2 = 1 /\ (j \div side) % 2 = 1
         THEN scale(CASE channel = "red" -> i \div side
                      [] channel = "green" -> j \div side
                      [] channel = "blue" -> (i + j) \div side,
                    dim \div side, 65536) % 65536
         ELSE 0]
=============================================================================
