---------------------------- MODULE MCPerfDriver ----------------------------
(* Command lines and images for the performance lab's driver. *)
EXTENDS PerfDriver, FiniteSets

MCTestDim == [k \in Kinds |-> IF k = "pinwheel" THEN <<8>> ELSE <<8, 16>>]

Setup(g, file, mode, channel) ==
  [autograder |-> g, bench_func_file |-> file, quit_after_dump |-> FALSE,
   image_mode |-> mode, channel |-> channel, file_opens |-> TRUE, refused |-> FALSE]

(* every image with all functions; -g, -f, -q and refused options with one *)
MCSetups ==
  {Setup(FALSE, NULL, mode, c) : mode \in {"gradient", "squares"}, c \in Channels}
    \cup {Setup(FALSE, NULL, "random", "red"), Setup(TRUE, NULL, "gradient", "red"),
          [Setup(FALSE, NULL, "random", "red") EXCEPT !.quit_after_dump = TRUE],
          [Setup(TRUE, NULL, "random", "red") EXCEPT !.refused = TRUE],
          [Setup(FALSE, {}, "random", "red") EXCEPT !.file_opens = FALSE]}
    \cup {Setup(FALSE, file, "gradient", "red") : file \in {f \in SUBSET Dump : Cardinality(f) \in {0, 1, 3}}}
    \cup {Setup(FALSE, Dump \cup {line}, "gradient", "red") : line \in Bare}

(* the corners, and pixels next to the last row and column; in the larger  *)
(* image only those of its diagonal                                        *)
MCBright == [d \in {8, 16} |->
  {RIDX(i, j, d) : i, j \in {0, d - 2, d - 1}} \cap {p \in Pixels(d) : d = 8 \/ Row(p, d) = Col(p, d)}]
=============================================================================
