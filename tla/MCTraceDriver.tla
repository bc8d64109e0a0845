--------------------------- MODULE MCTraceDriver ----------------------------
(* Small traces for mdriver.c, and its page layer: a behaviour is of one    *)
(* of the two programs.                                                    *)
EXTENDS TraceDriver, PageMap

A(i, n) == [type |-> "ALLOC", index |-> i, size |-> n]
R(i, n) == [type |-> "REALLOC", index |-> i, size |-> n]
F(i) == [type |-> "FREE", index |-> i, size |-> 0]
Trace(ids, ops) == [num_ids |-> ids, num_ops |-> Len(ops), ops |-> ops]

(* Allocations of both sizes in every order, a realloc that grows and one  *)
(* that shrinks, a free that is followed by an allocation, requests for no *)
(* byte, and a file whose header is wrong.                                 *)
MCFiles ==
  {Trace(3, <<A(0, m), A(1, n), A(2, m)>>) : m, n \in {8, 40}}
    \cup {Trace(2, <<A(0, m), A(1, 8), R(0, n), F(1)>>) : m, n \in {8, 40}}
    \cup {Trace(2, <<A(0, 40), F(0), A(1, 8), A(0, 40)>>),
          Trace(1, <<A(0, 8), R(0, 0)>>),
          [Trace(1, <<A(0, 8)>>) EXCEPT !.num_ops = 2]}

-----------------------------------------------------------------------------
Driving == pc = "none"
MCInit ==
  \/ Init /\ NothingMapped /\ Driving
  \/ PageInit /\ Init /\ run_libc /\ \A n \in DOMAIN files : files[n] = Trace(1, <<A(0, 8), R(0, 0)>>)
MCNext == (Driving /\ Next /\ UNCHANGED pageVars) \/ (PageNext /\ UNCHANGED vars)
MCSpec == MCInit /\ [][MCNext]_<<vars, pageVars>> /\ WF_pageVars(Loop)
=============================================================================
