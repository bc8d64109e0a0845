------------------------------- MODULE Malloc -------------------------------
(***************************************************************************)
(* What a client of mm.h is promised: mm_malloc returns an aligned payload *)
(* that shares no byte with a live one, mm_free gives one back, and no     *)
(* call moves or resizes another payload.                                  *)
(***************************************************************************)
EXTENDS Integers

CONSTANTS Ids, Sizes, Addrs

VARIABLE blocks

None == [ptr |-> 0, size |-> 0]
Live(i) == blocks[i] # None

(* [p, p+n) shares no byte with the live payloads.                         *)
Apart(p, n) ==
  \A i \in Ids : Live(i) => p + n <= blocks[i].ptr \/ blocks[i].ptr + blocks[i].size <= p

Init == blocks = [i \in Ids |-> None]

(* A payload for a new index, or a new payload for a live one; it is apart *)
(* from every payload that is live before the call, its own old one too.   *)
Allocate(i, n) ==
  \E p \in Addrs :
    /\ p % 16 = 0 /\ Apart(p, n)
    /\ blocks' = [blocks EXCEPT ![i] = [ptr |-> p, size |-> n]]

Release(i) == Live(i) /\ blocks' = [blocks EXCEPT ![i] = None]

Clear == blocks' = [i \in Ids |-> None]

Next == (\E i \in Ids : Release(i) \/ \E n \in Sizes : Allocate(i, n)) \/ Clear

Spec == Init /\ [][Next]_blocks
=============================================================================
