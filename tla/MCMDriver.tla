----------------------------- MODULE MCMDriver ------------------------------
(* Small traces for the allocator. *)
EXTENDS MDriver, TLC

(* The owners of these blocks store a word that looks like the tag of a    *)
(* prologue, the others one that looks like the terminator.                *)
CONSTANT Tagged

MCFillWord == [i \in Ids |-> IF i \in Tagged THEN PACK(8, 1) ELSE PACK(0, 1)]

Symmetry == Permutations(Tagged) \cup Permutations(Ids \ Tagged)
=============================================================================
