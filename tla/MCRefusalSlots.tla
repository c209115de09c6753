--------------------------- MODULE MCRefusalSlots ---------------------------
(* RefusalSlots on a small instance.                                       *)
EXTENDS RefusalSlots, TLC

CONSTANTS r1, r2, r3

RequestSymmetry == Permutations({r1, r2, r3})
=============================================================================
