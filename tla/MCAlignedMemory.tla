---------------------------- MODULE MCAlignedMemory ----------------------------
(* AlignedMemory for TLC: two callers, who are interchangeable. *)
EXTENDS AlignedMemory, TLC

CallerSymmetry == Permutations(Callers)
=============================================================================
