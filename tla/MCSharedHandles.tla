-------------------------- MODULE MCSharedHandles --------------------------
(* Instances of SharedHandles for TLC. *)
EXTENDS SharedHandles, TLC

MCSymmetry == Permutations(Thread) \cup Permutations(Handle)

=============================================================================
