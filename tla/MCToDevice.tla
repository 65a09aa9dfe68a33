----------------------------- MODULE MCToDevice ------------------------------
(* Finite instances of ToDevice for TLC. *)
EXTENDS ToDevice, TLC

Symmetry == Permutations(Handlers)
==============================================================================
