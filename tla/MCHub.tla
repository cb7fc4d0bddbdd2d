------------------------------- MODULE MCHub -------------------------------
(* Hub with interchangeable buffers and packets. *)
EXTENDS Hub, TLC

Symmetry == Permutations(Buffers) \cup Permutations(Packets)
=============================================================================
