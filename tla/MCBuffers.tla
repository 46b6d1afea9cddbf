----------------------------- MODULE MCBuffers -----------------------------
(* A small instance of Buffers for TLC: two files of the same name in two  *)
(* directories.                                                            *)
EXTENDS Buffers

CONSTANTS f1, f2, i1, i2, i3

MCFileName == [r \in Paths |-> "f"]
Symmetry == Permutations(Paths) \cup Permutations(Inodes)
=============================================================================
