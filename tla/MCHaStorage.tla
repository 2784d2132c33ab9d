---------------------------- MODULE MCHaStorage -----------------------------
(* Instances of HaStorage for TLC. *)
EXTENDS HaStorage, TLC

CONSTANTS n1, n2, w1, w2, s1, s2

WriterSymmetry == Permutations(Writer)
=============================================================================
