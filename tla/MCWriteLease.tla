---------------------------- MODULE MCWriteLease ----------------------------
(* Instances of WriteLease for TLC. *)
EXTENDS WriteLease, FiniteSets, TLC

CONSTANTS e1, e2, e3, o1, o2, r1, r2

Symmetry == Permutations(Execs) \cup Permutations(Owners) \cup Permutations(Resources)
=============================================================================
