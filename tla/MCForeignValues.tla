---------------------------- MODULE MCForeignValues ----------------------------
(* Instances of ForeignValues for TLC.  The C variables are interchangeable. *)
EXTENDS ForeignValues, TLC

Symmetry == Permutations(Var)

(* States in which every variable holds something are checked with any number *)
(* of allocations, and followed further with few.                           *)
MaxFull == 4
FewWhenFull == (\A x \in Var : var[x] # Nothing) => Cardinality(Live) <= MaxFull
================================================================================
