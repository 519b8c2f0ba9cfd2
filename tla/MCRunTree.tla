----------------------------- MODULE MCRunTree -----------------------------
(* RunTree with runs that are interchangeable, but for those with a deadline. *)
EXTENDS RunTree, TLC

RunSymmetry == Permutations(Dated) \cup Permutations(Run \ Dated)
=============================================================================
