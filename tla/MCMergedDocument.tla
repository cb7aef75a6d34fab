--------------------------- MODULE MCMergedDocument ---------------------------
(* Instances of MergedDocument for TLC. *)
EXTENDS MergedDocument, TLC

CONSTANTS ann, bob

MemberSymmetry == Permutations(Member)
===============================================================================
