----------------------------- MODULE MCComments ------------------------------
(* Instances of Comments for TLC. *)
EXTENDS Comments, TLC

CONSTANTS u1, u2, r1, q1

UserSymmetry == Permutations({u1, u2})
==============================================================================
