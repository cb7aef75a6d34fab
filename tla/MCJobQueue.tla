------------------------------ MODULE MCJobQueue ------------------------------
(* Instances of JobQueue for TLC. *)
EXTENDS JobQueue

CONSTANTS j1, j2, w1, w2

\* Every worker serves every job, as two orchestrators do.
SharedLanes == [w \in Worker |-> Job]
===============================================================================
