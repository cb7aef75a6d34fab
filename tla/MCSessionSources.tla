--------------------------- MODULE MCSessionSources ---------------------------
(* Instances of SessionSources for TLC. *)
EXTENDS SessionSources

CONSTANTS t1, f1, w1, w2
===============================================================================
