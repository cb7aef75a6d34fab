----------------------------- MODULE MCRequests ------------------------------
(* Instances of Requests for TLC: two browsers of one account, one of another. *)
EXTENDS Requests

CONSTANTS c1, c2, c3

MCAccount == c1 :> "alice" @@ c2 :> "alice" @@ c3 :> "bob"
==============================================================================
