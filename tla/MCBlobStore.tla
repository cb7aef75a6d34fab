----------------------------- MODULE MCBlobStore -----------------------------
(* Instances of BlobStore for TLC. *)
EXTENDS BlobStore

CONSTANTS u1, u2, s1, s2
===============================================================================
