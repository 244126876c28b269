------------------------------ MODULE MCUpdate ------------------------------
(* Every transport, and images of two chunks: the first holds the header. *)
EXTENDS Update
=============================================================================
