---------------------------- MODULE MCProjectStore ----------------------------
(***************************************************************************)
(* ProjectStore with two tabs and a history of two revisions.               *)
(***************************************************************************)
EXTENDS ProjectStore

CONSTANTS a, b
=============================================================================
