-------------------------- MODULE MCSpaghettiClient --------------------------
(***************************************************************************)
(* SpaghettiClient with two calls that fit in the replay cache, one retry   *)
(* for each and one restart of the Core.                                    *)
(***************************************************************************)
EXTENDS SpaghettiClient

CONSTANTS a, b

MCStatusBoot == [i \in 1..MaxBoots |-> i]
=============================================================================
