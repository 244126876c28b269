-------------------------- MODULE MCConfigDeployment --------------------------
(***************************************************************************)
(* ConfigDeployment with two editors, two chunks and one restart.           *)
(***************************************************************************)
EXTENDS ConfigDeployment

CONSTANTS a, b
=============================================================================
