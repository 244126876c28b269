----------------------- MODULE MCDistributedDeployment -----------------------
(***************************************************************************)
(* DistributedDeployment with two remote boards, one write of another       *)
(* editor and one restart of each board.                                    *)
(***************************************************************************)
EXTENDS DistributedDeployment
=============================================================================
