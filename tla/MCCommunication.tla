--------------------------- MODULE MCCommunication ---------------------------
(***************************************************************************)
(* Two adapters and one slot of each kind, the smallest configuration the   *)
(* Kconfig allows: every limit is met and the replay cache evicts.  The two *)
(* requests of one principal share a correlation id; a provisioner with the *)
(* same one polls job 1.                                                    *)
(***************************************************************************)
EXTENDS Communication

CONSTANTS owner, provisioner

MCRequests ==
    { [principal |-> owner, correlation |-> 1, execution |-> "mutation", body |-> 1],
      [principal |-> owner, correlation |-> 1, execution |-> "async", body |-> 1],
      [principal |-> provisioner, correlation |-> 1, execution |-> "read", body |-> 1] }
=============================================================================
