--------------------------- MODULE MCHardwareTest ---------------------------
(***************************************************************************)
(* HardwareTest with one recipe and one display program on one Core, one     *)
(* write of another editor and one restart.                                  *)
(***************************************************************************)
EXTENDS HardwareTest
=============================================================================
