-------------------------- MODULE MCRecordDelivery --------------------------
(***************************************************************************)
(* RecordDelivery with two consumers, two sources whose sequences coincide  *)
(* and a ring of two records, which five pushes wrap twice.                 *)
(***************************************************************************)
EXTENDS RecordDelivery

CONSTANTS mqtt, usb, a, b
=============================================================================
