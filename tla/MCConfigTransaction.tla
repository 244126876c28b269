------------------------- MODULE MCConfigTransaction -------------------------
(***************************************************************************)
(* Two module keys and three snapshots: the empty one, and two that differ   *)
(* in a changed, an added or removed module, the plan, MQTT and the policy.  *)
(***************************************************************************)
EXTENDS ConfigTransaction, TLC

CONSTANTS v1, v2, ble, wifi

MCKeys == 1 .. 2

Empty == [modules |-> [k \in MCKeys |-> Absent], plan |-> {NoPlan}, mqtt |-> FALSE, policy |-> ble]
Small == [modules |-> [k \in MCKeys |-> IF k = 1 THEN v1 ELSE Absent], plan |-> {1},
          mqtt |-> TRUE, policy |-> ble]
Large == [modules |-> [k \in MCKeys |-> v2], plan |-> {1, 2}, mqtt |-> FALSE, policy |-> wifi]

MCConfigs == {Empty, Small, Large}
MCSymmetry == Permutations(Users)
=============================================================================
