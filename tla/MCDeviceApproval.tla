--------------------------- MODULE MCDeviceApproval ---------------------------
(* Instances of DeviceApproval: a mobile admin m and an admin c with the CLI *)
(* may both approve the device d, a phone or a computer.                     *)
EXTENDS DeviceApproval, TLC

CONSTANTS m, c, d

(* Bounds, by the transports there are.                                      *)
One == [t \in Transports |-> 1]
Two == [t \in Transports |-> 2]
IfAlone == [t \in Transports |-> IF Cardinality(t) = 1 THEN 2 ELSE 0]
OneTogether == [t \in Transports |-> IF Cardinality(t) = 1 THEN 2 ELSE 1]
=============================================================================
