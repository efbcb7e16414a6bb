---------------------------- MODULE MCDriveRoots ----------------------------
(* Instances of DriveRoots. *)
EXTENDS DriveRoots, TLC

CONSTANTS d1, d2

TwoDevices == {d1, d2}
Two == d1 :> 3 @@ d2 :> 3
TwoUneven == d1 :> 3 @@ d2 :> 2
=============================================================================
