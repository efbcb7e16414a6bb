-------------------------- MODULE MCDriveContents ---------------------------
(* Instances of DriveContents: paths as model values, which are alike. *)
EXTENDS DriveContents, TLC

CONSTANTS x, y

Symmetry == Permutations(Paths)
=============================================================================
