---------------------------- MODULE MCConfigStore ----------------------------
(* Instances of ConfigStore: two tasks that take the lock and one that does  *)
(* not, in whatever processes they run.                                      *)
EXTENDS ConfigStore, TLC

CONSTANTS a, b, f

Apart == apart

Symmetry == Permutations(Locked)
=============================================================================
