----------------------------- MODULE MCRootSlot -----------------------------
(* Instances of RootSlot; the constants are numbers given in the cfg files.  *)
EXTENDS RootSlot
=============================================================================
