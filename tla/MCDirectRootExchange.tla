------------------------- MODULE MCDirectRootExchange -------------------------
(* Instances of DirectRootExchange: a native device n admits w, which writes,*)
(* and r, which reads, in either order.                                      *)
EXTENDS DirectRootExchange, TLC

CONSTANTS n, w, r
=============================================================================
