--------------------------- MODULE MCStoreForward ---------------------------
(* StoreForward for TLC: two results, two connections and two faults.     *)
EXTENDS StoreForward

CONSTANTS r1, r2
=============================================================================
