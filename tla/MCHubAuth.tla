----------------------------- MODULE MCHubAuth ------------------------------
(* HubAuth for TLC: two hubs and two satellites of one ID, which both know  *)
(* the token.  One has no key pair at first, the other is at times started  *)
(* without its key.  One clock is too far off.                              *)
EXTENDS HubAuth, TLC

Skews == {-121, 0, 120}
=============================================================================
