--------------------------- MODULE MCHubRegistry ---------------------------
(* HubRegistry for TLC: two agents, one of which comes back.               *)
EXTENDS HubRegistry, TLC

CONSTANTS a1, a2, x1, x2, y1

TwoAgents == x1 :> a1 @@ x2 :> a1 @@ y1 :> a2
=============================================================================
