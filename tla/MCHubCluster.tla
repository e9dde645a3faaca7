---------------------------- MODULE MCHubCluster ----------------------------
(* HubCluster for TLC: a chain of three hubs of which one restarts, and a   *)
(* pair that shares a schedule while everything else happens.              *)
EXTENDS HubCluster, TLC

CONSTANTS h1, h2, h3, s1, p1

Puts1 == p1 :> s1
Nobody == [h \in Hub |-> {}]
Chain == [seeds |-> [Nobody EXCEPT ![h2] = {h1}, ![h3] = {h2}], puts |-> {},
          deletions |-> 0, losses |-> 0, restarts |-> 1, overlap |-> FALSE]
Pair  == [seeds |-> [Nobody EXCEPT ![h2] = {h1}], puts |-> {p1},
          deletions |-> 1, losses |-> 1, restarts |-> 1, overlap |-> TRUE]
Scenes == {Chain, Pair}
=============================================================================
