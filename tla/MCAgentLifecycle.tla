-------------------------- MODULE MCAgentLifecycle --------------------------
(* AgentLifecycle for TLC: three hubs, and lists of other lengths than the *)
(* configured one.                                                         *)
EXTENDS AgentLifecycle

CONSTANTS h1, h2, h3

TwoHubs == <<h1, h2>>
Lists   == {<<h3>>, <<h3, h2, h1>>, <<>>}
=============================================================================
