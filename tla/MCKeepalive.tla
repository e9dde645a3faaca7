----------------------------- MODULE MCKeepalive -----------------------------
(* Keepalive for TLC, with the code's times in seconds.                     *)
EXTENDS Keepalive
=============================================================================
