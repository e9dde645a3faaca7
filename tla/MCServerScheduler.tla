-------------------------- MODULE MCServerScheduler --------------------------
(* ServerScheduler for TLC: a schedule that recurs and one for a given time. *)
EXTENDS ServerScheduler, TLC

CONSTANTS every, at

Recurring == every :> "interval" @@ at :> "at"
=============================================================================
