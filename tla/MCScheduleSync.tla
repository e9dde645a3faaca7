--------------------------- MODULE MCScheduleSync ---------------------------
(* ScheduleSync for TLC.                                                   *)
EXTENDS ScheduleSync, TLC

CONSTANTS a1, s1, s2, o1, o2, o3

PutTo(s, a)  == [kind |-> "put", sched |-> s, agent |-> a]
DeleteOf(s)  == [kind |-> "delete", sched |-> s, agent |-> a1]

\* Two schedules of one agent, one of which goes again.
Stay == o1 :> PutTo(s1, a1) @@ o2 :> PutTo(s2, a1) @@ o3 :> DeleteOf(s1)
=============================================================================
