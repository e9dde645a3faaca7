------------------------------ MODULE RPCCalls ------------------------------
(***************************************************************************)
(* What Hub.DispatchJob promises its callers about the job it dispatches   *)
(* to a locally connected agent, without connections, queues or channels.  *)
(* A call ends in one of three ways: it is answered, it is rejected (the   *)
(* job did not and will not reach the agent, so it is safe to dispatch it  *)
(* again), or the caller gives up without knowing.                         *)
(***************************************************************************)
CONSTANT Call

VARIABLES
  status,  \* what the caller knows of the call
  ran      \* the calls whose job reached the agent

Init ==
  /\ status = [c \in Call |-> "open"]
  /\ ran = {}

\* The job reaches the agent, once; the caller may already have given up.
Run(c) ==
  /\ c \notin ran
  /\ status[c] # "rejected"
  /\ ran' = ran \cup {c}
  /\ UNCHANGED status

End(c, how) ==
  /\ status[c] = "open"
  /\ status' = [status EXCEPT ![c] = how]
  /\ UNCHANGED ran

Answer(c) == c \in ran /\ End(c, "answered")
Reject(c) == c \notin ran /\ End(c, "rejected")
GiveUp(c) == End(c, "unknown")

Next == \E c \in Call : Run(c) \/ Answer(c) \/ Reject(c) \/ GiveUp(c)

Spec == Init /\ [][Next]_<<status, ran>>
=============================================================================
