---------------------------- MODULE DispatchProxy ----------------------------
(***************************************************************************)
(* One POST /dispatch in a cluster (hub/server.go, cmd/hub/main.go): the   *)
(* hub that gets it sends the job over the agent's connection if its       *)
(* registry holds one; if not, it asks its peers one after the other, in   *)
(* any order, with a header that keeps them from asking theirs.  Each hub  *)
(* at work on the dispatch is a frame of a stack.                          *)
(*                                                                         *)
(* What happens on a connection is AgentConnection's matter; here it is    *)
(* one step with the outcomes RPCCalls promises.  A registry may hold a    *)
(* connection the agent has left: such a connection fails or times out.    *)
(***************************************************************************)
EXTENDS Naturals, Sequences, FiniteSets

CONSTANTS
  Hub, Nil,
  Peers,    \* the peers each hub knows
  Origin,   \* the hub that gets the request
  MaxMove   \* bound on the agent's changes of hub

ASSUME HubAssumption == /\ Peers \in [Hub -> SUBSET Hub] /\ Origin \in Hub
                        /\ Nil \notin Hub
ASSUME MoveAssumption == MaxMove \in Nat

VARIABLES
  at,        \* the hubs whose registry holds a connection of the agent
  live,      \* the hub whose connection works, or Nil
  stack,     \* the hubs at work: [hub, proxy, todo, pc]
  reply,     \* what the last of them returned, until it is looked at
  expired,   \* the 15 seconds are over, or the client has gone
  executed,  \* history: the hubs over whose connection the agent ran the job
  broke,     \* history: a connection broke between the job and its response
  moves

agentVars == <<at, live, broke, moves>>
vars == <<agentVars, stack, reply, expired, executed>>

Frame == [hub : Hub, proxy : BOOLEAN, todo : SUBSET Hub,
          pc : {"lookup", "send", "ask"}]

TypeOK ==
  /\ at \in SUBSET Hub /\ live \in at \cup {Nil}
  /\ stack \in Seq(Frame)
  /\ reply \in {"none", "ok", "notConnected", "failed"}
  /\ expired \in BOOLEAN
  /\ executed \in Seq(Hub)
  /\ broke \in BOOLEAN /\ moves \in 0 .. MaxMove

NewFrame(h, proxy) == [hub |-> h, proxy |-> proxy, todo |-> {}, pc |-> "lookup"]

Init ==
  /\ at \in SUBSET Hub /\ live \in at \cup {Nil}
  /\ stack = <<NewFrame(Origin, TRUE)>>
  /\ reply = "none"
  /\ expired = FALSE
  /\ executed = <<>>
  /\ broke = FALSE /\ moves = 0

Top  == stack[Len(stack)]
Rest == SubSeq(stack, 1, Len(stack) - 1)

\* The top frame returns to the hub that asked, or to the client.
Return(outcome) == stack' = Rest /\ reply' = outcome

Works(label) == stack # <<>> /\ reply = "none" /\ Top.pc = label

-----------------------------------------------------------------------------
(* DispatchJob.                                                            *)

\* Fault: the header that forbids forwarding is not set.
MayForwardOn == TRUE

\* A request with X-Cluster-Proxy is not forwarded.
MayForward == FALSE

Lookup ==
  /\ Works("lookup")
  /\ stack' = [stack EXCEPT ![Len(stack)] =
                 IF Top.hub \in at THEN [Top EXCEPT !.pc = "send"]
                 ELSE [Top EXCEPT !.pc = "ask",
                                  !.todo = IF Top.proxy
                                             THEN Peers[Top.hub] \ {Top.hub}
                                             ELSE {}]]
  /\ UNCHANGED <<agentVars, reply, expired, executed>>

\* The job over this hub's connection.
Answered ==
  /\ Works("send") /\ live = Top.hub
  /\ executed' = Append(executed, Top.hub)
  /\ Return("ok")
  /\ UNCHANGED <<agentVars, expired>>

\* The job is done, but its response comes too late or never.
ResponseLost ==
  /\ Works("send") /\ live = Top.hub
  /\ \/ expired /\ UNCHANGED <<live, broke>>
     \/ broke' = TRUE /\ live' = Nil
  /\ executed' = Append(executed, Top.hub)
  /\ Return("failed")
  /\ UNCHANGED <<at, moves, expired>>

NotSent ==
  /\ Works("send") /\ (live # Top.hub \/ expired)
  /\ Return("failed")
  /\ UNCHANGED <<agentVars, expired, executed>>

\* DispatchJobToPeer; once the context has ended, it fails at once.
Ask ==
  /\ Works("ask")
  /\ \E p \in Top.todo :
       LET waiting == Append(Rest, [Top EXCEPT !.todo = @ \ {p}])
       IN stack' = IF expired THEN waiting
                   ELSE Append(waiting, NewFrame(p, MayForward))
  /\ UNCHANGED <<agentVars, reply, expired, executed>>

\* Fault: a response is not passed on at once; the other peers are asked, too.
PeerRepliedNotYet ==
  /\ stack # <<>> /\ reply # "none"
  /\ IF reply = "ok" /\ Top.todo = {}
       THEN Return("ok") ELSE reply' = "none" /\ UNCHANGED stack
  /\ UNCHANGED <<agentVars, expired, executed>>

\* Fault: the first peer that has no response ends the search.
PeerRepliedOnce ==
  /\ stack # <<>> /\ reply # "none"
  /\ Return(reply)
  /\ UNCHANGED <<agentVars, expired, executed>>

\* A response is passed on; an error sends the hub to the next peer.
PeerReplied ==
  /\ stack # <<>> /\ reply # "none"
  /\ IF reply = "ok" THEN Return("ok") ELSE reply' = "none" /\ UNCHANGED stack
  /\ UNCHANGED <<agentVars, expired, executed>>

NoPeerLeft ==
  /\ Works("ask") /\ Top.todo = {}
  /\ Return("notConnected")
  /\ UNCHANGED <<agentVars, expired, executed>>

DispatchJob ==
  \/ Lookup \/ Answered \/ ResponseLost \/ NotSent
  \/ Ask \/ PeerReplied \/ NoPeerLeft

-----------------------------------------------------------------------------
Expire ==
  /\ stack # <<>> /\ ~expired /\ expired' = TRUE
  /\ UNCHANGED <<agentVars, stack, reply, executed>>

\* The agent connects to a hub, or is cut off.
Move ==
  /\ moves < MaxMove /\ moves' = moves + 1
  /\ \/ \E h \in Hub \ at : live' = h /\ at' = at \cup {h}
     \/ live # Nil /\ live' = Nil /\ UNCHANGED at
  /\ UNCHANGED <<broke, stack, reply, expired, executed>>

\* A hub notices that the agent has left.
Unregister(h) ==
  /\ h \in at \ {live} /\ at' = at \ {h}
  /\ UNCHANGED <<live, broke, moves, stack, reply, expired, executed>>

Next ==
  DispatchJob \/ Expire \/ Move \/ \E h \in Hub : Unregister(h)

Spec == Init /\ [][Next]_vars

-----------------------------------------------------------------------------
(* Properties.                                                             *)

\* "Prevent forwarding loops": a forwarded dispatch is not forwarded again,
\* and no hub is asked twice.
OneHop ==
  /\ Len(stack) <= 2
  /\ Len(stack) = 2 => stack[2].hub \notin stack[1].todo \cup {Origin}

\* "agent is not connected" is true: an agent that stays where it is and is
\* connected to a hub that can be asked in time is found, also behind peers
\* that fail.
NotConnectedIsTrue ==
  stack = <<>> /\ reply = "notConnected" /\ ~expired /\ moves = 0 =>
    live \notin {Origin} \cup Peers[Origin]

\* The agent runs the job once, although several hubs may be asked and the
\* agent may move from one to another meanwhile, as long as no connection
\* breaks between the job and its response.
RunsOnce == ~broke => Len(executed) <= 1
=============================================================================
