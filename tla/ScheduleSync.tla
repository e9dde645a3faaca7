---------------------------- MODULE ScheduleSync ----------------------------
(***************************************************************************)
(* How a hub's schedules reach its agents (hub/server.go, agent/client.go).*)
(* Every change of the schedules map, by the REST API or by a peer hub,    *)
(* and every new connection calls SyncAgentSchedules, which looks the      *)
(* agent's connection up, copies the agent's schedules and offers the copy *)
(* to the connection's send channel, each under a lock of its own.  The    *)
(* agent reads messages in order but handles each in a goroutine of its    *)
(* own; SyncSchedules replaces what the agent runs, and its cache file,    *)
(* under a.mu.                                                             *)
(*                                                                         *)
(* A schedule is the operation that put it.  Callers of                    *)
(* SyncAgentSchedules are the operations and, for each connection <<a,n>>, *)
(* its HTTP handler.  HubRegistry models how connections are registered,   *)
(* ServerScheduler what the agent does with a list.                        *)
(***************************************************************************)
EXTENDS Naturals, Sequences, FiniteSets

CONSTANTS
  Agent, Sched,  \* the IDs of agents and schedules
  Op,            \* the requests to change schedules
  Request,       \* what each asks for: [kind, sched, agent]
  None,          \* no schedule
  SendCap,       \* capacity of a connection's send channel
  MaxConn,       \* bound on the connections of each agent
  MaxRestart     \* bound on the restarts of the hub

ASSUME RequestAssumption ==
  Request \in [Op -> [kind : {"put", "delete"}, sched : Sched, agent : Agent]]
ASSUME NoneAssumption  == None \notin Op
ASSUME CallerAssumption == Op \cap (Agent \X (1 .. MaxConn)) = {}
ASSUME BoundAssumption ==
  SendCap \in Nat \ {0} /\ MaxConn \in Nat /\ MaxRestart \in Nat

VARIABLES
  schedules,  \* the hub's map
  call,       \* SyncAgentSchedules for each caller: [pc, agent, conn, list]
  up,         \* the agents whose connection is registered and works
  epoch,      \* the number of each agent's latest connection
  send,       \* the send channel of that connection
  handling,   \* the messages each agent is handling
  running,    \* what each agent runs and has on disk
  views,      \* history: the lists each agent has been entitled to
  calm,       \* history: the agents that lost no schedule to another one, and for
              \* which each change came when the ones before had settled, since
              \* they last connected
  restarts

netVars == <<up, epoch>>
histVars == <<views, calm, restarts>>
vars == <<schedules, call, netVars, send, handling, running, histVars>>

Handler == Agent \X (1 .. MaxConn)
Caller  == Op \cup Handler
List    == SUBSET (Sched \X Op)
Message == [by : Caller, conn : 0 .. MaxConn, list : List]

TypeOK ==
  /\ schedules \in [Sched -> Op \cup {None}]
  /\ call \in [Caller -> [pc : {"idle", "lookup", "snapshot", "enqueue",
                                "done"},
                          agent : Agent, conn : 0 .. MaxConn, list : List]]
  /\ up \in [Agent -> BOOLEAN] /\ epoch \in [Agent -> 0 .. MaxConn]
  /\ send \in [Agent -> Seq(Message)]
  /\ \A a \in Agent : Len(send[a]) <= SendCap
  /\ handling \in [Agent -> SUBSET Message]
  /\ running \in [Agent -> List]
  /\ views \in [Agent -> SUBSET List]
  /\ calm \in SUBSET Agent /\ restarts \in 0 .. MaxRestart

Init ==
  /\ schedules = [s \in Sched |-> None]
  /\ call = [k \in Caller |->
               [pc |-> "idle", conn |-> 0, list |-> {},
                agent |-> IF k \in Op THEN Request[k].agent ELSE k[1]]]
  /\ up = [a \in Agent |-> FALSE] /\ epoch = [a \in Agent |-> 0]
  /\ send = [a \in Agent |-> <<>>]
  /\ handling = [a \in Agent |-> {}]
  /\ running = [a \in Agent |-> {}]
  /\ views = [a \in Agent |-> {{}}]
  /\ calm = Agent /\ restarts = 0

\* The schedules of an agent.
ViewOf(map, a) ==
  {<<s, map[s]>> : s \in {t \in Sched : map[t] # None /\ Request[map[t]].agent = a}}

View(a) == ViewOf(schedules, a)

Returned(a) == [pc |-> "done", agent |-> a, conn |-> 0, list |-> {}]

Active(k) == call[k].pc \in {"lookup", "snapshot", "enqueue"}

\* Nothing is on its way to agent a.
Quiet(a) ==
  /\ \A k \in Caller : call[k].agent = a => ~Active(k)
  /\ send[a] = <<>> /\ handling[a] = {}

-----------------------------------------------------------------------------
(* The operations on the schedules map.                                    *)

\* A schedule of the agent becomes one of another agent, which alone is told.
MovesFrom(map, a) ==
  \E e \in View(a) : map[e[1]] # None /\ Request[map[e[1]]].agent # a

Change(map) ==
  /\ schedules' = map
  /\ views' = [a \in Agent |-> views[a] \cup {ViewOf(map, a)}]
  /\ calm' = {a \in calm : \/ ViewOf(map, a) = View(a)
                           \/ Quiet(a) /\ ~MovesFrom(map, a)}

\* Fault: the agent is synchronised before the map changes.
PutLate(o) ==
  /\ call[o].pc = "idle" /\ Request[o].kind = "put"
  /\ Change([schedules EXCEPT ![Request[o].sched] = o])
  /\ call' = [call EXCEPT ![o].pc = "enqueue", ![o].list = View(call[o].agent),
                          ![o].conn = epoch[call[o].agent]]
  /\ UNCHANGED <<netVars, send, handling, running, restarts>>

\* AddSchedule and SavePeerSchedule.
Put(o) ==
  /\ call[o].pc = "idle" /\ Request[o].kind = "put"
  /\ Change([schedules EXCEPT ![Request[o].sched] = o])
  /\ call' = [call EXCEPT ![o].pc = "lookup"]
  /\ UNCHANGED <<netVars, send, handling, running, restarts>>

\* DeleteSchedule and DeletePeerSchedule: the agent is the one the deleted
\* schedule had.
Delete(o) ==
  /\ call[o].pc = "idle" /\ Request[o].kind = "delete"
  /\ LET old == schedules[Request[o].sched] IN
       IF old = None
         THEN /\ call' = [call EXCEPT ![o] = Returned(call[o].agent)]
              /\ UNCHANGED <<schedules, views, calm>>
         ELSE /\ Change([schedules EXCEPT ![Request[o].sched] = None])
              /\ call' = [call EXCEPT ![o].pc = "lookup",
                                      ![o].agent = Request[old].agent]
  /\ UNCHANGED <<netVars, send, handling, running, restarts>>

-----------------------------------------------------------------------------
(* SyncAgentSchedules.                                                     *)

Lookup(k) ==
  /\ call[k].pc = "lookup"
  /\ LET a == call[k].agent
     IN call' = IF up[a] THEN [call EXCEPT ![k].pc = "snapshot", ![k].conn = epoch[a]]
                ELSE [call EXCEPT ![k] = Returned(a)]
  /\ UNCHANGED <<schedules, netVars, send, handling, running, histVars>>

\* Fault: the list is built from the map as it is at different times, that is,
\* without schedulesMu.
SnapshotTorn(k) ==
  /\ call[k].pc = "snapshot"
  /\ \E half \in SUBSET View(call[k].agent) :
       IF call[k].list = {}
         THEN call' = [call EXCEPT ![k].list = half]
         ELSE call' = [call EXCEPT ![k].pc = "enqueue", ![k].list = @ \cup half]
  /\ UNCHANGED <<schedules, netVars, send, handling, running, histVars>>

Snapshot(k) ==
  /\ call[k].pc = "snapshot"
  /\ call' = [call EXCEPT ![k].pc = "enqueue", ![k].list = View(call[k].agent)]
  /\ UNCHANGED <<schedules, netVars, send, handling, running, histVars>>

\* The list goes to the connection that was looked up, if it still is the
\* current one and has room.  The channel of an old one is never read again.
Enqueue(k) ==
  /\ call[k].pc = "enqueue"
  /\ LET a == call[k].agent
         m == [by |-> k, conn |-> call[k].conn, list |-> call[k].list]
     IN send' = IF up[a] /\ m.conn = epoch[a] /\ Len(send[a]) < SendCap
                  THEN [send EXCEPT ![a] = Append(@, m)] ELSE send
  /\ call' = [call EXCEPT ![k] = Returned(call[k].agent)]
  /\ UNCHANGED <<schedules, netVars, handling, running, histVars>>

SyncAgentSchedules(k) == Lookup(k) \/ Snapshot(k) \/ Enqueue(k)

-----------------------------------------------------------------------------
(* The agent.                                                              *)

\* writePump sends, the agent's read loop starts a goroutine.
Deliver(a) ==
  /\ up[a] /\ send[a] # <<>>
  /\ send' = [send EXCEPT ![a] = Tail(@)]
  /\ handling' = [handling EXCEPT ![a] = @ \cup {Head(send[a])}]
  /\ UNCHANGED <<schedules, call, netVars, running, histVars>>

\* handleRequest calls SyncSchedules.
Apply(a, m) ==
  /\ m \in handling[a]
  /\ handling' = [handling EXCEPT ![a] = @ \ {m}]
  /\ running' = [running EXCEPT ![a] = m.list]
  /\ UNCHANGED <<schedules, call, netVars, send, histVars>>

\* Fault: connectAndRun returns without jobWg.Wait.
DialNoWait(a) ==
  /\ ~up[a] /\ epoch[a] < MaxConn
  /\ up' = [up EXCEPT ![a] = TRUE]
  /\ epoch' = [epoch EXCEPT ![a] = @ + 1]
  /\ call' = [call EXCEPT ![<<a, epoch[a] + 1>>].pc = "lookup"]
  /\ calm' = calm \cup {a}
  /\ UNCHANGED <<schedules, send, handling, running, views, restarts>>

\* The agent connects again when the goroutines of its last connection have
\* ended; the new connection is registered and its handler synchronises it.
Dial(a) ==
  /\ ~up[a] /\ epoch[a] < MaxConn
  /\ handling[a] = {}
  /\ up' = [up EXCEPT ![a] = TRUE]
  /\ epoch' = [epoch EXCEPT ![a] = @ + 1]
  /\ call' = [call EXCEPT ![<<a, epoch[a] + 1>>].pc = "lookup"]
  /\ calm' = calm \cup {a}
  /\ UNCHANGED <<schedules, send, handling, running, views, restarts>>

\* The connection breaks; if the agent itself has crashed, it comes back with
\* the list in its cache file.
Drop(a) ==
  /\ up[a]
  /\ up' = [up EXCEPT ![a] = FALSE]
  /\ send' = [send EXCEPT ![a] = <<>>]
  /\ handling' \in {handling, [handling EXCEPT ![a] = {}]}
  /\ UNCHANGED <<schedules, call, epoch, running, histVars>>

\* The hub keeps its schedules in memory only.
HubRestart ==
  /\ restarts < MaxRestart /\ restarts' = restarts + 1
  /\ Change([s \in Sched |-> None])
  /\ call' = [k \in Caller |-> IF Active(k) THEN Returned(call[k].agent)
                               ELSE call[k]]
  /\ up' = [a \in Agent |-> FALSE]
  /\ send' = [a \in Agent |-> <<>>]
  /\ UNCHANGED <<epoch, handling, running>>

Next ==
  \/ \E o \in Op : Put(o) \/ Delete(o)
  \/ \E k \in Caller : SyncAgentSchedules(k)
  \/ \E a \in Agent :
       \/ Deliver(a) \/ Dial(a) \/ Drop(a)
       \/ \E m \in handling[a] : Apply(a, m)
  \/ HubRestart

Spec == Init /\ [][Next]_vars

-----------------------------------------------------------------------------
(* Properties.                                                             *)

\* No agent ever runs a list that is a mixture: what it runs was, at some
\* time, exactly the hub's list for this agent.
RunsAHubList == \A a \in Agent : running[a] \in views[a]

\* Whatever an agent with a connection still has to handle came over that
\* connection: neither a slow goroutine nor a slow sync of the hub lets an
\* old list overtake the list sent on connecting.
NoOldConnection ==
  \A a \in Agent : up[a] => \A m \in handling[a] : m.conn = epoch[a]

\* "AddSchedule registers a new scheduled job and triggers synchronization to
\* the Agent": if no change for an agent came before the ones before it had
\* settled, and nothing is on its way to it, it runs what the hub has for it once
\* it is connected, unless a schedule of its was put again for another agent.
\* Whatever went wrong before, a new connection puts the agent right.
Settled == \A a \in calm : up[a] /\ Quiet(a) => running[a] = View(a)
=============================================================================
