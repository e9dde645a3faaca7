--------------------------- MODULE AgentLifecycle ---------------------------
(***************************************************************************)
(* The agent's connections (agent/client.go): Start, which dials one hub   *)
(* of the list after the other, with a delay that grows, connectAndRun,    *)
(* which reads from a connection until it breaks and handles each message  *)
(* in a goroutine of its own, the message update_failover_urls that        *)
(* replaces the list, and Stop, called by the signal handler.              *)
(*                                                                         *)
(* Each critical section of a.mu is a step.  connectAndRun never returns   *)
(* nil, so the branch of Start for that is not modelled.  Positions in the *)
(* list are counted from one.                                              *)
(***************************************************************************)
EXTENDS Naturals, Sequences, SequencesExt, FiniteSets

CONSTANTS
  Hub,         \* the URLs of hubs
  Configured,  \* the list the agent starts with
  Pushed,      \* the lists a hub may send
  MaxPush,     \* bound on the messages a hub sends over all connections
  MaxBackoff   \* ceiling of the delay between two attempts, in seconds

ASSUME ListAssumption ==
  /\ Configured \in Seq(Hub) /\ Configured # <<>>
  /\ Pushed \subseteq Seq(Hub)
ASSUME BoundAssumption == MaxPush \in Nat /\ MaxBackoff \in Nat \ {0}

VARIABLES
  pc,        \* where Start and connectAndRun are
  hubURLs, activeURLIdx,
  url,       \* the hub that Start last chose
  backoff,   \* the delay before the next attempt
  met,       \* the last attempt ended in a connection
  session,   \* a.session is set
  open,      \* the agent has not closed the connection
  link,      \* the network and the hub carry it
  hubUp,     \* the hubs that accept connections
  handling,  \* the lists whose messages are being handled
  jobs,      \* jobs of the connection that run
  pushes,    \* messages received so far
  stopper,   \* where Stop is
  stopSeen,  \* whether the session Stop found is that of the last connection
  ctxDone    \* a.ctx is cancelled

urlVars  == <<hubURLs, activeURLIdx, url>>
timeVars == <<backoff, met>>
connVars == <<session, open, link>>
msgVars  == <<handling, jobs, pushes>>
stopVars == <<stopper, stopSeen, ctxDone>>
vars == <<pc, urlVars, timeVars, connVars, hubUp, msgVars, stopVars>>

Min2(a, b) == IF a < b THEN a ELSE b

TypeOK ==
  /\ pc \in {"check", "dial", "dialled", "read", "jobs", "drop", "close",
             "advance", "backoff", "returned"}
  /\ hubURLs \in Seq(Hub) /\ hubURLs # <<>>
  /\ activeURLIdx \in Nat /\ url \in Hub
  /\ backoff \in 1 .. MaxBackoff
  /\ met \in BOOLEAN /\ session \in BOOLEAN /\ open \in BOOLEAN
  /\ link \in BOOLEAN /\ ctxDone \in BOOLEAN
  /\ stopSeen \in {"none", "last", "earlier"}
  /\ hubUp \in SUBSET Hub /\ handling \in SUBSET Pushed
  /\ jobs \in Nat /\ pushes \in 0 .. MaxPush
  /\ stopper \in {"idle", "cancel", "close", "done"}

Init ==
  /\ pc = "check"
  /\ hubURLs = Configured /\ activeURLIdx = 1 /\ url = Configured[1]
  /\ backoff = 1 /\ met = FALSE
  /\ session = FALSE /\ open = FALSE /\ link = FALSE
  /\ hubUp = Hub
  /\ handling = {} /\ jobs = 0 /\ pushes = 0
  /\ stopper = "idle" /\ stopSeen = "none" /\ ctxDone = FALSE

-----------------------------------------------------------------------------
(* Start.                                                                  *)

\* The loop begins: stop, or choose the hub to dial.
Check ==
  /\ pc = "check"
  /\ IF ctxDone THEN pc' = "returned" /\ UNCHANGED url
                ELSE pc' = "dial" /\ url' = hubURLs[activeURLIdx]
  /\ UNCHANGED <<hubURLs, activeURLIdx, timeVars, connVars, hubUp, msgVars,
                 stopVars>>

\* Fault: the agent stays with a hub that does not answer.
NextIdxSame == activeURLIdx

NextIdx == (activeURLIdx % Len(hubURLs)) + 1

Advance ==
  /\ pc = "advance"
  /\ activeURLIdx' = NextIdx
  /\ pc' = "backoff"
  /\ UNCHANGED <<hubURLs, url, timeVars, connVars, hubUp, msgVars, stopVars>>

NextDelay == Min2(2 * backoff, MaxBackoff)

\* The delay passes, or a.ctx is cancelled.
Backoff ==
  /\ pc = "backoff"
  /\ \/ ctxDone /\ pc' = "returned" /\ UNCHANGED backoff
     \/ pc' = "check" /\ backoff' = NextDelay
  /\ UNCHANGED <<urlVars, met, connVars, hubUp, msgVars, stopVars>>

-----------------------------------------------------------------------------
(* connectAndRun.                                                          *)

DialFails ==
  /\ pc = "dial" /\ (url \notin hubUp \/ ctxDone)
  /\ pc' = "advance" /\ met' = FALSE
  /\ UNCHANGED <<urlVars, backoff, connVars, hubUp, msgVars, stopVars>>

\* The hub accepts; onConnect resets the delay.  A session that Stop has found
\* before is one of an earlier connection now.
Dial ==
  /\ pc = "dial" /\ url \in hubUp /\ ~ctxDone
  /\ pc' = "dialled" /\ met' = TRUE /\ backoff' = 1
  /\ open' = TRUE /\ link' = TRUE
  /\ stopSeen' = IF stopSeen = "last" THEN "earlier" ELSE stopSeen
  /\ UNCHANGED <<urlVars, session, hubUp, msgVars, stopper, ctxDone>>

StoreSession ==
  /\ pc = "dialled"
  /\ session' = TRUE
  /\ pc' = "read"
  /\ UNCHANGED <<urlVars, timeVars, open, link, hubUp, msgVars, stopVars>>

\* A message arrives: a new list, or anything else, which takes its time.
Receive ==
  /\ pc = "read" /\ open /\ link /\ pushes < MaxPush
  /\ pushes' = pushes + 1
  /\ \/ \E list \in Pushed : handling' = handling \cup {list} /\ UNCHANGED jobs
     \/ jobs' = jobs + 1 /\ UNCHANGED handling
  /\ UNCHANGED <<pc, urlVars, timeVars, connVars, hubUp, stopVars>>

\* Fault: the position survives the list it belongs to.
UpdateFailoverURLsOnly(list) ==
  /\ list \in handling /\ handling' = handling \ {list}
  /\ hubURLs' = IF list = <<>> THEN hubURLs ELSE list
  /\ UNCHANGED <<pc, activeURLIdx, url, timeVars, connVars, hubUp, jobs, pushes,
                 stopVars>>

\* handleRequest of update_failover_urls; an empty list changes nothing.
UpdateFailoverURLs(list) ==
  /\ list \in handling /\ handling' = handling \ {list}
  /\ IF list = <<>> THEN UNCHANGED <<hubURLs, activeURLIdx>>
                    ELSE hubURLs' = list /\ activeURLIdx' = 1
  /\ UNCHANGED <<pc, url, timeVars, connVars, hubUp, jobs, pushes, stopVars>>

JobEnds ==
  /\ jobs > 0 /\ jobs' = jobs - 1
  /\ UNCHANGED <<pc, urlVars, timeVars, connVars, hubUp, handling, pushes,
                 stopVars>>

\* The peer, the network, the read deadline or Stop ended the connection.
ReadFails ==
  /\ pc = "read" /\ ~(open /\ link)
  /\ pc' = "jobs"
  /\ UNCHANGED <<urlVars, timeVars, connVars, hubUp, msgVars, stopVars>>

\* Fault: the connection is given up while its messages are handled.
JobsNotAwaited ==
  /\ pc = "jobs"
  /\ pc' = "drop"
  /\ UNCHANGED <<urlVars, timeVars, connVars, hubUp, msgVars, stopVars>>

\* jobWg.Wait
JobsDone ==
  /\ pc = "jobs" /\ handling = {} /\ jobs = 0
  /\ pc' = "drop"
  /\ UNCHANGED <<urlVars, timeVars, connVars, hubUp, msgVars, stopVars>>

DropSession ==
  /\ pc = "drop"
  /\ session' = FALSE
  /\ pc' = "close"
  /\ UNCHANGED <<urlVars, timeVars, open, link, hubUp, msgVars, stopVars>>

CloseConn ==
  /\ pc = "close"
  /\ open' = FALSE
  /\ pc' = "advance"
  /\ UNCHANGED <<urlVars, timeVars, session, link, hubUp, msgVars, stopVars>>

Main ==
  \/ Check \/ Advance \/ Backoff \/ DialFails \/ Dial \/ StoreSession
  \/ ReadFails \/ JobsDone \/ DropSession \/ CloseConn

Goroutines == JobEnds \/ \E list \in Pushed : UpdateFailoverURLs(list)

-----------------------------------------------------------------------------
(* Stop.                                                                   *)

\* Under a.mu: isClosed is set and the session read.
StopBegins ==
  /\ stopper = "idle"
  /\ stopper' = "cancel"
  /\ stopSeen' = IF session THEN "last" ELSE "none"
  /\ UNCHANGED <<pc, urlVars, timeVars, connVars, hubUp, msgVars, ctxDone>>

\* a.cancel()
StopCancels ==
  /\ stopper = "cancel"
  /\ ctxDone' = TRUE /\ stopper' = "close"
  /\ UNCHANGED <<pc, urlVars, timeVars, connVars, hubUp, msgVars, stopSeen>>

\* Fault: the connection is left to the cancelled context.
StopClosesNot ==
  /\ stopper = "close"
  /\ stopper' = "done"
  /\ UNCHANGED <<pc, urlVars, timeVars, connVars, hubUp, msgVars, stopSeen,
                 ctxDone>>

\* session.Close() of the session that was found, if there was one: a connection
\* made since then stays open.
StopCloses ==
  /\ stopper = "close"
  /\ open' = (open /\ stopSeen # "last")
  /\ stopper' = "done"
  /\ UNCHANGED <<pc, urlVars, timeVars, session, link, hubUp, msgVars, stopSeen,
                 ctxDone>>

\* The hubs and the network.
LinkDown ==
  /\ link /\ link' = FALSE
  /\ UNCHANGED <<pc, urlVars, timeVars, session, open, hubUp, msgVars, stopVars>>

HubGoes(h) ==
  /\ hubUp' = IF h \in hubUp THEN hubUp \ {h} ELSE hubUp \cup {h}
  /\ link' = (link /\ ~(h = url /\ h \in hubUp))
  /\ UNCHANGED <<pc, urlVars, timeVars, session, open, msgVars, stopVars>>

Next ==
  \/ Main \/ Goroutines \/ Receive
  \/ StopBegins \/ StopCancels \/ StopCloses
  \/ LinkDown \/ \E h \in Hub : HubGoes(h)

Spec == Init /\ [][Next]_vars

\* The agent's goroutines are scheduled.  That jobs end is assumed of the
\* programs and files they use: a time-out ends the agent's own work, but not a
\* read of a file, nor a command's children that keep its pipes (AgentJobs).
FairSpec ==
  /\ Spec
  /\ WF_vars(Main) /\ WF_vars(StopCancels) /\ WF_vars(StopCloses)
  /\ WF_vars(JobEnds)
  /\ \A list \in Pushed : WF_vars(UpdateFailoverURLs(list))

-----------------------------------------------------------------------------
(* Properties.                                                             *)

\* The position is one of the list, however lists are replaced while Start
\* moves on: hubURLs[activeURLIdx] does not crash the agent.
IdxInRange == activeURLIdx \in DOMAIN hubURLs

\* The agent dials and meets hubs of its present list only: no list arrives
\* between the choice of a hub and the connection to it.
DialsListed == pc \in {"dial", "dialled"} => url \in ToSet(hubURLs)

\* The first attempt after a connection comes after one second, however long
\* the delay had grown before it.
FreshBackoff == pc = "backoff" /\ met => backoff = 1

\* An agent that is not stopped gets a connection again and again or for good,
\* if one hub of its list stays up.
FindsHub ==
  \A h \in Hub :
    <>[](h \in hubUp /\ h \in ToSet(hubURLs) /\ stopper = "idle")
      => []<>(pc = "read")

\* Stop ends the agent: Start returns, or it reads from a connection that is not
\* the one Stop has found, since it was made while Stop was at work.
StopEnds ==
  stopper = "done" ~> pc = "returned" \/ (pc = "read" /\ stopSeen # "last")
=============================================================================
