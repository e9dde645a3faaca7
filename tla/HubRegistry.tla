----------------------------- MODULE HubRegistry -----------------------------
(***************************************************************************)
(* The hub's registry of agent connections (hub/server.go): the map        *)
(* connections under the mutex h.mu, and every goroutine that changes it.  *)
(* A connection c of agent AgentOf[c] is served by three goroutines: the   *)
(* HTTP handler (ServeHTTP after authentication), which registers c and    *)
(* starts the pumps, and the two pumps, each of which closes c when it     *)
(* ends.  register closes the connection it replaces while it holds h.mu,  *)
(* and Close takes h.mu in unregister.                                     *)
(*                                                                         *)
(* h.mu is not reentrant.  A critical section that cannot block is one     *)
(* step; only register keeps the mutex over several.                       *)
(***************************************************************************)
EXTENDS Naturals, FiniteSets

CONSTANTS
  Agent,      \* the agents' IDs
  Conn,       \* the websocket connections they ever open
  AgentOf,    \* the agent that opens each connection
  Nil         \* no connection, or no holder of the mutex

ASSUME ConnAssumption    == AgentOf \in [Conn -> Agent]
ASSUME NilAssumption     == Nil \notin Conn /\ Nil \notin Conn \X {"handler"}

VARIABLES
  mu,           \* the goroutine that holds h.mu over several steps
  connections,  \* the registry
  once,         \* closeOnce of each connection
  done,         \* the connections whose done channel is closed
  open,         \* the connections the hub has not closed
  link,         \* the connections the network still carries
  pc            \* where each goroutine is

vars == <<mu, connections, once, done, open, link, pc>>

Role == {"handler", "reader", "writer"}
Goroutine == Conn \X Role

Handler(c) == <<c, "handler">>
Pumps(c)   == {<<c, "reader">>, <<c, "writer">>}

\* Inside Close; a handler is then inside the critical section of register.
Closing == {"close", "closeConn", "unregister", "failPending"}

RegistryTypeOK ==
  /\ connections \in [Agent -> Conn \cup {Nil}]
  /\ once \in [Conn -> {"new", "running", "done"}]
  /\ done \in SUBSET Conn
  /\ pc \in [Goroutine -> {"idle", "register", "start", "sync", "push", "run",
                           "ended"} \cup Closing]
  /\ mu \in Goroutine \cup {Nil}
  /\ \A c \in Conn : mu = Handler(c) <=> pc[Handler(c)] \in Closing

TypeOK == RegistryTypeOK /\ open \in SUBSET Conn /\ link \in SUBSET Conn

Init ==
  /\ mu = Nil
  /\ connections = [a \in Agent |-> Nil]
  /\ once = [c \in Conn |-> "new"]
  /\ done = {} /\ open = {} /\ link = {}
  /\ pc = [g \in Goroutine |-> "idle"]

Goto(g, label) == pc' = [pc EXCEPT ![g] = label]

\* The connection g closes: register closes the one it replaces.
Target(g) == IF g[2] = "handler" THEN connections[AgentOf[g[1]]] ELSE g[1]

\* What follows Close: a pump ends; register enters the new connection and
\* lets the mutex go.
AfterClose(g) ==
  IF g[2] = "handler"
    THEN /\ connections' = [connections EXCEPT ![AgentOf[g[1]]] = g[1]]
         /\ mu' = Nil
         /\ Goto(g, "start")
    ELSE Goto(g, "ended") /\ UNCHANGED <<connections, mu>>

-----------------------------------------------------------------------------
(* ServeHTTP from the upgrade on.                                          *)

\* Fault: the pumps start before the connection is registered.
DialPumping(c) ==
  /\ pc[Handler(c)] = "idle"
  /\ open' = open \cup {c} /\ link' = link \cup {c}
  /\ pc' = [g \in Goroutine |-> IF g = Handler(c) THEN "register"
                                ELSE IF g \in Pumps(c) THEN "run" ELSE pc[g]]
  /\ UNCHANGED <<mu, connections, once, done>>

\* An authenticated agent's connection is upgraded.
Dial(c) ==
  /\ pc[Handler(c)] = "idle"
  /\ open' = open \cup {c} /\ link' = link \cup {c}
  /\ Goto(Handler(c), "register")
  /\ UNCHANGED <<mu, connections, once, done>>

\* Fault: "go old.Close()", the naive cure of the wait in Register.  A pump of
\* the old connection finds its link gone and closes it later.
RegisterAsync(c) ==
  /\ pc[Handler(c)] = "register" /\ mu = Nil
  /\ link' = link \ {connections[AgentOf[c]]}
  /\ connections' = [connections EXCEPT ![AgentOf[c]] = c]
  /\ Goto(Handler(c), "start")
  /\ UNCHANGED <<mu, once, done, open>>

\* Fault: register returns without its deferred unlock.
RegisterNoUnlock(c) ==
  /\ pc[Handler(c)] = "register" /\ mu = Nil
  /\ connections' = [connections EXCEPT ![AgentOf[c]] = c]
  /\ mu' = Handler(c)
  /\ Goto(Handler(c), "start")
  /\ UNCHANGED <<once, done, open, link>>

Register(c) ==
  /\ pc[Handler(c)] = "register" /\ mu = Nil
  /\ \/ /\ connections[AgentOf[c]] = Nil
        /\ connections' = [connections EXCEPT ![AgentOf[c]] = c]
        /\ Goto(Handler(c), "start")
        /\ UNCHANGED mu
     \/ /\ connections[AgentOf[c]] # Nil
        /\ mu' = Handler(c)
        /\ Goto(Handler(c), "close")
        /\ UNCHANGED connections
  /\ UNCHANGED <<once, done, open, link>>

StartPumps(c) ==
  /\ pc[Handler(c)] = "start"
  /\ pc' = [g \in Goroutine |-> IF g = Handler(c) THEN "sync"
                                ELSE IF g \in Pumps(c) THEN "run" ELSE pc[g]]
  /\ UNCHANGED <<mu, connections, once, done, open, link>>

\* SyncAgentSchedules, then PushFailoverURLs: each looks the agent up under
\* RLock, which waits for the mutex.
PushState(c) ==
  /\ mu = Nil
  /\ \/ pc[Handler(c)] = "sync" /\ Goto(Handler(c), "push")
     \/ pc[Handler(c)] = "push" /\ Goto(Handler(c), "ended")
  /\ UNCHANGED <<mu, connections, once, done, open, link>>

-----------------------------------------------------------------------------
(* The pumps, and Close.                                                   *)

PumpEnds(c, g) ==
  /\ pc[g] = "run"
  /\ c \notin open \cap link \/ (g[2] = "writer" /\ c \in done)
  /\ Goto(g, "close")
  /\ UNCHANGED <<mu, connections, once, done, open, link>>

CloseBegin(g) ==
  /\ pc[g] = "close"
  /\ \/ /\ once[Target(g)] = "new"
        /\ once' = [once EXCEPT ![Target(g)] = "running"]
        /\ done' = done \cup {Target(g)}
        /\ Goto(g, "closeConn")
        /\ UNCHANGED <<mu, connections>>
     \/ /\ once[Target(g)] = "done"
        /\ AfterClose(g)
        /\ UNCHANGED <<once, done>>
  /\ UNCHANGED <<open, link>>

\* Fault: unregister is forgotten in Close.
CloseConnOnly(g) ==
  /\ pc[g] = "closeConn"
  /\ open' = open \ {Target(g)}
  /\ Goto(g, "failPending")
  /\ UNCHANGED <<mu, connections, once, done, link>>

CloseConn(g) ==
  /\ pc[g] = "closeConn"
  /\ open' = open \ {Target(g)}
  /\ Goto(g, "unregister")
  /\ UNCHANGED <<mu, connections, once, done, link>>

\* unregister deletes whatever connection has this agent's ID.
Unregister(g) ==
  /\ pc[g] = "unregister" /\ mu = Nil
  /\ connections' = [connections EXCEPT ![AgentOf[g[1]]] = Nil]
  /\ Goto(g, "failPending")
  /\ UNCHANGED <<mu, once, done, open, link>>

CloseEnd(g) ==
  /\ pc[g] = "failPending"
  /\ once' = [once EXCEPT ![Target(g)] = "done"]
  /\ AfterClose(g)
  /\ UNCHANGED <<done, open, link>>

Close(g) == CloseBegin(g) \/ CloseConn(g) \/ Unregister(g) \/ CloseEnd(g)

-----------------------------------------------------------------------------
\* The agent leaves, or the network drops the connection.
Drop(c) ==
  /\ c \in link /\ link' = link \ {c}
  /\ UNCHANGED <<mu, connections, once, done, open, pc>>

Serve(c) ==
  \/ Register(c) \/ StartPumps(c) \/ PushState(c) \/ Close(Handler(c))

PumpStep(c, g) == PumpEnds(c, g) \/ Close(g)

Next ==
  \E c \in Conn :
    \/ Dial(c) \/ Drop(c) \/ Serve(c)
    \/ \E g \in Pumps(c) : PumpStep(c, g)

Spec == Init /\ [][Next]_vars

\* The goroutines are scheduled; agents and the network owe nothing.
FairSpec ==
  /\ Spec
  /\ \A c \in Conn : WF_vars(Serve(c))
  /\ \A c \in Conn : \A g \in Pumps(c) : WF_vars(PumpStep(c, g))

-----------------------------------------------------------------------------
(* The inductive invariant behind the safety properties.                   *)

Served(c) == pc[Handler(c)] \in {"start", "sync", "push", "ended"}
InClose(g) == pc[g] \in {"closeConn", "unregister", "failPending"}

\* Close has one runner.
OnceInv ==
  /\ \A c \in Conn : c \in done <=> once[c] # "new"
  /\ \A g \in Goroutine : InClose(g) => once[Target(g)] = "running"
  /\ \A g, h \in Goroutine :
       InClose(g) /\ InClose(h) /\ Target(g) = Target(h) => g = h

\* The life of a connection's goroutines.
LifeInv ==
  \A c \in Conn :
    /\ pc[Handler(c)] \notin {"run", "failPending"}
    /\ pc[Handler(c)] \in Closing => connections[AgentOf[c]] \in Conn
    /\ \A g \in Pumps(c) : pc[g] \in {"idle", "run", "ended"} \cup Closing
    /\ ~Served(c) => once[c] = "new"
    /\ ~Served(c) \/ pc[Handler(c)] = "start" =>
         \A g \in Pumps(c) : pc[g] = "idle"

\* What the registry says of a connection and its pumps.
RegistryInv ==
  /\ \A a \in Agent : connections[a] # Nil =>
       /\ AgentOf[connections[a]] = a
       /\ Served(connections[a])
       /\ once[connections[a]] # "done"
  /\ \A c \in Conn : Served(c) /\ c \notin done => connections[AgentOf[c]] = c
  /\ \A c \in Conn : \A g \in Pumps(c) :
       /\ pc[g] \in {"closeConn", "unregister"} => connections[AgentOf[c]] = c
       /\ pc[g] = "failPending" => connections[AgentOf[c]] # c

IInv == TypeOK /\ OnceInv /\ LifeInv /\ RegistryInv

-----------------------------------------------------------------------------
(* Properties.                                                             *)

\* An agent whose connection is served and has not begun to close can be
\* found under its ID: no late Close of an earlier connection of that agent,
\* which unregisters by ID, takes its successor out of the registry.
ServedIsRegistered ==
  \A c \in Conn : Served(c) /\ c \notin done => connections[AgentOf[c]] = c

\* The registry never hands out a connection that has been closed for good:
\* nobody would ever take it out again, and every dispatch to it would fail.
NoGhost ==
  \A a \in Agent : connections[a] # Nil => once[connections[a]] # "done"

\* A handler is closing the connection that its own replaces.
Replacing == \E c \in Conn : pc[Handler(c)] \in Closing

\* Connections that break leave the registry: again and again it holds none
\* of them, unless some agent comes back before the hub has noticed that it
\* left.
Broken(c) == c \notin link /\ connections[AgentOf[c]] = c
BrokenLeaves == []<>(Replacing \/ \A c \in Conn : ~Broken(c))

\* Handlers that start to register their connection get to serve it: again and
\* again none of them is at work, unless some agent comes back before the hub
\* has noticed that it left.
Registering(c) == pc[Handler(c)] \in {"register", "start", "sync", "push"}
RegistrationEnds == []<>(Replacing \/ \A c \in Conn : ~Registering(c))

\* "If a connection already exists with this ID, close it": once register has
\* found an older connection, that connection is closed and replaced.
ReplacementEnds ==
  \A c \in Conn : pc[Handler(c)] = "close" ~> connections[AgentOf[c]] = c
=============================================================================
