-------------------------- MODULE HubRegistryProofs --------------------------
(***************************************************************************)
(* Proofs about HubRegistry, for any agents, any number of connections and *)
(* whether or not agents replace connections; and about HubCluster, for    *)
(* any hubs, seeds, schedules, losses and restarts.                        *)
(***************************************************************************)
EXTENDS HubRegistry, HubCluster, TLAPS

\* The goroutines of a connection.
LEMMA Goroutines ==
  /\ \A c \in Conn : Handler(c) \in Goroutine /\ Pumps(c) \subseteq Goroutine
  /\ \A g \in Goroutine : \E c \in Conn : g = Handler(c) \/ g \in Pumps(c)
  /\ \A c, d \in Conn : Handler(c) = Handler(d) => c = d
  /\ \A c, d \in Conn : \A g \in Pumps(d) :
       g # Handler(c) /\ (g \in Pumps(c) => c = d)
BY DEF Goroutine, Role, Handler, Pumps

\* Whom each of them closes, and what it does afterwards.
LEMMA Targets ==
  ASSUME NEW c \in Conn
  PROVE  /\ AgentOf[c] \in Agent
         /\ Handler(c) # Nil /\ c # Nil
         /\ Target(Handler(c)) = connections[AgentOf[c]]
         /\ Target(Handler(c))' = connections'[AgentOf[c]]
         /\ \A g \in Pumps(c) :
              /\ Target(g) = c /\ Target(g)' = c
              /\ AgentOf[g[1]] = AgentOf[c]
              /\ AfterClose(g) <=>
                   Goto(g, "ended") /\ UNCHANGED <<connections, mu>>
BY ConnAssumption, NilAssumption DEF Target, AfterClose, Handler, Pumps

\* A handler that closes the connection it replaces holds the mutex and has
\* not got past unregister, so it never returns from Close.
LEMMA HandlerStuck ==
  ASSUME IInv, NEW c \in Conn
  PROVE  /\ ~Unregister(Handler(c)) /\ ~CloseEnd(Handler(c))
         /\ CloseBegin(Handler(c)) =>
              /\ once[Target(Handler(c))] = "new"
              /\ UNCHANGED <<mu, connections>>
<1>1. pc[Handler(c)] \in Closing => mu = Handler(c) /\ mu # Nil
  BY NilAssumption DEF IInv, TypeOK, RegistryTypeOK, Handler
<1>2. ~Unregister(Handler(c))
  BY <1>1 DEF Unregister, Closing
<1>3. ~CloseEnd(Handler(c))
  BY DEF CloseEnd, IInv, LifeInv
<1>4. ASSUME CloseBegin(Handler(c))
      PROVE  /\ once[Target(Handler(c))] = "new"
             /\ UNCHANGED <<mu, connections>>
  <2>1. pc[Handler(c)] \in Closing
    BY <1>4 DEF CloseBegin, Closing
  <2>2. connections[AgentOf[c]] \in Conn
    BY <2>1 DEF IInv, LifeInv
  <2>3. once[connections[AgentOf[c]]] # "done"
    BY <2>2, Targets, NilAssumption DEF IInv, RegistryInv
  <2> QED
    BY <1>4, <2>3, Targets DEF CloseBegin
<1> QED
  BY <1>2, <1>3, <1>4

\* Close begins, for connection o.
Begin(g, o) ==
  /\ pc[g] = "close" /\ once[o] = "new"
  /\ once' = [once EXCEPT ![o] = "running"]
  /\ done' = done \cup {o}
  /\ pc' = [pc EXCEPT ![g] = "closeConn"]
  /\ UNCHANGED <<mu, connections>>

\* A pump finds its connection closed.
Late(c, g) ==
  /\ pc[g] = "close" /\ once[c] = "done"
  /\ pc' = [pc EXCEPT ![g] = "ended"]
  /\ UNCHANGED <<mu, connections, once, done>>

\* unregister, by a pump of c.
Leave(c, g) ==
  /\ pc[g] = "unregister" /\ mu = Nil
  /\ connections' = [connections EXCEPT ![AgentOf[c]] = Nil]
  /\ pc' = [pc EXCEPT ![g] = "failPending"]
  /\ UNCHANGED <<mu, once, done>>

\* The end of Close, run by a pump of c.
Finish(c, g) ==
  /\ pc[g] = "failPending"
  /\ once' = [once EXCEPT ![c] = "done"]
  /\ pc' = [pc EXCEPT ![g] = "ended"]
  /\ UNCHANGED <<mu, connections, done>>

\* A step that only moves goroutine g from label k to label l.
Move(g, k, l) ==
  /\ pc[g] = k /\ pc' = [pc EXCEPT ![g] = l]
  /\ UNCHANGED <<mu, connections, once, done>>

Still == UNCHANGED <<mu, connections, once, done, pc>>

\* The steps, spelled out.
LEMMA Cases ==
  ASSUME IInv, [Next]_vars
  PROVE  \/ Still
         \/ \E c \in Conn :
              \/ Register(c) \/ StartPumps(c)
              \/ Move(Handler(c), "idle", "register")
              \/ Move(Handler(c), "sync", "push")
              \/ Move(Handler(c), "push", "ended")
              \/ Move(Handler(c), "closeConn", "unregister")
              \/ Begin(Handler(c), connections[AgentOf[c]])
              \/ \E g \in Pumps(c) :
                   \/ Move(g, "run", "close")
                   \/ Move(g, "closeConn", "unregister")
                   \/ Begin(g, c) \/ Late(c, g) \/ Leave(c, g) \/ Finish(c, g)
<1>1. CASE UNCHANGED vars
  BY <1>1 DEF vars, Still
<1>2. ASSUME NEW c \in Conn, Dial(c) \/ Drop(c) \/ PushState(c)
      PROVE  \/ Still
             \/ Move(Handler(c), "idle", "register")
             \/ Move(Handler(c), "sync", "push")
             \/ Move(Handler(c), "push", "ended")
  BY <1>2 DEF Dial, Drop, PushState, Goto, Still, Move
<1>3. ASSUME NEW c \in Conn, Close(Handler(c))
      PROVE  \/ Begin(Handler(c), connections[AgentOf[c]])
             \/ Move(Handler(c), "closeConn", "unregister")
  <2>1. CASE CloseBegin(Handler(c))
    BY <2>1, HandlerStuck, Targets DEF CloseBegin, Goto, Begin
  <2>2. CASE CloseConn(Handler(c))
    BY <2>2 DEF CloseConn, Goto, Move
  <2> QED
    BY <1>3, <2>1, <2>2, HandlerStuck DEF Close
<1>4. ASSUME NEW c \in Conn, NEW g \in Pumps(c), PumpStep(c, g)
      PROVE  \/ Move(g, "run", "close") \/ Move(g, "closeConn", "unregister")
             \/ Begin(g, c) \/ Late(c, g) \/ Leave(c, g) \/ Finish(c, g)
  <2>1. CASE PumpEnds(c, g)
    BY <2>1 DEF PumpEnds, Goto, Move
  <2>2. CASE CloseBegin(g)
    BY <2>2, Targets DEF CloseBegin, Goto, Begin, Late
  <2>3. CASE CloseConn(g)
    BY <2>3 DEF CloseConn, Goto, Move
  <2>4. CASE Unregister(g)
    BY <2>4, Targets DEF Unregister, Goto, Leave
  <2>5. CASE CloseEnd(g)
    BY <2>5, Targets DEF CloseEnd, Goto, Finish
  <2> QED
    BY <1>4, <2>1, <2>2, <2>3, <2>4, <2>5 DEF PumpStep, Close
<1> QED
  BY <1>1, <1>2, <1>3, <1>4 DEF Next, Serve

\* The invariant without the variables it does not depend on.
Inv == RegistryTypeOK /\ OnceInv /\ LifeInv /\ RegistryInv

-----------------------------------------------------------------------------
(* Each of them keeps the invariant.                                       *)

\* A step that leaves closeOnce and the registry alone and takes no goroutine
\* into Close.
LEMMA OnceKept ==
  ASSUME Inv, UNCHANGED <<connections, once, done>>,
         \A h \in Goroutine : InClose(h)' => InClose(h)
  PROVE  OnceInv'
<1>1. \A h \in Goroutine : Target(h)' = Target(h)
  BY DEF Target
<1> QED
  BY <1>1 DEF Inv, OnceInv

\* Nothing the invariant speaks of changes.
LEMMA StillStep ==
  ASSUME Inv, Still
  PROVE  Inv'
<1>0. RegistryTypeOK /\ OnceInv /\ LifeInv /\ RegistryInv
  BY DEF Inv
<1>1. RegistryTypeOK'
  BY <1>0, Goroutines, Targets, NilAssumption, SMTT(30)
  DEF Still, RegistryTypeOK, OnceInv, InClose, LifeInv, RegistryInv, Served,
      Closing
<1>2. OnceInv'
  BY <1>0, Goroutines, Targets, NilAssumption, SMTT(30)
  DEF Still, RegistryTypeOK, OnceInv, InClose, LifeInv, RegistryInv, Served,
      Closing
<1>3. LifeInv'
  BY <1>0, Goroutines, Targets, NilAssumption, SMTT(30)
  DEF Still, RegistryTypeOK, OnceInv, InClose, LifeInv, RegistryInv, Served,
      Closing
<1>4. RegistryInv'
  BY <1>0, Goroutines, Targets, NilAssumption, SMTT(30)
  DEF Still, RegistryTypeOK, OnceInv, InClose, LifeInv, RegistryInv, Served,
      Closing
<1> QED
  BY <1>1, <1>2, <1>3, <1>4 DEF Inv

\* The handler of c enters c, or starts to close its predecessor.
LEMMA RegisterStep ==
  ASSUME Inv, NEW c \in Conn, Register(c)
  PROVE  Inv'
<1>0. RegistryTypeOK /\ OnceInv /\ LifeInv /\ RegistryInv
  BY DEF Inv
<1>1. RegistryTypeOK'
  BY <1>0, Goroutines, Targets, NilAssumption, SMTT(30)
  DEF Register, Goto, RegistryTypeOK, OnceInv, InClose, LifeInv, RegistryInv,
      Served, Closing
<1>2. OnceInv'
  <2>1. UNCHANGED <<once, done>>
    BY DEF Register
  <2>2. \A h \in Goroutine : InClose(h)' => InClose(h)
    BY <1>0, Goroutines DEF Register, Goto, RegistryTypeOK, InClose
  <2>3. \A h \in Goroutine : InClose(h) => Target(h)' = Target(h)
    <3> SUFFICES ASSUME NEW h \in Goroutine, InClose(h)
                 PROVE  Target(h)' = Target(h)
      OBVIOUS
    <3>1. PICK d \in Conn : h = Handler(d) \/ h \in Pumps(d)
      BY Goroutines
    <3>2. CASE h = Handler(d)
      BY <1>0, <3>2, NilAssumption, Targets
      DEF Register, RegistryTypeOK, InClose, Closing
    <3>3. CASE h \in Pumps(d)
      BY <3>3, Targets
    <3> QED
      BY <3>1, <3>2, <3>3
  <2> QED
    BY <1>0, <2>1, <2>2, <2>3 DEF OnceInv
<1>3. LifeInv'
  BY <1>0, Goroutines, Targets, NilAssumption, SMTT(30)
  DEF Register, Goto, RegistryTypeOK, OnceInv, InClose, LifeInv, RegistryInv,
      Served, Closing
<1>4. RegistryInv'
  BY <1>0, Goroutines, Targets, NilAssumption, SMTT(30)
  DEF Register, Goto, RegistryTypeOK, OnceInv, InClose, LifeInv, RegistryInv,
      Served, Closing
<1> QED
  BY <1>1, <1>2, <1>3, <1>4 DEF Inv

\* The handler of c starts the pumps.
LEMMA StartStep ==
  ASSUME Inv, NEW c \in Conn, StartPumps(c)
  PROVE  Inv'
<1>0. RegistryTypeOK /\ OnceInv /\ LifeInv /\ RegistryInv
  BY DEF Inv
<1>1. RegistryTypeOK'
  BY <1>0, Goroutines, Targets, NilAssumption, SMTT(30)
  DEF StartPumps, RegistryTypeOK, OnceInv, InClose, LifeInv, RegistryInv,
      Served, Closing
<1>2. OnceInv'
  <2>1. \A h \in Goroutine : InClose(h)' => InClose(h)
    BY <1>0, Goroutines DEF StartPumps, RegistryTypeOK, InClose
  <2> QED
    BY <2>1, OnceKept DEF StartPumps
<1>3. LifeInv'
  BY <1>0, Goroutines, Targets, NilAssumption, SMTT(30)
  DEF StartPumps, RegistryTypeOK, OnceInv, InClose, LifeInv, RegistryInv,
      Served, Closing
<1>4. RegistryInv'
  BY <1>0, Goroutines, Targets, NilAssumption, SMTT(30)
  DEF StartPumps, RegistryTypeOK, OnceInv, InClose, LifeInv, RegistryInv,
      Served, Closing
<1> QED
  BY <1>1, <1>2, <1>3, <1>4 DEF Inv

\* The handler of c goes on.
LEMMA HandlerStep ==
  ASSUME Inv, NEW c \in Conn,
         \/ Move(Handler(c), "idle", "register")
         \/ Move(Handler(c), "sync", "push")
         \/ Move(Handler(c), "push", "ended")
         \/ Move(Handler(c), "closeConn", "unregister")
  PROVE  Inv'
<1>0. RegistryTypeOK /\ OnceInv /\ LifeInv /\ RegistryInv
  BY DEF Inv
<1>1. RegistryTypeOK'
  BY <1>0, Goroutines, Targets, NilAssumption, SMTT(30)
  DEF Move, RegistryTypeOK, OnceInv, InClose, LifeInv, RegistryInv, Served,
      Closing
<1>2. OnceInv'
  <2>1. \A h \in Goroutine : InClose(h)' => InClose(h)
    BY <1>0, Goroutines DEF Move, RegistryTypeOK, InClose
  <2> QED
    BY <2>1, OnceKept DEF Move
<1>3. LifeInv'
  BY <1>0, Goroutines, Targets, NilAssumption, SMTT(30)
  DEF Move, RegistryTypeOK, OnceInv, InClose, LifeInv, RegistryInv, Served,
      Closing
<1>4. RegistryInv'
  BY <1>0, Goroutines, Targets, NilAssumption, SMTT(30)
  DEF Move, RegistryTypeOK, OnceInv, InClose, LifeInv, RegistryInv, Served,
      Closing
<1> QED
  BY <1>1, <1>2, <1>3, <1>4 DEF Inv

\* The handler of c begins to close the predecessor of c.
LEMMA HandlerBegins ==
  ASSUME Inv, NEW c \in Conn, Begin(Handler(c), connections[AgentOf[c]])
  PROVE  Inv'
<1>0. RegistryTypeOK /\ OnceInv /\ LifeInv /\ RegistryInv
  BY DEF Inv
<1>1. RegistryTypeOK'
  BY <1>0, Goroutines, Targets, NilAssumption, SMTT(30)
  DEF Begin, RegistryTypeOK, OnceInv, InClose, LifeInv, RegistryInv, Served,
      Closing
<1>2. OnceInv'
  BY <1>0, Goroutines, Targets, NilAssumption, SMTT(30)
  DEF Begin, RegistryTypeOK, OnceInv, InClose, LifeInv, RegistryInv, Served,
      Closing
<1>3. LifeInv'
  BY <1>0, Goroutines, Targets, NilAssumption, SMTT(30)
  DEF Begin, RegistryTypeOK, OnceInv, InClose, LifeInv, RegistryInv, Served,
      Closing
<1>4. RegistryInv'
  BY <1>0, Goroutines, Targets, NilAssumption, SMTT(30)
  DEF Begin, RegistryTypeOK, OnceInv, InClose, LifeInv, RegistryInv, Served,
      Closing
<1> QED
  BY <1>1, <1>2, <1>3, <1>4 DEF Inv

\* A pump of c goes on.
LEMMA PumpGoesOn ==
  ASSUME Inv, NEW c \in Conn, NEW g \in Pumps(c),
         \/ Move(g, "run", "close")
         \/ Move(g, "closeConn", "unregister") \/ Late(c, g)
  PROVE  Inv'
<1>0. RegistryTypeOK /\ OnceInv /\ LifeInv /\ RegistryInv
  BY DEF Inv
<1>1. RegistryTypeOK'
  BY <1>0, Goroutines, Targets, NilAssumption, SMTT(30)
  DEF Move, Late, RegistryTypeOK, OnceInv, InClose, LifeInv, RegistryInv,
      Served, Closing
<1>2. OnceInv'
  BY <1>0, Goroutines, Targets, NilAssumption, SMTT(30)
  DEF Move, Late, RegistryTypeOK, OnceInv, InClose, LifeInv, RegistryInv,
      Served, Closing
<1>3. LifeInv'
  BY <1>0, Goroutines, Targets, NilAssumption, SMTT(30)
  DEF Move, Late, RegistryTypeOK, OnceInv, InClose, LifeInv, RegistryInv,
      Served, Closing
<1>4. RegistryInv'
  BY <1>0, Goroutines, Targets, NilAssumption, SMTT(30)
  DEF Move, Late, RegistryTypeOK, OnceInv, InClose, LifeInv, RegistryInv,
      Served, Closing
<1> QED
  BY <1>1, <1>2, <1>3, <1>4 DEF Inv

\* A pump of c begins to close it.
LEMMA PumpBegins ==
  ASSUME Inv, NEW c \in Conn, NEW g \in Pumps(c), Begin(g, c)
  PROVE  Inv'
<1>0. RegistryTypeOK /\ OnceInv /\ LifeInv /\ RegistryInv
  BY DEF Inv
<1>1. RegistryTypeOK'
  BY <1>0, Goroutines, Targets, NilAssumption, SMTT(30)
  DEF Begin, RegistryTypeOK, OnceInv, InClose, LifeInv, RegistryInv, Served,
      Closing
<1>2. OnceInv'
  <2>1. \A h \in Goroutine : Target(h)' = Target(h)
    BY DEF Begin, Target
  <2>2. /\ g \in Goroutine /\ Target(g) = c /\ once[c] = "new"
        /\ \A h \in Goroutine : InClose(h)' => InClose(h) \/ h = g
    BY <1>0, Goroutines, Targets DEF Begin, RegistryTypeOK, InClose
  <2>3. \A h \in Goroutine : InClose(h) => Target(h) # c
    BY <1>0, <2>2 DEF OnceInv
  <2>4. /\ \A d \in Conn : once'[d] = IF d = c THEN "running" ELSE once[d]
        /\ done' = done \cup {c}
    BY <1>0 DEF Begin, RegistryTypeOK
  <2>5. \A d \in Conn : d \in done' <=> once'[d] # "new"
    BY <1>0, <2>4 DEF OnceInv
  <2>6. \A h \in Goroutine : InClose(h)' => once'[Target(h)] = "running"
    <3> SUFFICES ASSUME NEW h \in Goroutine, InClose(h)'
                 PROVE  once'[Target(h)] = "running"
      OBVIOUS
    <3>1. CASE h = g
      BY <3>1, <2>2, <2>4
    <3>2. CASE InClose(h)
      <4>1. once[Target(h)] = "running" /\ Target(h) # c
        BY <1>0, <2>3, <3>2 DEF OnceInv
      <4> QED
        BY <1>0, <4>1 DEF Begin, RegistryTypeOK
    <3> QED
      BY <2>2, <3>1, <3>2
  <2>7. \A h, i \in Goroutine :
          InClose(h)' /\ InClose(i)' /\ Target(h) = Target(i) => h = i
    BY <1>0, <2>2, <2>3 DEF OnceInv
  <2> QED
    BY <2>1, <2>5, <2>6, <2>7 DEF OnceInv
<1>3. LifeInv'
  BY <1>0, Goroutines, Targets, NilAssumption, SMTT(30)
  DEF Begin, RegistryTypeOK, OnceInv, InClose, LifeInv, RegistryInv, Served,
      Closing
<1>4. RegistryInv'
  BY <1>0, Goroutines, Targets, NilAssumption, SMTT(30)
  DEF Begin, RegistryTypeOK, OnceInv, InClose, LifeInv, RegistryInv, Served,
      Closing
<1> QED
  BY <1>1, <1>2, <1>3, <1>4 DEF Inv

\* A pump of c takes it out of the registry.
LEMMA PumpLeaves ==
  ASSUME Inv, NEW c \in Conn, NEW g \in Pumps(c), Leave(c, g)
  PROVE  Inv'
<1>0. RegistryTypeOK /\ OnceInv /\ LifeInv /\ RegistryInv
  BY DEF Inv
<1>1. RegistryTypeOK'
  BY <1>0, Goroutines, Targets, NilAssumption, SMTT(30)
  DEF Leave, RegistryTypeOK, OnceInv, InClose, LifeInv, RegistryInv, Served,
      Closing
<1>2. OnceInv'
  BY <1>0, Goroutines, Targets, NilAssumption, SMTT(30)
  DEF Leave, RegistryTypeOK, OnceInv, InClose, LifeInv, RegistryInv, Served,
      Closing
<1>3. LifeInv'
  BY <1>0, Goroutines, Targets, NilAssumption, SMTT(30)
  DEF Leave, RegistryTypeOK, OnceInv, InClose, LifeInv, RegistryInv, Served,
      Closing
<1>4. RegistryInv'
  BY <1>0, Goroutines, Targets, NilAssumption, SMTT(30)
  DEF Leave, RegistryTypeOK, OnceInv, InClose, LifeInv, RegistryInv, Served,
      Closing
<1> QED
  BY <1>1, <1>2, <1>3, <1>4 DEF Inv

\* A pump of c ends Close.
LEMMA PumpFinishes ==
  ASSUME Inv, NEW c \in Conn, NEW g \in Pumps(c), Finish(c, g)
  PROVE  Inv'
<1>0. RegistryTypeOK /\ OnceInv /\ LifeInv /\ RegistryInv
  BY DEF Inv
<1>1. RegistryTypeOK'
  BY <1>0, Goroutines, Targets, NilAssumption, SMTT(30)
  DEF Finish, RegistryTypeOK, OnceInv, InClose, LifeInv, RegistryInv, Served,
      Closing
<1>2. OnceInv'
  <2>1. \A h \in Goroutine : Target(h)' = Target(h)
    BY DEF Finish, Target
  <2>2. /\ g \in Goroutine /\ InClose(g) /\ Target(g) = c /\ ~InClose(g)'
        /\ \A h \in Goroutine : InClose(h)' => InClose(h) /\ h # g
    BY <1>0, Goroutines, Targets DEF Finish, RegistryTypeOK, InClose
  <2>3. \A h \in Goroutine : InClose(h)' => Target(h) # c
    BY <1>0, <2>2 DEF OnceInv
  <2>4. \A d \in Conn : once'[d] = IF d = c THEN "done" ELSE once[d]
    BY <1>0 DEF Finish, RegistryTypeOK
  <2>5. \A h \in Goroutine : InClose(h)' => once'[Target(h)] = "running"
    <3> SUFFICES ASSUME NEW h \in Goroutine, InClose(h)'
                 PROVE  once'[Target(h)] = "running"
      OBVIOUS
    <3>1. once[Target(h)] = "running" /\ Target(h) # c
      BY <1>0, <2>2, <2>3 DEF OnceInv
    <3> QED
      BY <1>0, <3>1 DEF Finish, RegistryTypeOK
  <2>6. once[c] = "running" /\ UNCHANGED done
    BY <1>0, <2>2 DEF OnceInv, Finish
  <2> QED
    BY <1>0, <2>1, <2>2, <2>4, <2>5, <2>6 DEF OnceInv
<1>3. LifeInv'
  BY <1>0, Goroutines, Targets, NilAssumption, SMTT(30)
  DEF Finish, RegistryTypeOK, OnceInv, InClose, LifeInv, RegistryInv, Served,
      Closing
<1>4. RegistryInv'
  BY <1>0, Goroutines, Targets, NilAssumption, SMTT(30)
  DEF Finish, RegistryTypeOK, OnceInv, InClose, LifeInv, RegistryInv, Served,
      Closing
<1> QED
  BY <1>1, <1>2, <1>3, <1>4 DEF Inv

-----------------------------------------------------------------------------
\* Every step keeps the invariant.
LEMMA InvStep ==
  ASSUME IInv, [Next]_vars PROVE Inv'
<1>1. Inv
  BY DEF IInv, TypeOK, Inv
<1> QED
  BY <1>1, Cases, StillStep, RegisterStep, StartStep, HandlerStep,
     HandlerBegins, PumpGoesOn, PumpBegins, PumpLeaves, PumpFinishes

\* The sockets stay sockets.
LEMMA SocketStep ==
  ASSUME IInv, [Next]_vars
  PROVE  open' \in SUBSET Conn /\ link' \in SUBSET Conn
<1>1. open \in SUBSET Conn /\ link \in SUBSET Conn
  BY DEF IInv, TypeOK
<1>2. ASSUME NEW g, Close(g)
      PROVE  open' \in SUBSET Conn /\ link' \in SUBSET Conn
  BY <1>1, <1>2 DEF Close, CloseBegin, CloseConn, Unregister, CloseEnd
<1> QED
  BY <1>1, <1>2 DEF vars, Next, Dial, Drop, Serve, PumpStep, Register,
                    StartPumps, PushState, PumpEnds

\* The inductive invariant holds in every reachable state.
THEOREM Invariant == Spec => []IInv
<1>1. Init => IInv
  BY NilAssumption, Goroutines, Targets
  DEF Init, IInv, TypeOK, RegistryTypeOK, OnceInv, LifeInv, RegistryInv,
      Served, InClose, Closing
<1>2. IInv /\ [Next]_vars => IInv'
  BY InvStep, SocketStep DEF Inv, IInv, TypeOK
<1> QED
  BY <1>1, <1>2, PTL DEF Spec

\* Every variable keeps to its type, and the mutex is held exactly while
\* register closes a predecessor.
THEOREM TypeCorrect == Spec => []TypeOK
<1>1. IInv => TypeOK
  BY DEF IInv
<1> QED
  BY <1>1, Invariant, PTL

\* A connection that is served and not closing is the one its agent's ID
\* leads to, however many connections the agent has had.
THEOREM Reachable == Spec => []ServedIsRegistered
<1>1. IInv => ServedIsRegistered
  BY DEF IInv, RegistryInv, ServedIsRegistered
<1> QED
  BY <1>1, Invariant, PTL

\* A connection that has been closed is never in the registry.
THEOREM NoGhostEver == Spec => []NoGhost
<1>1. IInv => NoGhost
  BY DEF IInv, RegistryInv, NoGhost
<1> QED
  BY <1>1, Invariant, PTL

\* Once register has found a connection to replace, it holds the registry's
\* mutex for ever: no lookup and no registration of any agent goes through
\* again.  (The run RegistryReplace shows how the hub gets there.)
THEOREM WedgedForEver == Spec => [][mu # Nil => UNCHANGED mu]_vars
<1>1. ASSUME IInv, [Next]_vars, mu # Nil PROVE UNCHANGED mu
  BY <1>1, Cases DEF Still, Register, StartPumps, Move, Begin, Late, Leave,
                     Finish
<1> QED
  BY <1>1, Invariant, PTL DEF Spec

-----------------------------------------------------------------------------
(* HubCluster                                                              *)

\* Types, of the histories too, and what the configuration is.
ClusterTypes ==
  /\ ClusterTypeOK
  /\ scene \in [seeds : [Hub -> SUBSET Hub], puts : SUBSET Put, deletions : Nat,
                losses : Nat, restarts : Nat, overlap : BOOLEAN]
  /\ used \in SUBSET Put /\ deleted \in SUBSET Sched

\* A hub keeps its seeds and knows, posts to and hears from none but the hubs
\* that the seeds name.
MeshInv ==
  /\ \A h \in Hub : /\ scene.seeds[h] \subseteq peers[h] /\ peers[h] \subseteq Member
                    /\ peers[h] # {} => h \in Member
  /\ \A m \in registrations : m[1] \in Member /\ m[2] \in Member /\ m[1] # m[2]
  /\ \A m \in answers : m[1] \in Member /\ m[2] \in Member /\ m[3] \subseteq Member

\* Whatever hubs have, and whatever is under way between them, a client put;
\* and deletions that are under way, a client asked for.
Genuine ==
  /\ used \subseteq scene.puts
  /\ \A h \in Hub, s \in Sched : schedules[h][s] # None => schedules[h][s] \in used
  /\ \A m \in putPosts : m[2] \in used
  /\ \A m \in deletePosts : m[2] \in deleted

\* Unless a post was lost or a hub restarted, a hub that has learnt of another
\* one is known to it, or its registration there is under way.
Mutual ==
  losses = 0 /\ restarts = 0 =>
    \A h, g \in Hub :
      g \in peers[h] \ scene.seeds[h] =>
        h \in peers[g] \/ \E b \in BOOLEAN : <<h, g, b>> \in registrations

ClusterInv == ClusterTypes /\ MeshInv /\ Genuine /\ Mutual

LEMMA ClusterStart == ClusterInit => ClusterInv
<1> SUFFICES ASSUME ClusterInit PROVE ClusterInv
  OBVIOUS
<1>1. scene \in [seeds : [Hub -> SUBSET Hub], puts : SUBSET Put, deletions : Nat,
                 losses : Nat, restarts : Nat, overlap : BOOLEAN]
  BY SceneAssumption DEF ClusterInit
<1>2. ClusterTypes
  BY <1>1 DEF ClusterInit, ClusterTypes, ClusterTypeOK, NoSchedules
<1>3. MeshInv /\ Genuine /\ Mutual
  BY <1>1 DEF ClusterInit, MeshInv, Genuine, Mutual, Member, NoSchedules
<1> QED
  BY <1>2, <1>3 DEF ClusterInv

\* Posts of schedules to members: what the sender has.
LEMMA SyncFacts ==
  ASSUME ClusterTypes, Genuine, NEW h \in Hub, NEW to \in SUBSET Hub
  PROVE  /\ SchedulesOf(h, to) \in SUBSET (Hub \X Put)
         /\ \A m \in SchedulesOf(h, to) : m[2] \in used
<1>1. schedules \in [Hub -> [Sched -> Put \cup {None}]]
  BY DEF ClusterTypes, ClusterTypeOK
<1> QED
  BY <1>1 DEF SchedulesOf, Genuine

\* A hub that learns of others announces itself to those that are new to it.
LEMMA Learns ==
  ASSUME ClusterInv, NEW h \in Hub, NEW new \in SUBSET Hub, new \subseteq Member,
         AddPeers(h, new), h \in Member,
         NEW gone, UNCHANGED <<scene, losses, restarts>>,
         registrations' = (registrations \ gone) \cup Announcements(h, new),
         \A m \in registrations \cap gone : m[2] = h /\ m[1] \in new
  PROVE  /\ peers' \in [Hub -> SUBSET Hub]
         /\ registrations' \in SUBSET (Hub \X Hub \X BOOLEAN)
         /\ \A k \in Hub : /\ scene.seeds[k] \subseteq peers'[k] /\ peers'[k] \subseteq Member
                           /\ peers'[k] # {} => k \in Member
         /\ \A m \in registrations' : m[1] \in Member /\ m[2] \in Member /\ m[1] # m[2]
         /\ Mutual'
<1>0. \A m \in Announcements(h, new) : \E p \in new, b \in BOOLEAN : p # h /\ m = <<h, p, b>>
  BY DEF Announcements
<1>1. /\ peers \in [Hub -> SUBSET Hub] /\ registrations \in SUBSET (Hub \X Hub \X BOOLEAN)
      /\ MeshInv /\ Mutual
  BY DEF ClusterInv, ClusterTypes, ClusterTypeOK
<1>2. /\ peers'[h] = peers[h] \cup (new \ {h})
      /\ \A k \in Hub \ {h} : peers'[k] = peers[k]
  BY <1>1 DEF AddPeers
<1>3. peers' \in [Hub -> SUBSET Hub]
  BY <1>1 DEF AddPeers
<1>4. Announcements(h, new) \in SUBSET (Hub \X Hub \X BOOLEAN)
  BY <1>0
<1>5. \A m \in Announcements(h, new) : m[1] \in Member /\ m[2] \in Member /\ m[1] # m[2]
  BY <1>0
<1>6. ASSUME losses = 0, restarts = 0, NEW k \in Hub, NEW g \in Hub,
             g \in peers'[k] \ scene.seeds[k]
      PROVE  k \in peers'[g] \/ \E b \in BOOLEAN : <<k, g, b>> \in registrations'
  <2>1. CASE g \in peers[k]
    <3>1. k \in peers[g] \/ \E b \in BOOLEAN : <<k, g, b>> \in registrations
      BY <1>1, <1>6, <2>1 DEF Mutual
    <3>2. CASE k \in peers[g]
      BY <1>2, <3>2
    <3>3. ASSUME NEW b \in BOOLEAN, <<k, g, b>> \in registrations
          PROVE  k \in peers'[g] \/ <<k, g, b>> \in registrations'
      <4>1. CASE <<k, g, b>> \notin gone
        BY <3>3, <4>1
      <4>2. CASE <<k, g, b>> \in gone
        <5>1. g = h /\ k \in new
          BY <3>3, <4>2
        <5>2. k # g
          BY <1>1, <3>3 DEF MeshInv
        <5> QED
          BY <1>2, <5>1, <5>2
      <4> QED
        BY <4>1, <4>2
    <3> QED
      BY <3>1, <3>2, <3>3
  <2>2. CASE g \notin peers[k]
    <3>1. k = h /\ g \in (new \ peers[h]) \ {h}
      BY <1>2, <1>6, <2>2
    <3>2. <<h, g, FALSE>> \in registrations'
      BY <3>1 DEF Announcements
    <3> QED
      BY <3>1, <3>2
  <2> QED
    BY <2>1, <2>2
<1>7. Mutual'
  BY <1>6 DEF Mutual
<1> QED
  BY <1>1, <1>2, <1>3, <1>4, <1>5, <1>7 DEF MeshInv

USE DEF posts, state
LEMMA RegistrationHandled ==
  ASSUME ClusterInv, NEW m \in registrations, HandleRegistration(m)
  PROVE  ClusterInv'
<1> DEFINE from == m[1]
           h == m[2]
<1>0. ClusterTypes /\ MeshInv /\ Genuine /\ Mutual /\ ClusterTypeOK
  BY DEF ClusterInv, ClusterTypes
<1>1. from \in Hub /\ h \in Hub /\ from \in Member /\ h \in Member
  BY <1>0 DEF ClusterTypeOK, MeshInv
<1>2. /\ AddPeers(h, {from})
      /\ registrations' = (registrations \ {m}) \cup Announcements(h, {from})
      /\ answers' = IF m[3] THEN answers \cup {<<h, from, peers'[h]>>} ELSE answers
      /\ putPosts' = putPosts \cup SchedulesOf(h, {from})
      /\ UNCHANGED <<scene, schedules, deletePosts, used, deleted, losses, restarts>>
  BY DEF HandleRegistration, SyncAll
<1>3. /\ peers' \in [Hub -> SUBSET Hub]
      /\ registrations' \in SUBSET (Hub \X Hub \X BOOLEAN)
      /\ \A k \in Hub : /\ scene.seeds[k] \subseteq peers'[k] /\ peers'[k] \subseteq Member
                        /\ peers'[k] # {} => k \in Member
      /\ \A p \in registrations' : p[1] \in Member /\ p[2] \in Member /\ p[1] # p[2]
      /\ Mutual'
  <2> DEFINE new == {from}
             gone == {m}
  <2>1. new \in SUBSET Hub /\ new \subseteq Member
        /\ \A p \in registrations \cap gone : p[2] = h /\ p[1] \in new
    BY <1>1
  <2>2. AddPeers(h, new) /\ registrations' = (registrations \ gone) \cup Announcements(h, new)
    BY <1>2
  <2> HIDE DEF new, gone, h
  <2> QED
    BY <1>1, <1>2, <2>1, <2>2, Learns
<1>4. /\ SchedulesOf(h, {from}) \in SUBSET (Hub \X Put)
      /\ \A p \in SchedulesOf(h, {from}) : p[2] \in used
  <2>1. {from} \in SUBSET Hub
    BY <1>1
  <2> HIDE DEF from, h
  <2> QED
    BY <1>0, <1>1, <2>1, SyncFacts
<1>5. Member' = Member
  BY <1>2 DEF Member
<1> HIDE DEF from, h
<1>6. answers' \in SUBSET (Hub \X Hub \X SUBSET Hub)
      /\ \A p \in answers' : p[1] \in Member /\ p[2] \in Member /\ p[3] \subseteq Member
  BY <1>0, <1>1, <1>2, <1>3 DEF ClusterTypeOK, MeshInv
<1>7. ClusterTypes'
  BY <1>0, <1>2, <1>3, <1>4, <1>6 DEF ClusterTypes, ClusterTypeOK
<1>8. MeshInv'
  BY <1>2, <1>3, <1>5, <1>6 DEF MeshInv
<1>9. Genuine'
  BY <1>0, <1>2, <1>4 DEF Genuine
<1> QED
  BY <1>3, <1>7, <1>8, <1>9 DEF ClusterInv

LEMMA AnswerHandled ==
  ASSUME ClusterInv, NEW m \in answers, HandleAnswer(m)
  PROVE  ClusterInv'
<1> DEFINE h == m[2]
           learnt == m[3] \ {h}
<1>0. ClusterTypes /\ MeshInv /\ Genuine /\ Mutual /\ ClusterTypeOK
  BY DEF ClusterInv, ClusterTypes
<1>1. /\ m[1] \in Hub /\ h \in Hub /\ m[1] \in Member /\ h \in Member
      /\ learnt \in SUBSET Hub /\ learnt \subseteq Member
  BY <1>0 DEF ClusterTypeOK, MeshInv
<1>2. /\ AddPeers(h, learnt)
      /\ registrations' = registrations \cup Announcements(h, learnt)
      /\ answers' = answers \ {m}
      /\ putPosts' = putPosts \cup SchedulesOf(h, learnt \cup {m[1]})
      /\ UNCHANGED <<scene, schedules, deletePosts, used, deleted, losses, restarts>>
  BY DEF HandleAnswer, SyncAll
<1>3. /\ peers' \in [Hub -> SUBSET Hub]
      /\ registrations' \in SUBSET (Hub \X Hub \X BOOLEAN)
      /\ \A k \in Hub : /\ scene.seeds[k] \subseteq peers'[k] /\ peers'[k] \subseteq Member
                        /\ peers'[k] # {} => k \in Member
      /\ \A p \in registrations' : p[1] \in Member /\ p[2] \in Member /\ p[1] # p[2]
      /\ Mutual'
  <2> DEFINE gone == {}
  <2>1. registrations' = (registrations \ gone) \cup Announcements(h, learnt)
        /\ \A p \in registrations \cap gone : p[2] = h /\ p[1] \in learnt
    BY <1>2
  <2> HIDE DEF gone, learnt, h
  <2> QED
    BY <1>1, <1>2, <2>1, Learns
<1>4. /\ SchedulesOf(h, learnt \cup {m[1]}) \in SUBSET (Hub \X Put)
      /\ \A p \in SchedulesOf(h, learnt \cup {m[1]}) : p[2] \in used
  <2>1. learnt \cup {m[1]} \in SUBSET Hub
    BY <1>1
  <2> HIDE DEF learnt, h
  <2> QED
    BY <1>0, <1>1, <2>1, SyncFacts
<1>5. Member' = Member
  BY <1>2 DEF Member
<1> HIDE DEF learnt, h
<1>6. ClusterTypes'
  BY <1>0, <1>2, <1>3, <1>4 DEF ClusterTypes, ClusterTypeOK
<1>7. MeshInv'
  BY <1>0, <1>2, <1>3, <1>5 DEF MeshInv
<1>8. Genuine'
  BY <1>0, <1>2, <1>4 DEF Genuine
<1> QED
  BY <1>3, <1>6, <1>7, <1>8 DEF ClusterInv

\* What changes no hub's peers and takes no registration away leaves the mesh.
LEMMA MeshStays ==
  ASSUME ClusterInv, UNCHANGED <<scene, peers, registrations, answers, losses, restarts>>
  PROVE  MeshInv' /\ Mutual'
<1>1. Member' = Member
  BY DEF Member
<1> QED
  BY <1>1 DEF ClusterInv, MeshInv, Mutual

LEMMA PutStep ==
  ASSUME ClusterInv, NEW h \in Hub, NEW p \in Put, AddSchedule(h, p) \/ HandlePut(h, p)
  PROVE  ClusterInv'
<1>0. /\ ClusterTypes /\ Genuine /\ ClusterTypeOK /\ p # None /\ IDOf[p] \in Sched
      /\ schedules \in [Hub -> [Sched -> Put \cup {None}]]
      /\ peers \in [Hub -> SUBSET Hub]
  BY PutAssumption DEF ClusterInv, ClusterTypes, ClusterTypeOK
<1>1. MeshInv' /\ Mutual' /\ UNCHANGED <<scene, peers, registrations, answers, losses, restarts>>
  BY MeshStays DEF AddSchedule, HandlePut
<1>2. Others(h) \in SUBSET Hub
  BY <1>0 DEF Others
<1>3. CASE AddSchedule(h, p)
  <2>1. /\ p \in scene.puts /\ used' = used \cup {p} /\ UNCHANGED <<deletePosts, deleted>>
        /\ schedules' = [schedules EXCEPT ![h][IDOf[p]] = p]
        /\ putPosts' = putPosts \cup (Others(h) \X {p})
    BY <1>3 DEF AddSchedule
  <2>2. ClusterTypes'
    BY <1>0, <1>1, <1>2, <2>1 DEF ClusterTypes, ClusterTypeOK
  <2>3. Genuine'
    BY <1>0, <1>1, <2>1 DEF Genuine
  <2> QED
    BY <1>1, <2>2, <2>3 DEF ClusterInv
<1>4. CASE HandlePut(h, p)
  <2>1. /\ <<h, p>> \in putPosts /\ putPosts' = putPosts \ {<<h, p>>}
        /\ schedules' = [schedules EXCEPT ![h][IDOf[p]] = p]
        /\ UNCHANGED <<deletePosts, used, deleted>>
    BY <1>4 DEF HandlePut
  <2>2. ClusterTypes'
    BY <1>0, <1>1, <2>1 DEF ClusterTypes, ClusterTypeOK
  <2>3. p \in used
    BY <1>0, <2>1 DEF Genuine
  <2>4. Genuine'
    BY <1>0, <1>1, <2>1, <2>3 DEF Genuine
  <2> QED
    BY <1>1, <2>2, <2>4 DEF ClusterInv
<1> QED
  BY <1>3, <1>4

LEMMA DeleteStep ==
  ASSUME ClusterInv, NEW h \in Hub, NEW s \in Sched,
         DeleteSchedule(h, s) \/ HandleDelete(h, s)
  PROVE  ClusterInv'
<1>0. /\ ClusterTypes /\ Genuine /\ ClusterTypeOK
      /\ schedules \in [Hub -> [Sched -> Put \cup {None}]]
      /\ peers \in [Hub -> SUBSET Hub]
  BY DEF ClusterInv, ClusterTypes, ClusterTypeOK
<1>1. MeshInv' /\ Mutual' /\ UNCHANGED <<scene, peers, registrations, answers, losses, restarts>>
  BY MeshStays DEF DeleteSchedule, HandleDelete
<1>2. Others(h) \in SUBSET Hub
  BY <1>0 DEF Others
<1>3. CASE DeleteSchedule(h, s)
  <2>1. /\ deleted' = deleted \cup {s} /\ UNCHANGED <<putPosts, used>>
        /\ schedules' = [schedules EXCEPT ![h][s] = None]
        /\ deletePosts' = deletePosts \cup (Others(h) \X {s})
    BY <1>3 DEF DeleteSchedule
  <2>2. ClusterTypes'
    BY <1>0, <1>1, <1>2, <2>1 DEF ClusterTypes, ClusterTypeOK
  <2>3. Genuine'
    BY <1>0, <1>1, <2>1 DEF Genuine
  <2> QED
    BY <1>1, <2>2, <2>3 DEF ClusterInv
<1>4. CASE HandleDelete(h, s)
  <2>1. /\ deletePosts' = deletePosts \ {<<h, s>>} /\ UNCHANGED <<putPosts, used, deleted>>
        /\ schedules' = [schedules EXCEPT ![h][s] = None]
    BY <1>4 DEF HandleDelete
  <2>2. ClusterTypes'
    BY <1>0, <1>1, <2>1 DEF ClusterTypes, ClusterTypeOK
  <2>3. Genuine'
    BY <1>0, <1>1, <2>1 DEF Genuine
  <2> QED
    BY <1>1, <2>2, <2>3 DEF ClusterInv
<1> QED
  BY <1>3, <1>4

LEMMA RoundStep ==
  ASSUME ClusterInv, NEW h \in Hub, RegisterWithPeers(h)
  PROVE  ClusterInv'
<1>0. ClusterTypes /\ MeshInv /\ Genuine /\ Mutual /\ ClusterTypeOK
  BY DEF ClusterInv, ClusterTypes
<1> DEFINE new == {<<h, p, TRUE>> : p \in Others(h)}
<1>1. /\ registrations' = registrations \cup new
      /\ UNCHANGED <<scene, peers, schedules, answers, putPosts, deletePosts, used,
                     deleted, losses, restarts>>
  BY DEF RegisterWithPeers
<1>2. \A m \in new : \E p \in peers[h] \ {h} : m = <<h, p, TRUE>>
  BY DEF Others
<1>3. peers[h] \subseteq Hub /\ peers[h] \subseteq Member
  BY <1>0 DEF ClusterTypeOK, MeshInv
<1>4. \A m \in new : \E p \in Member, b \in BOOLEAN : h \in Member /\ p # h /\ m = <<h, p, b>>
  BY <1>0, <1>2, <1>3 DEF MeshInv
<1>5. new \in SUBSET (Hub \X Hub \X BOOLEAN)
  <2> HIDE DEF new
  <2> QED
    BY <1>3, <1>4 DEF Member
<1>6. \A m \in new : m[1] \in Member /\ m[2] \in Member /\ m[1] # m[2]
  <2> HIDE DEF new
  <2> QED
    BY <1>4
<1>7. Member' = Member
  BY <1>1 DEF Member
<1> HIDE DEF new
<1>8. ClusterTypes'
  BY <1>0, <1>1, <1>5 DEF ClusterTypes, ClusterTypeOK
<1>9. MeshInv'
  BY <1>0, <1>1, <1>6, <1>7 DEF MeshInv
<1>10. Genuine' /\ Mutual'
  BY <1>0, <1>1 DEF Genuine, Mutual
<1> QED
  BY <1>8, <1>9, <1>10 DEF ClusterInv

LEMMA LoseStep ==
  ASSUME ClusterInv, Lose
  PROVE  ClusterInv'
<1>0. ClusterTypes /\ MeshInv /\ Genuine /\ ClusterTypeOK
  BY DEF ClusterInv, ClusterTypes
<1>1. /\ UNCHANGED <<scene, peers, schedules, used, deleted, restarts>>
      /\ losses' = losses + 1 /\ losses < scene.losses
      /\ registrations' \subseteq registrations /\ answers' \subseteq answers
      /\ putPosts' \subseteq putPosts /\ deletePosts' \subseteq deletePosts
  BY DEF Lose
<1>2. losses \in Nat /\ scene.losses \in Nat /\ losses' \in 0 .. scene.losses /\ losses' # 0
  BY <1>0, <1>1 DEF ClusterTypes, ClusterTypeOK
<1>3. Member' = Member
  BY <1>1 DEF Member
<1>4. ClusterTypes'
  BY <1>0, <1>1, <1>2 DEF ClusterTypes, ClusterTypeOK
<1>5. MeshInv' /\ Genuine'
  BY <1>0, <1>1, <1>3 DEF MeshInv, Genuine
<1>6. Mutual'
  BY <1>2 DEF Mutual
<1> QED
  BY <1>4, <1>5, <1>6 DEF ClusterInv

LEMMA RestartStep ==
  ASSUME ClusterInv, NEW h \in Hub, Restart(h)
  PROVE  ClusterInv'
<1>0. ClusterTypes /\ MeshInv /\ Genuine /\ ClusterTypeOK
  BY DEF ClusterInv, ClusterTypes
<1>1. /\ UNCHANGED <<scene, registrations, putPosts, deletePosts, used, deleted, losses>>
      /\ restarts' = restarts + 1 /\ restarts < scene.restarts
      /\ peers' = [peers EXCEPT ![h] = scene.seeds[h]]
      /\ schedules' = [schedules EXCEPT ![h] = NoSchedules]
      /\ answers' \subseteq answers
  BY DEF Restart
<1>2. restarts \in Nat /\ restarts' \in 0 .. scene.restarts /\ restarts' # 0
      /\ scene.seeds \in [Hub -> SUBSET Hub]
  BY <1>0, <1>1 DEF ClusterTypes, ClusterTypeOK
<1>3. Member' = Member
  BY <1>1 DEF Member
<1>4. scene.seeds[h] \subseteq Member /\ (scene.seeds[h] # {} => h \in Member)
  BY <1>2 DEF Member
<1>5. ClusterTypes'
  BY <1>0, <1>1, <1>2 DEF ClusterTypes, ClusterTypeOK, NoSchedules
<1>6. MeshInv'
  BY <1>0, <1>1, <1>3, <1>4 DEF MeshInv, ClusterTypeOK
<1>7. Genuine'
  BY <1>0, <1>1 DEF Genuine, ClusterTypeOK, NoSchedules
<1>8. Mutual'
  BY <1>2 DEF Mutual
<1> QED
  BY <1>5, <1>6, <1>7, <1>8 DEF ClusterInv

\* The inductive invariant of the mesh holds in every reachable state.
THEOREM ClusterInvariant == ClusterSpec => []ClusterInv
<1>1. ClusterInv /\ [ClusterNext]_clusterVars => ClusterInv'
  <2> SUFFICES ASSUME ClusterInv, [ClusterNext]_clusterVars PROVE ClusterInv'
    OBVIOUS
  <2>1. CASE UNCHANGED clusterVars
    <3>1. UNCHANGED <<scene, peers, schedules, registrations, answers, putPosts,
                      deletePosts, used, deleted, losses, restarts>>
      BY <2>1 DEF clusterVars
    <3>2. ClusterTypes' /\ Genuine'
      BY <3>1 DEF ClusterInv, ClusterTypes, ClusterTypeOK, Genuine
    <3> QED
      BY <3>1, <3>2, MeshStays DEF ClusterInv
  <2>2. ASSUME NEW h \in Hub, RegisterWithPeers(h) \/ Restart(h) PROVE ClusterInv'
    BY <2>2, RoundStep, RestartStep
  <2>3. ASSUME NEW h \in Hub, NEW p \in Put, AddSchedule(h, p) \/ HandlePut(h, p)
        PROVE  ClusterInv'
    BY <2>3, PutStep
  <2>4. ASSUME NEW h \in Hub, NEW s \in Sched, DeleteSchedule(h, s) \/ HandleDelete(h, s)
        PROVE  ClusterInv'
    BY <2>4, DeleteStep
  <2>5. ASSUME NEW m \in registrations, HandleRegistration(m) PROVE ClusterInv'
    BY <2>5, RegistrationHandled
  <2>6. ASSUME NEW m \in answers, HandleAnswer(m) PROVE ClusterInv'
    BY <2>6, AnswerHandled
  <2>7. CASE Lose
    BY <2>7, LoseStep
  <2> QED
    BY <2>1, <2>2, <2>3, <2>4, <2>5, <2>6, <2>7 DEF ClusterNext
<1> QED
  BY <1>1, ClusterStart, PTL DEF ClusterSpec

\* For any seeds, losses and restarts, no hub has a schedule, and none is under
\* way, that no client put, and none that a client put under another ID.
THEOREM OnlyFromClients ==
  ClusterSpec => [](Genuine /\ \A h \in Hub, s \in Sched :
                      schedules[h][s] # None => IDOf[schedules[h][s]] = s)
<1>1. ClusterInv => Genuine /\ \A h \in Hub, s \in Sched :
                      schedules[h][s] # None => IDOf[schedules[h][s]] = s
  BY DEF ClusterInv, ClusterTypes, ClusterTypeOK
<1> QED
  BY <1>1, ClusterInvariant, PTL

\* For any seeds, hubs know each other, or one's announcement is on its way,
\* unless a post was lost or a hub restarted: AddPeer never leaves a hub with
\* a peer that has no reason to learn of it.
THEOREM KnownToEachOther == ClusterSpec => []Mutual
<1>1. ClusterInv => Mutual
  BY DEF ClusterInv
<1> QED
  BY <1>1, ClusterInvariant, PTL
=============================================================================
