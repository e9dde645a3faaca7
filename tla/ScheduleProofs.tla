---------------------------- MODULE ScheduleProofs ----------------------------
(***************************************************************************)
(* Proofs about ScheduleSync, for any agents, schedules and requests, any  *)
(* capacity of the send channel and any number of connections and restarts *)
(* of the hub, and about ServerScheduler, for any schedules and any number *)
(* of lists.                                                               *)
(***************************************************************************)
EXTENDS ScheduleSync, ServerScheduler, SequenceTheorems, TLAPS

USE DEF netVars, histVars

\* The lists that have left the hub for an agent and have not been applied.
UnderWay(a) == {send[a][i] : i \in 1..Len(send[a])} \cup handling[a]

\* A caller of SyncAgentSchedules that will still reach the agent's connection.
Syncing(k, a) ==
  /\ call[k].agent = a
  /\ \/ call[k].pc = "lookup"
     \/ call[k].pc \in {"snapshot", "enqueue"} /\ call[k].conn = epoch[a]

\* Every list under way, or in the hands of a caller, was the agent's at some
\* time.
ListInv ==
  /\ \A a \in Agent :
       /\ View(a) \in views[a] /\ running[a] \in views[a]
       /\ \A m \in UnderWay(a) : m.list \in views[a]
  /\ \A k \in Caller :
       call[k].pc = "enqueue" => call[k].list \in views[call[k].agent]

\* Callers hold this connection or an old one; what is under way to a connected
\* agent came over this one.
ConnInv ==
  /\ \A k \in Caller :
       call[k].pc \in {"snapshot", "enqueue"} => call[k].conn <= epoch[call[k].agent]
  /\ \A h \in Handler : call[h].agent = h[1]
  /\ \A o \in Op : call[o].pc = "idle" => call[o].agent = Request[o].agent
  /\ \A a \in Agent :
       /\ ~up[a] => send[a] = <<>>
       /\ up[a] => \A m \in UnderWay(a) : m.conn = epoch[a]

\* What is on its way to a calm agent is the list the hub has for it, and if it
\* does not run that list yet, something is on its way.
CalmInv ==
  \A a \in calm : up[a] =>
    /\ \A m \in UnderWay(a) : m.list = View(a)
    /\ \A k \in Caller :
         call[k].agent = a /\ call[k].pc = "enqueue" /\ call[k].conn = epoch[a]
           => call[k].list = View(a)
    /\ \/ running[a] = View(a)
       \/ UnderWay(a) # {}
       \/ \E k \in Caller : Syncing(k, a)

SyncInv == TypeOK /\ ListInv /\ ConnInv /\ CalmInv
-----------------------------------------------------------------------------
(* ScheduleSync: sequences and views                                       *)

\* Queueing a message puts it, and nothing else, under way.
LEMMA Queued ==
  ASSUME NEW s \in Seq(Message), NEW m \in Message
  PROVE  /\ Append(s, m) \in Seq(Message) /\ Len(Append(s, m)) = Len(s) + 1
         /\ Len(s) \in Nat /\ Append(s, m) # <<>>
         /\ {Append(s, m)[i] : i \in 1..Len(Append(s, m))}
              = {s[i] : i \in 1..Len(s)} \cup {m}
<1>1. /\ Append(s, m) \in Seq(Message) /\ Len(Append(s, m)) = Len(s) + 1
      /\ Len(s) \in Nat /\ Append(s, m)[Len(s) + 1] = m
      /\ \A i \in 1..Len(s) : Append(s, m)[i] = s[i]
  BY AppendProperties, LenProperties
<1>2. \A i : i \in 1..Len(s) + 1 <=> i \in 1..Len(s) \/ i = Len(s) + 1
  BY <1>1
<1>3. {Append(s, m)[i] : i \in 1..Len(s) + 1} = {s[i] : i \in 1..Len(s)} \cup {m}
  BY <1>1, <1>2
<1>4. Append(s, m) # <<>>
  BY <1>1, EmptySeq
<1> QED
  BY <1>1, <1>3, <1>4

\* Taking the first message leaves the others.
LEMMA Taken ==
  ASSUME NEW s \in Seq(Message), s # <<>>
  PROVE  /\ Tail(s) \in Seq(Message) /\ Len(Tail(s)) = Len(s) - 1 /\ Head(s) \in Message
         /\ {s[i] : i \in 1..Len(s)} = {Tail(s)[i] : i \in 1..Len(Tail(s))} \cup {Head(s)}
<1>1. /\ Tail(s) \in Seq(Message) /\ Len(Tail(s)) = Len(s) - 1 /\ Head(s) \in Message
      /\ Len(s) \in Nat /\ Len(s) >= 1 /\ Head(s) = s[1]
      /\ \A i \in 1..Len(s) - 1 : Tail(s)[i] = s[i + 1]
  BY HeadTailProperties, EmptySeq, LenProperties
<1>2. {s[i] : i \in 1..Len(s)} \subseteq {Tail(s)[i] : i \in 1..Len(s) - 1} \cup {Head(s)}
  <2>1. SUFFICES ASSUME NEW i \in 1..Len(s), i # 1
                 PROVE  \E j \in 1..Len(s) - 1 : Tail(s)[j] = s[i]
    BY <1>1
  <2>2. i - 1 \in 1..Len(s) - 1 /\ (i - 1) + 1 = i
    BY <1>1, <2>1
  <2> QED
    BY <1>1, <2>2
<1>3. {Tail(s)[i] : i \in 1..Len(s) - 1} \cup {Head(s)} \subseteq {s[i] : i \in 1..Len(s)}
  <2>1. \A i \in 1..Len(s) - 1 : i + 1 \in 1..Len(s)
    BY <1>1
  <2> QED
    BY <1>1, <2>1
<1> QED
  BY <1>1, <1>2, <1>3

\* A view is a list.
LEMMA ViewType ==
  ASSUME NEW map \in [Sched -> Op \cup {None}], NEW a \in Agent
  PROVE  ViewOf(map, a) \in List
BY DEF ViewOf, List

\* A put changes the view of no agent but its own, unless it takes a schedule
\* from another one.
LEMMA PutView ==
  ASSUME TypeOK, NEW o \in Op, NEW a \in Agent, a # Request[o].agent,
         NEW map, map = [schedules EXCEPT ![Request[o].sched] = o],
         ~MovesFrom(map, a)
  PROVE  ViewOf(map, a) = View(a)
<1>1. /\ Request[o].sched \in Sched /\ map[Request[o].sched] = o /\ o # None
      /\ \A s \in Sched : s # Request[o].sched => map[s] = schedules[s]
  BY RequestAssumption, NoneAssumption DEF TypeOK
<1>2. ~(schedules[Request[o].sched] # None
          /\ Request[schedules[Request[o].sched]].agent = a)
  <2> DEFINE e == <<Request[o].sched, schedules[Request[o].sched]>>
  <2>1. SUFFICES ASSUME schedules[e[1]] # None, Request[schedules[e[1]]].agent = a
                 PROVE  FALSE
    OBVIOUS
  <2>2. e \in View(a)
    BY <1>1, <2>1 DEF View, ViewOf
  <2>3. map[e[1]] # None /\ Request[map[e[1]]].agent # a
    BY <1>1
  <2> QED
    BY <2>2, <2>3 DEF MovesFrom
<1>3. \A s \in Sched :
        (map[s] # None /\ Request[map[s]].agent = a)
          <=> (schedules[s] # None /\ Request[schedules[s]].agent = a)
  BY <1>1, <1>2
<1>4. \A s \in Sched : map[s] # None /\ Request[map[s]].agent = a => map[s] = schedules[s]
  BY <1>1
<1> QED
  BY <1>3, <1>4 DEF View, ViewOf

\* A deletion changes the view of the agent whose schedule it was only.
LEMMA DeleteView ==
  ASSUME TypeOK, NEW s \in Sched, NEW a \in Agent, schedules[s] # None,
         a # Request[schedules[s]].agent
  PROVE  ViewOf([schedules EXCEPT ![s] = None], a) = View(a)
<1> DEFINE map == [schedules EXCEPT ![s] = None]
<1>1. map[s] = None /\ \A t \in Sched : t # s => map[t] = schedules[t]
  BY DEF TypeOK
<1> HIDE DEF map
<1>2. ViewOf(map, a) = View(a)
  BY <1>1 DEF View, ViewOf
<1> QED
  BY <1>2 DEF map

LEMMA SameView ==
  ASSUME UNCHANGED schedules, NEW a
  PROVE  View(a)' = View(a)
BY DEF View, ViewOf

LEMMA SameUnderWay ==
  ASSUME UNCHANGED <<send, handling>>, NEW a
  PROVE  UnderWay(a)' = UnderWay(a)
BY DEF UnderWay
-----------------------------------------------------------------------------
(* ScheduleSync: types                                                     *)

LEMMA SyncInit == Init => SyncInv
<1> SUFFICES ASSUME Init PROVE SyncInv
  OBVIOUS
<1>1. TypeOK
  <2>1. \A k \in Caller : (IF k \in Op THEN Request[k].agent ELSE k[1]) \in Agent
    BY RequestAssumption DEF Caller, Handler
  <2>2. <<>> \in Seq(Message) /\ Len(<<>>) = 0
    BY EmptySeq
  <2>3. call \in [Caller -> [pc : {"idle", "lookup", "snapshot", "enqueue", "done"},
                             agent : Agent, conn : 0 .. MaxConn, list : List]]
    BY <2>1, BoundAssumption DEF Init, List
  <2>4. send \in [Agent -> Seq(Message)] /\ \A a \in Agent : Len(send[a]) <= SendCap
    BY <2>2, BoundAssumption DEF Init
  <2> QED
    BY <2>3, <2>4, BoundAssumption DEF Init, TypeOK, List
<1>2. \A a \in Agent : View(a) = {}
  BY DEF Init, View, ViewOf
<1>3. \A a \in Agent : UnderWay(a) = {}
  BY EmptySeq DEF Init, UnderWay
<1>4. ListInv
  BY <1>2, <1>3 DEF Init, ListInv
<1>5. ConnInv
  BY <1>3, CallerAssumption DEF Init, ConnInv, Caller, Handler
<1>6. CalmInv
  BY DEF Init, CalmInv
<1> QED
  BY <1>1, <1>4, <1>5, <1>6 DEF SyncInv

\* A change of the map keeps the types.
LEMMA ChangeType ==
  ASSUME TypeOK, NEW map \in [Sched -> Op \cup {None}], Change(map)
  PROVE  /\ schedules' \in [Sched -> Op \cup {None}]
         /\ views' \in [Agent -> SUBSET List] /\ calm' \in SUBSET Agent
BY ViewType DEF TypeOK, Change

LEMMA OpType ==
  ASSUME NEW o \in Op
  PROVE  o \in Caller /\ Request[o].sched \in Sched /\ Request[o].agent \in Agent
BY RequestAssumption DEF Caller

LEMMA ReturnedType ==
  ASSUME NEW a \in Agent
  PROVE  Returned(a) \in [pc : {"idle", "lookup", "snapshot", "enqueue", "done"},
                          agent : Agent, conn : 0 .. MaxConn, list : List]
BY BoundAssumption DEF Returned, List

CallRec == [pc : {"idle", "lookup", "snapshot", "enqueue", "done"},
            agent : Agent, conn : 0 .. MaxConn, list : List]
CallSet == [Caller -> CallRec]

\* A caller's local variables.
LEMMA CallType ==
  ASSUME TypeOK, NEW k \in Caller
  PROVE  /\ call[k].agent \in Agent /\ call[k].conn \in 0 .. MaxConn
         /\ call[k].list \in List
         /\ call[k] \in [pc : {"idle", "lookup", "snapshot", "enqueue", "done"},
                         agent : Agent, conn : 0 .. MaxConn, list : List]
BY DEF TypeOK

LEMMA TypeStep ==
  ASSUME TypeOK, [Next]_vars
  PROVE  TypeOK'
<1>1. CASE UNCHANGED vars
  BY <1>1 DEF TypeOK, vars
<1>2. ASSUME NEW o \in Op, Put(o) PROVE TypeOK'
  <2>1. [schedules EXCEPT ![Request[o].sched] = o] \in [Sched -> Op \cup {None}]
    BY OpType DEF TypeOK
  <2>2. /\ schedules' \in [Sched -> Op \cup {None}]
        /\ views' \in [Agent -> SUBSET List] /\ calm' \in SUBSET Agent
    BY <1>2, <2>1, ChangeType DEF Put
  <2>3. call' \in CallSet
    <3>1. [call[o] EXCEPT !.pc = "lookup"] \in CallRec
      BY OpType, CallType DEF CallRec
    <3>2. call' = [call EXCEPT ![o] = [call[o] EXCEPT !.pc = "lookup"]]
      BY <1>2, OpType DEF Put, TypeOK
    <3> QED
      BY <3>1, <3>2 DEF TypeOK, CallSet, CallRec
  <2> QED
    BY <1>2, <2>2, <2>3 DEF TypeOK, Put, CallSet, CallRec
<1>3. ASSUME NEW o \in Op, Delete(o) PROVE TypeOK'
  <2> DEFINE old == schedules[Request[o].sched]
  <2>1. CASE old = None
    <3>1. /\ call' = [call EXCEPT ![o] = Returned(call[o].agent)]
          /\ UNCHANGED <<schedules, views, calm>>
      BY <1>3, <2>1 DEF Delete
    <3>2. call' \in CallSet
      BY <3>1, OpType, CallType, ReturnedType DEF TypeOK, CallSet, CallRec
    <3> QED
      BY <1>3, <3>1, <3>2 DEF TypeOK, Delete, CallSet, CallRec
  <2>2. CASE old # None
    <3>1. [schedules EXCEPT ![Request[o].sched] = None] \in [Sched -> Op \cup {None}]
      BY OpType DEF TypeOK
    <3>2. /\ schedules' \in [Sched -> Op \cup {None}]
          /\ views' \in [Agent -> SUBSET List] /\ calm' \in SUBSET Agent
      BY <1>3, <2>2, <3>1, ChangeType DEF Delete
    <3>3. old \in Op /\ Request[old].agent \in Agent
      BY <2>2, OpType DEF TypeOK
    <3> QED
      <4>1. call' = [call EXCEPT ![o].pc = "lookup", ![o].agent = Request[old].agent]
        BY <1>3, <2>2 DEF Delete
      <4>2. call' \in CallSet
        <5>1. [call[o] EXCEPT !.pc = "lookup", !.agent = Request[old].agent] \in CallRec
          BY <3>3, OpType, CallType DEF CallRec
        <5>2. call' = [call EXCEPT ![o] = [call[o] EXCEPT !.pc = "lookup",
                                                          !.agent = Request[old].agent]]
          BY <4>1, OpType DEF TypeOK
        <5> QED
          BY <5>1, <5>2 DEF TypeOK, CallSet, CallRec
      <4> QED
        BY <1>3, <3>2, <4>2 DEF TypeOK, Delete, CallSet, CallRec
  <2> QED
    BY <2>1, <2>2
<1>4. ASSUME NEW k \in Caller, Lookup(k) PROVE TypeOK'
  <2>1. call[k].agent \in Agent /\ epoch[call[k].agent] \in 0 .. MaxConn
    BY CallType DEF TypeOK
  <2> QED
    <3>1. \/ call' = [call EXCEPT ![k].pc = "snapshot", ![k].conn = epoch[call[k].agent]]
          \/ call' = [call EXCEPT ![k] = Returned(call[k].agent)]
      BY <1>4 DEF Lookup
    <3>2. call' \in CallSet
      <4>1. CASE call' = [call EXCEPT ![k] = Returned(call[k].agent)]
        BY <2>1, <4>1, ReturnedType DEF TypeOK, CallSet, CallRec
      <4>2. CASE call' = [call EXCEPT ![k].pc = "snapshot", ![k].conn = epoch[call[k].agent]]
        <5> DEFINE c == [call[k] EXCEPT !.pc = "snapshot", !.conn = epoch[call[k].agent]]
        <5>1. c \in CallRec
          BY <2>1, CallType DEF CallRec
        <5>2. call' = [call EXCEPT ![k] = c]
          BY <4>2 DEF TypeOK
        <5> QED
          BY <5>1, <5>2 DEF TypeOK, CallSet, CallRec
      <4> QED
        BY <3>1, <4>1, <4>2
    <3> QED
      BY <1>4, <3>2 DEF TypeOK, Lookup, CallSet, CallRec
<1>5. ASSUME NEW k \in Caller, Snapshot(k) PROVE TypeOK'
  <2>1. View(call[k].agent) \in List
    BY CallType, ViewType DEF View, TypeOK
  <2>2. call' \in CallSet
    <3> DEFINE c == [call[k] EXCEPT !.pc = "enqueue", !.list = View(call[k].agent)]
    <3>1. c \in CallRec
      BY <2>1, CallType DEF CallRec
    <3>2. call' = [call EXCEPT ![k] = c]
      BY <1>5 DEF Snapshot, TypeOK
    <3> QED
      BY <3>1, <3>2 DEF TypeOK, CallSet, CallRec
  <2> QED
    BY <1>5, <2>2 DEF TypeOK, Snapshot, CallSet, CallRec
<1>6. ASSUME NEW k \in Caller, Enqueue(k) PROVE TypeOK'
  <2> DEFINE a == call[k].agent
             m == [by |-> k, conn |-> call[k].conn, list |-> call[k].list]
  <2>1. a \in Agent /\ m \in Message
    BY CallType DEF Message
  <2>2. send[a] \in Seq(Message) /\ Len(send[a]) <= SendCap
    BY <2>1 DEF TypeOK
  <2>3. Append(send[a], m) \in Seq(Message) /\ Len(Append(send[a], m)) = Len(send[a]) + 1
        /\ Len(send[a]) \in Nat
    BY <2>1, <2>2, Queued
  <2>4. \/ send' = [send EXCEPT ![a] = Append(@, m)] /\ Len(send[a]) < SendCap
        \/ send' = send
    BY <1>6 DEF Enqueue
  <2>5. send' \in [Agent -> Seq(Message)] /\ \A b \in Agent : Len(send'[b]) <= SendCap
    <3> HIDE DEF m, a
    <3>1. CASE send' = send
      BY <3>1 DEF TypeOK
    <3>2. CASE send' = [send EXCEPT ![a] = Append(@, m)] /\ Len(send[a]) < SendCap
      <4>1. send'[a] = Append(send[a], m) /\ \A b \in Agent : b # a => send'[b] = send[b]
        BY <2>1, <3>2 DEF TypeOK
      <4>2. Len(send'[a]) <= SendCap
        BY <2>3, <3>2, <4>1, BoundAssumption
      <4>3. send' \in [Agent -> Seq(Message)]
        BY <2>1, <2>3, <3>2 DEF TypeOK
      <4> QED
        BY <4>1, <4>2, <4>3 DEF TypeOK
    <3> QED
      BY <2>4, <3>1, <3>2
  <2>6. call' = [call EXCEPT ![k] = Returned(a)] /\ Returned(a) \in
          [pc : {"idle", "lookup", "snapshot", "enqueue", "done"},
           agent : Agent, conn : 0 .. MaxConn, list : List]
    BY <1>6, <2>1, ReturnedType DEF Enqueue
  <2> QED
    BY <1>6, <2>5, <2>6 DEF TypeOK, Enqueue
<1>7. ASSUME NEW a \in Agent, Deliver(a) PROVE TypeOK'
  <2>1. send[a] \in Seq(Message) /\ send[a] # <<>>
    BY <1>7 DEF TypeOK, Deliver
  <2>2. /\ Tail(send[a]) \in Seq(Message) /\ Head(send[a]) \in Message
        /\ Len(send[a]) \in Nat /\ Len(Tail(send[a])) = Len(send[a]) - 1
    BY <2>1, Taken, LenProperties
  <2> QED
    BY <1>7, <2>2, BoundAssumption DEF TypeOK, Deliver
<1>8. ASSUME NEW a \in Agent, NEW m \in handling[a], Apply(a, m) PROVE TypeOK'
  <2>1. m.list \in List
    BY <1>8 DEF TypeOK, Message
  <2> QED
    BY <1>8, <2>1 DEF TypeOK, Apply
<1>9. ASSUME NEW a \in Agent, Dial(a) PROVE TypeOK'
  <2>1. epoch[a] + 1 \in 0 .. MaxConn /\ <<a, epoch[a] + 1>> \in Caller
    BY <1>9, BoundAssumption DEF TypeOK, Dial, Caller, Handler
  <2> QED
    BY <1>9, <2>1 DEF TypeOK, Dial
<1>10. ASSUME NEW a \in Agent, Drop(a) PROVE TypeOK'
  <2>1. <<>> \in Seq(Message) /\ Len(<<>>) = 0
    BY EmptySeq
  <2> QED
    <3>1. handling' \in [Agent -> SUBSET Message]
      BY <1>10 DEF TypeOK, Drop
    <3>2. send' \in [Agent -> Seq(Message)] /\ \A b \in Agent : Len(send'[b]) <= SendCap
      BY <1>10, <2>1, BoundAssumption DEF TypeOK, Drop
    <3> QED
      BY <1>10, <3>1, <3>2 DEF TypeOK, Drop
<1>11. CASE HubRestart
  <2>1. <<>> \in Seq(Message) /\ Len(<<>>) = 0
    BY EmptySeq
  <2>2. [s \in Sched |-> None] \in [Sched -> Op \cup {None}]
    OBVIOUS
  <2>3. /\ schedules' \in [Sched -> Op \cup {None}]
        /\ views' \in [Agent -> SUBSET List] /\ calm' \in SUBSET Agent
    BY <1>11, <2>2, ChangeType DEF HubRestart
  <2>4. call' \in [Caller -> [pc : {"idle", "lookup", "snapshot", "enqueue", "done"},
                              agent : Agent, conn : 0 .. MaxConn, list : List]]
    BY <1>11, CallType, ReturnedType DEF HubRestart
  <2> QED
    BY <1>11, <2>1, <2>3, <2>4, BoundAssumption DEF TypeOK, HubRestart
<1> QED
  BY <1>1, <1>2, <1>3, <1>4, <1>5, <1>6, <1>7, <1>8, <1>9, <1>10, <1>11
  DEF Next, SyncAgentSchedules
-----------------------------------------------------------------------------
(* ScheduleSync: how each step moves what is under way                     *)

LEMMA ReturnedFacts ==
  ASSUME NEW a
  PROVE  Returned(a).pc = "done" /\ Returned(a).agent = a
BY DEF Returned

\* A change of the map keeps every list an agent has been entitled to, and adds
\* its new one.
LEMMA ViewsGrow ==
  ASSUME TypeOK, NEW map, Change(map), NEW a \in Agent
  PROVE  views[a] \subseteq views'[a] /\ View(a)' \in views'[a]
<1>1. schedules' = map /\ views'[a] = views[a] \cup {ViewOf(map, a)}
  BY DEF Change
<1>2. View(a)' = ViewOf(map, a)
  BY <1>1 DEF View, ViewOf
<1> QED
  BY <1>1, <1>2

\* After a change no agent is calm but those whose view is as it was and those
\* to whom nothing is on its way.
LEMMA CalmChange ==
  ASSUME NEW map, Change(map), NEW a \in calm'
  PROVE  /\ a \in calm
         /\ View(a)' = View(a) \/ (Quiet(a) /\ ~MovesFrom(map, a))
<1>1. schedules' = map /\ a \in calm
      /\ (ViewOf(map, a) = View(a) \/ (Quiet(a) /\ ~MovesFrom(map, a)))
  BY DEF Change
<1>2. View(a)' = ViewOf(map, a)
  BY <1>1 DEF View, ViewOf
<1> QED
  BY <1>1, <1>2

LEMMA PutFacts ==
  ASSUME TypeOK, ConnInv, NEW o \in Op, Put(o)
  PROVE  /\ o \in Caller /\ call[o].pc = "idle" /\ call[o].agent = Request[o].agent
         /\ call'[o].pc = "lookup" /\ call'[o].agent = call[o].agent
         /\ \A k \in Caller : k # o => call'[k] = call[k]
         /\ UNCHANGED <<up, epoch, send, handling, running>>
         /\ Change([schedules EXCEPT ![Request[o].sched] = o])
BY OpType, CallType DEF TypeOK, ConnInv, Put

LEMMA DeleteFacts ==
  ASSUME TypeOK, NEW o \in Op, Delete(o)
  PROVE  /\ o \in Caller /\ call[o].pc = "idle"
         /\ \A k \in Caller : k # o => call'[k] = call[k]
         /\ UNCHANGED <<up, epoch, send, handling, running>>
         /\ \/ /\ call'[o].pc = "done" /\ call'[o].agent = call[o].agent
               /\ UNCHANGED <<schedules, views, calm>>
            \/ LET old == schedules[Request[o].sched]
               IN /\ old \in Op
                  /\ call'[o].pc = "lookup" /\ call'[o].agent = Request[old].agent
                  /\ Change([schedules EXCEPT ![Request[o].sched] = None])
<1> DEFINE old == schedules[Request[o].sched]
<1>1. /\ o \in Caller /\ call[o].pc = "idle"
      /\ UNCHANGED <<up, epoch, send, handling, running>>
  BY OpType DEF Delete
<1>2. CASE old = None
  BY <1>1, <1>2, ReturnedFacts, CallType DEF TypeOK, Delete
<1>3. CASE old # None
  <2>1. old \in Op
    BY <1>3, OpType DEF TypeOK
  <2>2. /\ Change([schedules EXCEPT ![Request[o].sched] = None])
        /\ call' = [call EXCEPT ![o].pc = "lookup", ![o].agent = Request[old].agent]
    BY <1>3 DEF Delete
  <2>3. /\ call'[o].pc = "lookup" /\ call'[o].agent = Request[old].agent
        /\ \A k \in Caller : k # o => call'[k] = call[k]
    BY <1>1, <2>2, CallType DEF TypeOK
  <2> QED
    BY <1>1, <2>1, <2>2, <2>3
<1> QED
  BY <1>2, <1>3

LEMMA LookupFacts ==
  ASSUME TypeOK, NEW k \in Caller, Lookup(k)
  PROVE  /\ call[k].pc = "lookup" /\ call[k].agent \in Agent
         /\ call'[k].agent = call[k].agent
         /\ IF up[call[k].agent]
            THEN call'[k].pc = "snapshot" /\ call'[k].conn = epoch[call[k].agent]
            ELSE call'[k].pc = "done"
         /\ \A j \in Caller : j # k => call'[j] = call[j]
         /\ UNCHANGED <<schedules, up, epoch, send, handling, running, views, calm>>
<1>1. /\ call[k].pc = "lookup" /\ call[k].agent \in Agent
      /\ call' = IF up[call[k].agent]
                 THEN [call EXCEPT ![k].pc = "snapshot", ![k].conn = epoch[call[k].agent]]
                 ELSE [call EXCEPT ![k] = Returned(call[k].agent)]
      /\ UNCHANGED <<schedules, up, epoch, send, handling, running, views, calm>>
  BY CallType DEF Lookup
<1>2. CASE up[call[k].agent]
  BY <1>1, <1>2, CallType DEF TypeOK
<1>3. CASE ~up[call[k].agent]
  BY <1>1, <1>3, ReturnedFacts DEF TypeOK
<1> QED
  BY <1>2, <1>3

LEMMA SnapshotFacts ==
  ASSUME TypeOK, NEW k \in Caller, Snapshot(k)
  PROVE  /\ call[k].pc = "snapshot" /\ call[k].agent \in Agent
         /\ call'[k].pc = "enqueue" /\ call'[k].list = View(call[k].agent)
         /\ call'[k].agent = call[k].agent /\ call'[k].conn = call[k].conn
         /\ \A j \in Caller : j # k => call'[j] = call[j]
         /\ UNCHANGED <<schedules, up, epoch, send, handling, running, views, calm>>
<1>1. /\ call[k].pc = "snapshot" /\ call[k].agent \in Agent
      /\ call' = [call EXCEPT ![k].pc = "enqueue", ![k].list = View(call[k].agent)]
      /\ UNCHANGED <<schedules, up, epoch, send, handling, running, views, calm>>
  BY CallType DEF Snapshot
<1> QED
  BY <1>1, CallType DEF TypeOK

\* A list is queued if it is for this connection and there is room; if not, the
\* connection is an old one, or other lists are under way.
LEMMA EnqueueFacts ==
  ASSUME TypeOK, NEW k \in Caller, NEW a, a = call[k].agent, Enqueue(k),
         NEW m, m = [by |-> k, conn |-> call[k].conn, list |-> call[k].list]
  PROVE  /\ call[k].pc = "enqueue" /\ a \in Agent /\ m \in Message
         /\ call'[k] = Returned(a)
         /\ \A j \in Caller : j # k => call'[j] = call[j]
         /\ UNCHANGED <<schedules, up, epoch, handling, running, views, calm>>
         /\ \A b \in Agent : b # a => send'[b] = send[b] /\ UnderWay(b)' = UnderWay(b)
         /\ \/ /\ up[a] /\ m.conn = epoch[a]
               /\ UnderWay(a)' = UnderWay(a) \cup {m}
            \/ /\ send' = send /\ UnderWay(a)' = UnderWay(a)
               /\ ~up[a] \/ m.conn # epoch[a] \/ UnderWay(a) # {}
<1>1. /\ call[k].pc = "enqueue" /\ a \in Agent /\ m \in Message
      /\ call'[k] = Returned(a)
      /\ \A j \in Caller : j # k => call'[j] = call[j]
      /\ UNCHANGED <<schedules, up, epoch, handling, running, views, calm>>
  BY CallType DEF TypeOK, Enqueue, Message
<1>2. send' = IF up[a] /\ m.conn = epoch[a] /\ Len(send[a]) < SendCap
              THEN [send EXCEPT ![a] = Append(@, m)] ELSE send
  BY DEF Enqueue
<1>3. \A b \in Agent : b # a => send'[b] = send[b]
  BY <1>2 DEF TypeOK
<1>4. \A b \in Agent : b # a => UnderWay(b)' = UnderWay(b)
  BY <1>1, <1>3 DEF UnderWay
<1>5. send[a] \in Seq(Message) /\ Len(send[a]) \in Nat
  BY <1>1, LenProperties DEF TypeOK
<1>6. CASE up[a] /\ m.conn = epoch[a] /\ Len(send[a]) < SendCap
  <2>1. send'[a] = Append(send[a], m)
    BY <1>1, <1>2, <1>6 DEF TypeOK
  <2>2. UnderWay(a)' = UnderWay(a) \cup {m}
    <3>1. {Append(send[a], m)[i] : i \in 1..Len(Append(send[a], m))}
            = {send[a][i] : i \in 1..Len(send[a])} \cup {m}
      BY <1>1, <1>5, Queued
    <3> QED
      BY <1>1, <2>1, <3>1 DEF UnderWay
  <2> QED
    BY <1>1, <1>3, <1>4, <1>6, <2>2
<1>7. CASE ~(up[a] /\ m.conn = epoch[a] /\ Len(send[a]) < SendCap)
  <2>1. send' = send
    BY <1>2, <1>7
  <2>2. UnderWay(a)' = UnderWay(a)
    BY <1>1, <2>1 DEF UnderWay
  <2>3. Len(send[a]) >= SendCap => UnderWay(a) # {}
    <3>1. Len(send[a]) >= SendCap => 1 \in 1..Len(send[a])
      BY <1>5, BoundAssumption
    <3> QED
      BY <3>1 DEF UnderWay
  <2>4. Len(send[a]) < SendCap \/ Len(send[a]) >= SendCap
    BY <1>5, BoundAssumption
  <2> QED
    BY <1>1, <1>3, <1>4, <1>7, <2>1, <2>2, <2>3, <2>4
<1> QED
  BY <1>6, <1>7

\* What the writePump sends, the agent handles.
LEMMA DeliverFacts ==
  ASSUME TypeOK, NEW a \in Agent, Deliver(a)
  PROVE  /\ UNCHANGED <<schedules, call, up, epoch, running, views, calm>>
         /\ \A b \in Agent : UnderWay(b)' = UnderWay(b)
         /\ \A b \in Agent : b # a => send'[b] = send[b]
         /\ up[a]
<1>1. /\ UNCHANGED <<schedules, call, up, epoch, running, views, calm>> /\ up[a]
      /\ send[a] # <<>> /\ send[a] \in Seq(Message)
      /\ send'[a] = Tail(send[a]) /\ handling'[a] = handling[a] \cup {Head(send[a])}
      /\ \A b \in Agent : b # a => send'[b] = send[b] /\ handling'[b] = handling[b]
  BY DEF TypeOK, Deliver
<1>2. UnderWay(a)' = UnderWay(a)
  BY <1>1, Taken DEF UnderWay
<1>3. \A b \in Agent : b # a => UnderWay(b)' = UnderWay(b)
  BY <1>1 DEF UnderWay
<1> QED
  BY <1>1, <1>2, <1>3

LEMMA ApplyFacts ==
  ASSUME TypeOK, NEW a \in Agent, NEW m \in handling[a], Apply(a, m)
  PROVE  /\ UNCHANGED <<schedules, call, up, epoch, send, views, calm>>
         /\ m \in UnderWay(a) /\ running'[a] = m.list
         /\ \A b \in Agent : b # a => running'[b] = running[b]
                                      /\ UnderWay(b)' = UnderWay(b)
         /\ UnderWay(a)' \subseteq UnderWay(a)
BY DEF TypeOK, Apply, UnderWay

LEMMA DialFacts ==
  ASSUME TypeOK, ConnInv, NEW a \in Agent, Dial(a)
  PROVE  LET h == <<a, epoch[a] + 1>>
         IN /\ UNCHANGED <<schedules, running, views, send, handling>>
            /\ UnderWay(a) = {} /\ \A b \in Agent : UnderWay(b)' = UnderWay(b)
            /\ ~up[a] /\ up'[a] /\ epoch'[a] = epoch[a] + 1
            /\ \A b \in Agent : b # a => up'[b] = up[b] /\ epoch'[b] = epoch[b]
            /\ h \in Handler /\ h \in Caller
            /\ call'[h].pc = "lookup" /\ call'[h].agent = call[h].agent
            /\ \A k \in Caller : k # h => call'[k] = call[k]
            /\ calm' = calm \cup {a}
<1> DEFINE h == <<a, epoch[a] + 1>>
<1>1. h \in Handler /\ h \in Caller
  BY BoundAssumption DEF TypeOK, Dial, Caller, Handler
<1>2. send[a] = <<>> /\ handling[a] = {}
  BY DEF ConnInv, Dial
<1>3. UnderWay(a) = {}
  BY <1>2, EmptySeq DEF UnderWay
<1>4. \A b \in Agent : UnderWay(b)' = UnderWay(b)
  BY DEF Dial, UnderWay
<1>5. call'[h].pc = "lookup" /\ call'[h].agent = call[h].agent
      /\ \A k \in Caller : k # h => call'[k] = call[k]
  BY <1>1, CallType DEF TypeOK, Dial
<1> QED
  BY <1>1, <1>3, <1>4, <1>5 DEF TypeOK, Dial

LEMMA DropFacts ==
  ASSUME TypeOK, NEW a \in Agent, Drop(a)
  PROVE  /\ UNCHANGED <<schedules, call, epoch, running, views, calm>>
         /\ ~up'[a] /\ send'[a] = <<>> /\ UnderWay(a)' \subseteq UnderWay(a)
         /\ \A b \in Agent : b # a => /\ up'[b] = up[b] /\ send'[b] = send[b]
                                      /\ UnderWay(b)' = UnderWay(b)
<1>1. /\ UNCHANGED <<schedules, call, epoch, running, views, calm>>
      /\ ~up'[a] /\ send'[a] = <<>>
      /\ \A b \in Agent : b # a => up'[b] = up[b] /\ send'[b] = send[b]
  BY DEF TypeOK, Drop
<1>2. handling'[a] \subseteq handling[a]
      /\ \A b \in Agent : b # a => handling'[b] = handling[b]
  BY DEF TypeOK, Drop
<1>3. UnderWay(a)' \subseteq UnderWay(a)
  BY <1>1, <1>2, EmptySeq DEF UnderWay
<1> QED
  BY <1>1, <1>2, <1>3 DEF UnderWay

LEMMA RestartFacts ==
  ASSUME TypeOK, HubRestart
  PROVE  /\ UNCHANGED <<epoch, running>>
         /\ Change([s \in Sched |-> None])
         /\ \A k \in Caller : call'[k] = IF Active(k) THEN Returned(call[k].agent)
                                         ELSE call[k]
         /\ \A a \in Agent : ~up'[a] /\ send'[a] = <<>>
                             /\ UnderWay(a)' \subseteq UnderWay(a)
<1>1. \A a \in Agent : ~up'[a] /\ send'[a] = <<>> /\ handling'[a] = handling[a]
  BY DEF HubRestart
<1>2. \A a \in Agent : UnderWay(a)' \subseteq UnderWay(a)
  BY <1>1, EmptySeq DEF UnderWay
<1> QED
  BY <1>1, <1>2 DEF HubRestart
-----------------------------------------------------------------------------
(* ScheduleSync: the invariant                                             *)

LEMMA ListStep ==
  ASSUME SyncInv, [Next]_vars
  PROVE  ListInv'
<1>0. TypeOK /\ ListInv /\ ConnInv
  BY DEF SyncInv
<1>1. CASE UNCHANGED vars
  BY <1>0, <1>1 DEF vars, ListInv, View, ViewOf, UnderWay
<1>2. ASSUME NEW o \in Op, Put(o) PROVE ListInv'
  <2>1. \A a \in Agent : /\ views[a] \subseteq views'[a] /\ View(a)' \in views'[a]
                         /\ running'[a] = running[a] /\ UnderWay(a)' = UnderWay(a)
    BY <1>0, <1>2, PutFacts, ViewsGrow, SameUnderWay
  <2>2. \A k \in Caller : call'[k].pc = "enqueue" => call'[k] = call[k]
    BY <1>0, <1>2, PutFacts, CallType
  <2> QED
    BY <1>0, <2>1, <2>2, CallType DEF ListInv
<1>3. ASSUME NEW o \in Op, Delete(o) PROVE ListInv'
  <2>1. \A a \in Agent : /\ views[a] \subseteq views'[a] /\ View(a)' \in views'[a]
                         /\ running'[a] = running[a] /\ UnderWay(a)' = UnderWay(a)
    BY <1>0, <1>3, DeleteFacts, ViewsGrow, SameUnderWay, SameView DEF ListInv
  <2>2. \A k \in Caller : call'[k].pc = "enqueue" => call'[k] = call[k]
    <3>1. call'[o].pc # "enqueue"
      BY <1>0, <1>3, DeleteFacts, CallType, ReturnedFacts
    <3> QED
      BY <1>0, <1>3, <3>1, DeleteFacts
  <2> QED
    BY <1>0, <2>1, <2>2, CallType DEF ListInv
<1>4. ASSUME NEW k \in Caller, Lookup(k) PROVE ListInv'
  <2>1. \A a \in Agent : /\ views[a] = views'[a] /\ View(a)' = View(a)
                         /\ running'[a] = running[a] /\ UnderWay(a)' = UnderWay(a)
    BY <1>0, <1>4, LookupFacts, SameView, SameUnderWay
  <2>2. \A j \in Caller : call'[j].pc = "enqueue" => call'[j] = call[j]
    <3>1. call'[k].pc # "enqueue"
      BY <1>0, <1>4, LookupFacts, CallType, ReturnedFacts
    <3> QED
      BY <1>0, <1>4, <3>1, LookupFacts
  <2> QED
    BY <1>0, <2>1, <2>2, CallType DEF ListInv
<1>5. ASSUME NEW k \in Caller, Snapshot(k) PROVE ListInv'
  <2>1. \A a \in Agent : /\ views[a] = views'[a] /\ View(a)' = View(a)
                         /\ running'[a] = running[a] /\ UnderWay(a)' = UnderWay(a)
    BY <1>0, <1>5, SnapshotFacts, SameView, SameUnderWay
  <2>2. \A j \in Caller : j # k => call'[j] = call[j]
    BY <1>0, <1>5, SnapshotFacts
  <2>3. call'[k].list = View(call[k].agent) /\ call'[k].agent = call[k].agent
        /\ call[k].agent \in Agent
    BY <1>0, <1>5, SnapshotFacts, CallType
  <2> QED
    BY <1>0, <2>1, <2>2, <2>3, CallType DEF ListInv
<1>6. ASSUME NEW k \in Caller, Enqueue(k) PROVE ListInv'
  <2>m. PICK m : m = [by |-> k, conn |-> call[k].conn, list |-> call[k].list]
    OBVIOUS
  <2>0. PICK a \in Agent : a = call[k].agent
    BY <1>0, CallType
  <2>1. /\ call[k].pc = "enqueue" /\ call'[k] = Returned(a)
        /\ \A j \in Caller : j # k => call'[j] = call[j]
        /\ UNCHANGED <<schedules, views, running>>
        /\ \A b \in Agent : b # a => UnderWay(b)' = UnderWay(b)
        /\ UnderWay(a)' \subseteq UnderWay(a) \cup {m}
    BY <1>0, <1>6, <2>m, <2>0, EnqueueFacts
  <2>2. \A b \in Agent : View(b)' = View(b)
    BY <2>1, SameView
  <2>3. \A j \in Caller : call'[j].pc = "enqueue" => call'[j] = call[j]
    BY <2>1, ReturnedFacts
  <2>4. m.list \in views[a]
    BY <1>0, <2>m, <2>0, <2>1 DEF ListInv
  <2>5. \A b \in Agent : \A x \in UnderWay(b)' : x.list \in views[b]
    BY <1>0, <2>1, <2>4 DEF ListInv
  <2> QED
    BY <1>0, <2>1, <2>2, <2>3, <2>5, CallType DEF ListInv
<1>7. ASSUME NEW a \in Agent, Deliver(a) PROVE ListInv'
  BY <1>0, <1>7, DeliverFacts, SameView DEF ListInv
<1>8. ASSUME NEW a \in Agent, NEW m \in handling[a], Apply(a, m) PROVE ListInv'
  BY <1>0, <1>8, ApplyFacts, SameView DEF ListInv
<1>9. ASSUME NEW a \in Agent, Dial(a) PROVE ListInv'
  <2>1. \A k \in Caller : call'[k].pc = "enqueue" => call'[k] = call[k]
    BY <1>0, <1>9, DialFacts, CallType
  <2> QED
    <3>1. /\ UNCHANGED <<views, running>>
          /\ \A b \in Agent : UnderWay(b)' = UnderWay(b) /\ View(b)' = View(b)
      BY <1>0, <1>9, DialFacts, SameView
    <3> QED
      BY <1>0, <2>1, <3>1, CallType DEF ListInv
<1>10. ASSUME NEW a \in Agent, Drop(a) PROVE ListInv'
  BY <1>0, <1>10, DropFacts, SameView DEF ListInv
<1>11. CASE HubRestart
  <2>1. \A k \in Caller : call'[k].pc = "enqueue" => call'[k] = call[k]
    BY <1>0, <1>11, RestartFacts, ReturnedFacts
  <2>2. \A a \in Agent : views[a] \subseteq views'[a] /\ View(a)' \in views'[a]
    BY <1>0, <1>11, RestartFacts, ViewsGrow
  <2> QED
    BY <1>0, <1>11, <2>1, <2>2, RestartFacts, CallType DEF ListInv
<1> QED
  BY <1>1, <1>2, <1>3, <1>4, <1>5, <1>6, <1>7, <1>8, <1>9, <1>10, <1>11
  DEF Next, SyncAgentSchedules

\* An operation is not a handler.
LEMMA OpNotHandler ==
  ASSUME NEW o \in Op
  PROVE  o \notin Handler
BY CallerAssumption DEF Handler

\* The parts of ConnInv.
CallersConn ==
  \A k \in Caller :
    call[k].pc \in {"snapshot", "enqueue"} => call[k].conn <= epoch[call[k].agent]
CallersAgent ==
  /\ \A h \in Handler : call[h].agent = h[1]
  /\ \A o \in Op : call[o].pc = "idle" => call[o].agent = Request[o].agent
Arriving ==
  \A a \in Agent :
    /\ ~up[a] => send[a] = <<>>
    /\ up[a] => \A m \in UnderWay(a) : m.conn = epoch[a]

LEMMA ConnParts == ConnInv <=> CallersConn /\ CallersAgent /\ Arriving
BY DEF ConnInv, CallersConn, CallersAgent, Arriving

LEMMA SameArriving ==
  ASSUME Arriving, UNCHANGED <<up, epoch, send, handling>>
  PROVE  Arriving'
BY DEF Arriving, UnderWay

\* The callers after a step that is one caller's.
LEMMA CallersStep ==
  ASSUME TypeOK, ConnInv, NEW k \in Caller, epoch' = epoch,
         \A j \in Caller : j # k => call'[j] = call[j],
         call'[k].pc \in {"snapshot", "enqueue"} => call'[k].conn <= epoch[call'[k].agent],
         k \in Handler => call'[k].agent = call[k].agent,
         call'[k].pc # "idle"
  PROVE  CallersConn' /\ CallersAgent'
<1>1. CallersConn'
  BY DEF ConnInv, CallersConn
<1>2. CallersAgent'
  BY DEF ConnInv, CallersAgent, Caller
<1> QED
  BY <1>1, <1>2

LEMMA ConnStep ==
  ASSUME SyncInv, [Next]_vars
  PROVE  ConnInv'
<1>0. /\ TypeOK /\ ConnInv /\ CallersConn /\ CallersAgent /\ Arriving
      /\ (CallersConn /\ CallersAgent /\ Arriving)' => ConnInv'
  BY ConnParts DEF SyncInv, ConnInv, CallersConn, CallersAgent, Arriving
<1>1. CASE UNCHANGED vars
  BY <1>0, <1>1 DEF vars, ConnInv, UnderWay
<1>2. ASSUME NEW o \in Op, Put(o) PROVE ConnInv'
  <2>1. Arriving'
    BY <1>0, <1>2, PutFacts, SameArriving
  <2>2. CallersConn' /\ CallersAgent'
    BY <1>0, <1>2, PutFacts, CallersStep, CallType, OpNotHandler
  <2> QED
    BY <1>0, <2>1, <2>2
<1>3. ASSUME NEW o \in Op, Delete(o) PROVE ConnInv'
  <2>1. Arriving'
    BY <1>0, <1>3, DeleteFacts, SameArriving
  <2>2. call'[o].pc \in {"done", "lookup"}
    BY <1>0, <1>3, DeleteFacts
  <2>3. CallersConn' /\ CallersAgent'
    BY <1>0, <1>3, <2>2, DeleteFacts, CallersStep, OpNotHandler
  <2> QED
    BY <1>0, <2>1, <2>3
<1>4. ASSUME NEW k \in Caller, Lookup(k) PROVE ConnInv'
  <2>1. Arriving'
    BY <1>0, <1>4, LookupFacts, SameArriving
  <2>2. /\ call'[k].agent = call[k].agent /\ call'[k].pc \in {"done", "snapshot"}
        /\ call'[k].pc = "snapshot" => call'[k].conn = epoch[call[k].agent]
    BY <1>0, <1>4, LookupFacts
  <2>3. epoch[call[k].agent] \in Int
    BY <1>0, CallType DEF TypeOK
  <2>4. CallersConn' /\ CallersAgent'
    BY <2>3, <1>0, <1>4, <2>2, LookupFacts, CallersStep
  <2> QED
    BY <1>0, <2>1, <2>4
<1>5. ASSUME NEW k \in Caller, Snapshot(k) PROVE ConnInv'
  <2>1. Arriving'
    BY <1>0, <1>5, SnapshotFacts, SameArriving
  <2>2. /\ call'[k].agent = call[k].agent /\ call'[k].pc = "enqueue"
        /\ call'[k].conn = call[k].conn /\ call[k].conn <= epoch[call[k].agent]
    BY <1>0, <1>5, SnapshotFacts, CallType DEF CallersConn
  <2>3. CallersConn' /\ CallersAgent'
    BY <1>0, <1>5, <2>2, SnapshotFacts, CallersStep
  <2> QED
    BY <1>0, <2>1, <2>3
<1>6. ASSUME NEW k \in Caller, Enqueue(k) PROVE ConnInv'
  <2>m. PICK m : m = [by |-> k, conn |-> call[k].conn, list |-> call[k].list]
    OBVIOUS
  <2>0. PICK a \in Agent : a = call[k].agent
    BY <1>0, CallType
  <2>1. /\ call'[k] = Returned(a) /\ UNCHANGED <<up, epoch>>
        /\ \A j \in Caller : j # k => call'[j] = call[j]
        /\ \A b \in Agent : b # a => send'[b] = send[b] /\ UnderWay(b)' = UnderWay(b)
        /\ \/ up[a] /\ m.conn = epoch[a] /\ UnderWay(a)' = UnderWay(a) \cup {m}
           \/ send' = send /\ UnderWay(a)' = UnderWay(a)
    BY <1>0, <1>6, <2>m, <2>0, EnqueueFacts
  <2>2. Arriving'
    BY <1>0, <2>1 DEF Arriving
  <2>3. CallersConn' /\ CallersAgent'
    BY <1>0, <2>0, <2>1, CallersStep, ReturnedFacts
  <2> QED
    BY <1>0, <2>2, <2>3
<1>7. ASSUME NEW a \in Agent, Deliver(a) PROVE ConnInv'
  <2>1. Arriving'
    BY <1>0, <1>7, DeliverFacts DEF Arriving
  <2>2. CallersConn' /\ CallersAgent'
    BY <1>0, <1>7, DeliverFacts DEF CallersConn, CallersAgent
  <2> QED
    BY <1>0, <2>1, <2>2
<1>8. ASSUME NEW a \in Agent, NEW m \in handling[a], Apply(a, m) PROVE ConnInv'
  <2>1. Arriving'
    BY <1>0, <1>8, ApplyFacts DEF Arriving
  <2>2. CallersConn' /\ CallersAgent'
    BY <1>0, <1>8, ApplyFacts DEF CallersConn, CallersAgent
  <2> QED
    BY <1>0, <2>1, <2>2
<1>9. ASSUME NEW a \in Agent, Dial(a) PROVE ConnInv'
  <2> DEFINE h == <<a, epoch[a] + 1>>
  <2>1. Arriving'
    <3>1. /\ UnderWay(a) = {} /\ \A b \in Agent : UnderWay(b)' = UnderWay(b)
          /\ UNCHANGED send /\ up'[a]
          /\ \A b \in Agent : b # a => up'[b] = up[b] /\ epoch'[b] = epoch[b]
      BY <1>0, <1>9, DialFacts
    <3> QED
      BY <1>0, <3>1 DEF Arriving
  <2>2. \A b \in Agent : epoch[b] \in Nat /\ epoch'[b] \in Nat /\ epoch[b] <= epoch'[b]
    <3>1. /\ epoch'[a] = epoch[a] + 1
          /\ \A b \in Agent : b # a => epoch'[b] = epoch[b]
      BY <1>0, <1>9, DialFacts
    <3>2. \A b \in Agent : epoch[b] \in Nat
      BY <1>0 DEF TypeOK
    <3> QED
      BY <3>1, <3>2
  <2>3. /\ h \in Caller /\ call'[h].pc = "lookup" /\ call'[h].agent = call[h].agent
        /\ h \notin Op
        /\ \A k \in Caller : k # h => call'[k] = call[k]
    BY <1>0, <1>9, DialFacts, OpNotHandler
  <2>4. CallersConn'
    <3>1. SUFFICES ASSUME NEW k \in Caller, call'[k].pc \in {"snapshot", "enqueue"}
                   PROVE  call'[k].conn <= epoch'[call'[k].agent]
      BY DEF CallersConn
    <3>2. call'[k] = call[k] /\ call[k].agent \in Agent /\ call[k].conn \in Nat
      BY <1>0, <2>3, <3>1, CallType
    <3>3. call[k].conn <= epoch[call[k].agent]
      BY <1>0, <3>1, <3>2 DEF CallersConn
    <3> HIDE DEF h
    <3> QED
      BY <2>2, <3>2, <3>3
  <2>5. CallersAgent'
    <3> HIDE DEF h
    <3> QED
      BY <1>0, <2>3 DEF CallersAgent, Caller
  <2> QED
    BY <1>0, <2>1, <2>4, <2>5
<1>10. ASSUME NEW a \in Agent, Drop(a) PROVE ConnInv'
  <2>1. Arriving'
    BY <1>0, <1>10, DropFacts DEF Arriving
  <2>2. CallersConn' /\ CallersAgent'
    BY <1>0, <1>10, DropFacts DEF CallersConn, CallersAgent
  <2> QED
    BY <1>0, <2>1, <2>2
<1>11. CASE HubRestart
  <2>1. Arriving'
    BY <1>0, <1>11, RestartFacts DEF Arriving
  <2>2. \A k \in Caller :
          /\ call'[k].agent = call[k].agent
          /\ call'[k] = call[k] \/ call'[k].pc = "done"
    BY <1>0, <1>11, RestartFacts, ReturnedFacts
  <2>3. CallersConn' /\ CallersAgent'
    BY <1>0, <1>11, <2>2, RestartFacts DEF CallersConn, CallersAgent, Caller
  <2> QED
    BY <1>0, <2>1, <2>3
<1> QED
  BY <1>1, <1>2, <1>3, <1>4, <1>5, <1>6, <1>7, <1>8, <1>9, <1>10, <1>11
  DEF Next, SyncAgentSchedules

\* What CalmInv says of one agent.
Calm(a) ==
  /\ \A m \in UnderWay(a) : m.list = View(a)
  /\ \A k \in Caller :
       call[k].agent = a /\ call[k].pc = "enqueue" /\ call[k].conn = epoch[a]
         => call[k].list = View(a)
  /\ \/ running[a] = View(a)
     \/ UnderWay(a) # {}
     \/ \E k \in Caller : Syncing(k, a)

LEMMA CalmParts == CalmInv <=> \A a \in calm : up[a] => Calm(a)
BY DEF CalmInv, Calm

\* Nothing is on its way to an agent to whom all is quiet, and it runs its list.
LEMMA QuietCalm ==
  ASSUME TypeOK, NEW a \in Agent, Calm(a), Quiet(a)
  PROVE  UnderWay(a) = {} /\ running[a] = View(a)
<1>1. UnderWay(a) = {}
  BY EmptySeq DEF Quiet, UnderWay
<1>2. \A k \in Caller : ~Syncing(k, a)
  BY DEF Quiet, Active, Syncing
<1> QED
  BY <1>1, <1>2 DEF Calm

\* A change by operation o, which then synchronises agent b: the others keep
\* their view, or had nothing on its way.
LEMMA OperationCalm ==
  ASSUME TypeOK, NEW o \in Op, NEW b \in Agent, NEW map, Change(map),
         o \in Caller, call[o].pc = "idle", call'[o].pc = "lookup", call'[o].agent = b,
         \A k \in Caller : k # o => call'[k] = call[k],
         UNCHANGED <<up, epoch, send, handling, running>>,
         \A a \in Agent : a # b /\ ~MovesFrom(map, a) => ViewOf(map, a) = View(a),
         NEW a \in calm', a \in calm => Calm(a)
  PROVE  Calm(a)'
<1>1. /\ a \in calm /\ a \in Agent
      /\ View(a)' = View(a) \/ (Quiet(a) /\ ~MovesFrom(map, a))
      /\ View(a)' = ViewOf(map, a) /\ UnderWay(a)' = UnderWay(a)
  BY CalmChange, SameUnderWay DEF TypeOK, Change, View, ViewOf
<1>2. Calm(a)
  BY <1>1
<1>3. \A k \in Caller : Syncing(k, a) => Syncing(k, a)'
  BY DEF Syncing
<1>4. CASE View(a)' = View(a)
  <2>1. \A k \in Caller :
          call'[k].agent = a /\ call'[k].pc = "enqueue" /\ call'[k].conn = epoch'[a]
            => call'[k].list = View(a)
    BY <1>2 DEF Calm
  <2> QED
    BY <1>1, <1>2, <1>3, <1>4, <2>1 DEF Calm
<1>5. CASE Quiet(a) /\ ~MovesFrom(map, a) /\ View(a)' # View(a)
  <2>1. a = b
    BY <1>1, <1>5
  <2>2. Syncing(o, a)'
    BY <2>1 DEF Syncing
  <2>3. UnderWay(a)' = {}
    BY <1>1, <1>2, <1>5, QuietCalm
  <2>4. \A k \in Caller : ~(call'[k].agent = a /\ call'[k].pc = "enqueue")
    BY <1>5 DEF Quiet, Active
  <2> QED
    BY <2>2, <2>3, <2>4 DEF Calm
<1> QED
  BY <1>1, <1>4, <1>5

LEMMA CalmStep ==
  ASSUME SyncInv, [Next]_vars
  PROVE  CalmInv'
<1>0. /\ TypeOK /\ ConnInv /\ CalmInv /\ CallersConn /\ CallersAgent /\ Arriving
      /\ \A a \in calm : a \in Agent /\ (up[a] => Calm(a))
  BY ConnParts, CalmParts DEF SyncInv, TypeOK
<1> SUFFICES ASSUME NEW a \in calm', up'[a]
             PROVE  Calm(a)'
  BY DEF CalmInv, Calm
<1>1. CASE UNCHANGED vars
  <2>1. UNCHANGED <<schedules, call, up, epoch, send, handling, running, calm>>
    BY <1>1 DEF vars
  <2>2. a \in Agent /\ up[a] /\ Calm(a) /\ View(a)' = View(a) /\ UnderWay(a)' = UnderWay(a)
    BY <1>0, <2>1, SameView, SameUnderWay
  <2> QED
    BY <2>1, <2>2 DEF Calm, Syncing
<1>2. ASSUME NEW o \in Op, Put(o) PROVE Calm(a)'
  <2> DEFINE map == [schedules EXCEPT ![Request[o].sched] = o]
  <2>1. /\ o \in Caller /\ call[o].pc = "idle" /\ Change(map)
        /\ call'[o].pc = "lookup" /\ call'[o].agent = Request[o].agent
        /\ \A k \in Caller : k # o => call'[k] = call[k]
        /\ UNCHANGED <<up, epoch, send, handling, running>>
    BY <1>0, <1>2, PutFacts
  <2>2. \A b \in Agent : b # Request[o].agent /\ ~MovesFrom(map, b)
          => ViewOf(map, b) = View(b)
    BY <1>0, PutView
  <2> HIDE DEF map
  <2> QED
    BY <1>0, <2>1, <2>2, OpType, OperationCalm
<1>3. ASSUME NEW o \in Op, Delete(o) PROVE Calm(a)'
  <2> DEFINE old == schedules[Request[o].sched]
             map == [schedules EXCEPT ![Request[o].sched] = None]
  <2>1. /\ o \in Caller /\ call[o].pc = "idle"
        /\ \A k \in Caller : k # o => call'[k] = call[k]
        /\ UNCHANGED <<up, epoch, send, handling, running>>
    BY <1>0, <1>3, DeleteFacts
  <2>2. \/ /\ call'[o].pc = "done" /\ call'[o].agent = call[o].agent
           /\ UNCHANGED <<schedules, views, calm>>
        \/ /\ old \in Op /\ Change(map)
           /\ call'[o].pc = "lookup" /\ call'[o].agent = Request[old].agent
    BY <1>0, <1>3, DeleteFacts
  <2>3. CASE UNCHANGED <<schedules, views, calm>> /\ call'[o].pc = "done"
    <3>1. Calm(a) /\ View(a)' = View(a) /\ UnderWay(a)' = UnderWay(a)
      BY <1>0, <2>1, <2>3, SameView, SameUnderWay
    <3>2. \A k \in Caller : Syncing(k, a) => Syncing(k, a)'
      BY <2>1 DEF Syncing
    <3>3. \A k \in Caller : call'[k].pc = "enqueue" => call'[k] = call[k]
      BY <2>1, <2>3
    <3> QED
      BY <2>1, <3>1, <3>2, <3>3 DEF Calm
  <2>4. CASE old \in Op /\ Change(map)
             /\ call'[o].pc = "lookup" /\ call'[o].agent = Request[old].agent
    <3>1. Request[old].agent \in Agent /\ old # None
      BY <2>4, OpType, NoneAssumption
    <3>2. \A b \in Agent : b # Request[old].agent => ViewOf(map, b) = View(b)
      BY <1>0, <3>1, OpType, DeleteView
    <3> HIDE DEF map, old
    <3>3. PICK b \in Agent : b = Request[old].agent
      BY <3>1
    <3> QED
      BY <1>0, <2>1, <2>4, <3>2, <3>3, OperationCalm
  <2> QED
    BY <2>2, <2>3, <2>4
<1>4. ASSUME NEW k \in Caller, Lookup(k) PROVE Calm(a)'
  <2>1. /\ call[k].pc = "lookup" /\ call'[k].agent = call[k].agent
        /\ IF up[call[k].agent]
           THEN call'[k].pc = "snapshot" /\ call'[k].conn = epoch[call[k].agent]
           ELSE call'[k].pc = "done"
        /\ \A j \in Caller : j # k => call'[j] = call[j]
        /\ UNCHANGED <<schedules, up, epoch, send, handling, running, views, calm>>
    BY <1>0, <1>4, LookupFacts
  <2>2. Calm(a) /\ View(a)' = View(a) /\ UnderWay(a)' = UnderWay(a)
    BY <1>0, <2>1, SameView, SameUnderWay
  <2>3. \A j \in Caller : Syncing(j, a) => Syncing(j, a)'
    BY <2>1 DEF Syncing
  <2>4. \A j \in Caller : call'[j].pc = "enqueue" => call'[j] = call[j]
    BY <2>1
  <2> QED
    BY <2>1, <2>2, <2>3, <2>4 DEF Calm
<1>5. ASSUME NEW k \in Caller, Snapshot(k) PROVE Calm(a)'
  <2>1. /\ call[k].pc = "snapshot" /\ call'[k].agent = call[k].agent
        /\ call'[k].pc = "enqueue" /\ call'[k].list = View(call[k].agent)
        /\ call'[k].conn = call[k].conn
        /\ \A j \in Caller : j # k => call'[j] = call[j]
        /\ UNCHANGED <<schedules, up, epoch, send, handling, running, views, calm>>
    BY <1>0, <1>5, SnapshotFacts
  <2>2. Calm(a) /\ View(a)' = View(a) /\ UnderWay(a)' = UnderWay(a)
    BY <1>0, <2>1, SameView, SameUnderWay
  <2>3. \A j \in Caller : Syncing(j, a) => Syncing(j, a)'
    BY <2>1 DEF Syncing
  <2>4. \A j \in Caller :
          call'[j].agent = a /\ call'[j].pc = "enqueue" /\ call'[j].conn = epoch'[a]
            => call'[j].list = View(a)
    BY <2>1, <2>2 DEF Calm
  <2> QED
    BY <2>1, <2>2, <2>3, <2>4 DEF Calm
<1>6. ASSUME NEW k \in Caller, Enqueue(k) PROVE Calm(a)'
  <2>m. PICK m : m = [by |-> k, conn |-> call[k].conn, list |-> call[k].list]
    OBVIOUS
  <2>0. PICK b \in Agent : b = call[k].agent
    BY <1>0, CallType
  <2>1. /\ call'[k] = Returned(b) /\ call[k].pc = "enqueue"
        /\ UNCHANGED <<schedules, up, epoch, running, calm>>
        /\ \A j \in Caller : j # k => call'[j] = call[j]
        /\ \A c \in Agent : c # b => UnderWay(c)' = UnderWay(c)
        /\ \/ up[b] /\ m.conn = epoch[b] /\ UnderWay(b)' = UnderWay(b) \cup {m}
           \/ /\ UnderWay(b)' = UnderWay(b)
              /\ ~up[b] \/ m.conn # epoch[b] \/ UnderWay(b) # {}
    BY <1>0, <1>6, <2>m, <2>0, EnqueueFacts
  <2>2. a \in Agent /\ up[a] /\ Calm(a) /\ View(a)' = View(a) /\ call'[k].pc = "done"
    BY <1>0, <2>1, SameView, ReturnedFacts
  <2>3. \A j \in Caller :
          call'[j].agent = a /\ call'[j].pc = "enqueue" /\ call'[j].conn = epoch'[a]
            => call'[j].list = View(a)
    BY <2>1, <2>2 DEF Calm
  <2>4. \A j \in Caller : j # k /\ Syncing(j, a) => Syncing(j, a)'
    BY <2>1 DEF Syncing
  <2>5. \A x \in UnderWay(a)' : x.list = View(a)
    <3>1. a = b /\ m.conn = epoch[b] => m.list = View(a)
      BY <2>m, <2>0, <2>1, <2>2 DEF Calm
    <3> QED
      BY <2>1, <2>2, <3>1 DEF Calm
  <2>6. \/ running[a] = View(a) \/ UnderWay(a)' # {}
        \/ \E j \in Caller : Syncing(j, a)'
    <3>1. CASE running[a] = View(a) \/ UnderWay(a) # {}
      BY <2>1, <2>2, <3>1
    <3>2. ASSUME NEW j \in Caller, Syncing(j, a), j # k PROVE Syncing(j, a)'
      BY <2>4, <3>2
    <3>3. CASE Syncing(k, a)
      <4>1. a = b /\ m.conn = epoch[b]
        BY <2>m, <2>0, <2>1, <3>3 DEF Syncing
      <4> QED
        BY <2>1, <2>2, <4>1
    <3> QED
      BY <2>2, <3>1, <3>2, <3>3 DEF Calm
  <2> QED
    BY <2>1, <2>2, <2>3, <2>5, <2>6 DEF Calm
<1>7. ASSUME NEW b \in Agent, Deliver(b) PROVE Calm(a)'
  <2>1. /\ UNCHANGED <<schedules, call, up, epoch, running, views, calm>>
        /\ \A c \in Agent : UnderWay(c)' = UnderWay(c)
    BY <1>0, <1>7, DeliverFacts
  <2>2. a \in Agent /\ Calm(a) /\ View(a)' = View(a)
    BY <1>0, <2>1, SameView
  <2> QED
    BY <2>1, <2>2 DEF Calm, Syncing
<1>8. ASSUME NEW b \in Agent, NEW m \in handling[b], Apply(b, m) PROVE Calm(a)'
  <2>1. /\ UNCHANGED <<schedules, call, up, epoch, send, views, calm>>
        /\ m \in UnderWay(b) /\ running'[b] = m.list
        /\ \A c \in Agent : c # b => running'[c] = running[c]
                                     /\ UnderWay(c)' = UnderWay(c)
        /\ UnderWay(b)' \subseteq UnderWay(b)
    BY <1>0, <1>8, ApplyFacts
  <2>2. a \in Agent /\ Calm(a) /\ View(a)' = View(a)
    BY <1>0, <2>1, SameView
  <2>3. CASE a = b
    BY <2>1, <2>2, <2>3 DEF Calm
  <2>4. CASE a # b
    BY <2>1, <2>2, <2>4 DEF Calm, Syncing
  <2> QED
    BY <2>3, <2>4
<1>9. ASSUME NEW b \in Agent, Dial(b) PROVE Calm(a)'
  <2>0. PICK h : h = <<b, epoch[b] + 1>>
    OBVIOUS
  <2>1. /\ UNCHANGED <<schedules, running>>
        /\ UnderWay(b) = {} /\ \A c \in Agent : UnderWay(c)' = UnderWay(c)
        /\ epoch'[b] = epoch[b] + 1
        /\ \A c \in Agent : c # b => up'[c] = up[c] /\ epoch'[c] = epoch[c]
        /\ h \in Handler /\ h \in Caller
        /\ call'[h].pc = "lookup" /\ call'[h].agent = call[h].agent
        /\ \A k \in Caller : k # h => call'[k] = call[k]
        /\ calm' = calm \cup {b}
    BY <1>0, <1>9, <2>0, DialFacts
  <2>2. call[h].agent = b
    BY <1>0, <2>0, <2>1 DEF CallersAgent
  <2>3. View(a)' = View(a)
    BY <2>1, SameView
  <2>4. CASE a = b
    <3>1. Syncing(h, a)' /\ h \in Caller
      BY <2>1, <2>2, <2>4 DEF Syncing
    <3>2. \A k \in Caller : ~(call'[k].agent = a /\ call'[k].pc = "enqueue"
                              /\ call'[k].conn = epoch'[a])
      <4>1. SUFFICES ASSUME NEW k \in Caller, call'[k].agent = a, call'[k].pc = "enqueue",
                            call'[k].conn = epoch'[a]
                     PROVE  FALSE
        OBVIOUS
      <4>2. call'[k] = call[k]
        BY <2>1, <4>1
      <4>3. call[k].conn <= epoch[a] /\ call[k].conn = epoch[a] + 1
        BY <1>0, <2>1, <2>4, <4>1, <4>2 DEF CallersConn
      <4>4. epoch[a] \in Nat
        BY <1>0, <2>4 DEF TypeOK
      <4> QED
        BY <4>3, <4>4
    <3>3. UnderWay(a)' = {}
      BY <2>1, <2>4
    <3> QED
      BY <3>1, <3>2, <3>3 DEF Calm
  <2>5. CASE a # b
    <3>1. a \in Agent /\ Calm(a)
      BY <1>0, <2>1, <2>5
    <3>2. \A k \in Caller : call'[k].pc = "enqueue" => call'[k] = call[k]
      BY <2>1
    <3>3. \A k \in Caller : Syncing(k, a) => Syncing(k, a)'
      BY <2>1, <2>2, <2>5, <3>1 DEF Syncing
    <3> QED
      BY <2>1, <2>3, <2>5, <3>1, <3>2, <3>3 DEF Calm
  <2> QED
    BY <2>4, <2>5
<1>10. ASSUME NEW b \in Agent, Drop(b) PROVE Calm(a)'
  <2>1. /\ UNCHANGED <<schedules, call, epoch, running, views, calm>>
        /\ ~up'[b]
        /\ \A c \in Agent : c # b => up'[c] = up[c] /\ UnderWay(c)' = UnderWay(c)
    BY <1>0, <1>10, DropFacts
  <2>2. a \in Agent /\ a # b /\ Calm(a) /\ View(a)' = View(a)
    BY <1>0, <2>1, SameView
  <2> QED
    BY <2>1, <2>2 DEF Calm, Syncing
<1>11. CASE HubRestart
  <2>1. a \in Agent
    BY <1>0, <1>11, RestartFacts, CalmChange
  <2> QED
    BY <1>0, <1>11, <2>1, RestartFacts
<1> QED
  BY <1>1, <1>2, <1>3, <1>4, <1>5, <1>6, <1>7, <1>8, <1>9, <1>10, <1>11
  DEF Next, SyncAgentSchedules
-----------------------------------------------------------------------------
(* ScheduleSync: the theorems                                              *)

\* The inductive invariant holds in every state: what is under way from the hub
\* to an agent, in the hands of callers, in the channel or in the agent's
\* goroutines, is right.
THEOREM SyncInvariant == Spec => []SyncInv
<1>1. Init => SyncInv
  BY SyncInit
<1>2. SyncInv /\ [Next]_vars => SyncInv'
  BY TypeStep, ListStep, ConnStep, CalmStep DEF SyncInv
<1> QED
  BY <1>1, <1>2, PTL DEF Spec

\* TypeOK: in particular the send channel never holds more than its capacity.
THEOREM SyncTypeCorrect == Spec => []TypeOK
<1>1. SyncInv => TypeOK
  BY DEF SyncInv
<1> QED
  BY <1>1, SyncInvariant, PTL

\* RunsAHubList: SyncSchedules never makes an agent run a mixture of lists.
THEOREM OnlyHubLists == Spec => []RunsAHubList
<1>1. SyncInv => RunsAHubList
  BY DEF SyncInv, ListInv, RunsAHubList
<1> QED
  BY <1>1, SyncInvariant, PTL

\* NoOldConnection: what a connected agent still has to handle came over its
\* present connection.
THEOREM NothingOld == Spec => []NoOldConnection
<1>1. SyncInv => NoOldConnection
  BY DEF SyncInv, ConnInv, NoOldConnection, UnderWay
<1> QED
  BY <1>1, SyncInvariant, PTL

\* Settled: a connected agent to which nothing is on its way runs what the hub
\* has for it, unless changes overlapped or took a schedule from it since it
\* connected.
THEOREM SettlesRight == Spec => []Settled
<1>1. SyncInv => Settled
  BY CalmParts, QuietCalm DEF SyncInv, TypeOK, Settled
<1> QED
  BY <1>1, SyncInvariant, PTL

-----------------------------------------------------------------------------
(* ServerScheduler                                                         *)

USE DEF listVars

\* The current context is not cancelled; a goroutine that waits does so for the
\* context of its own list or of a later one.
ContextInv ==
  /\ n \notin cancelled
  /\ \A g \in Goroutine : go[g].pc = "wait" => go[g].ctx \in g[1] .. n

\* No schedule is in the list as a task that recurs and as one that does not.
OneKind == \A s \in Entry : ~(<<s, "ticking">> \in tasks /\ <<s, "single">> \in tasks)

SchedulerInv ==
  SchedulerTypeOK /\ ContextInv /\ OneKind /\ CurrentRuns

GoType ==
  [Goroutine -> [pc : {"idle", "begin", "loop", "wait", "run", "runOnce", "ended"},
                 ctx : 0 .. MaxList]]

LEMMA ListNumber ==
  \A g \in Goroutine : g[1] \in 1 .. MaxList /\ g[1] \in Nat /\ g[2] \in Entry
BY MaxListAssumption DEF Goroutine

LEMMA SchedulerTypes ==
  ASSUME SchedulerTypeOK
  PROVE  /\ n \in Nat /\ MaxList \in Nat /\ n <= MaxList /\ go \in GoType
         /\ tasks \in SUBSET (Entry \X Kind) /\ cancelled \in SUBSET (1 .. n)
         /\ \A g \in Goroutine : go[g].pc # "idle" => g[1] <= n
BY MaxListAssumption DEF SchedulerTypeOK, GoType

\* A new list starts goroutines of its own, one for each of its tasks, and
\* touches no other.
LEMMA StartedFacts ==
  ASSUME SchedulerTypeOK, NEW list \in SUBSET (Entry \X Kind), n < MaxList
  PROVE  /\ Started(list) \in GoType
         /\ n + 1 \in 1 .. MaxList
         /\ \A g \in Goroutine :
              /\ g[1] # n + 1 => Started(list)[g] = go[g]
              /\ g[1] = n + 1 =>
                   /\ Started(list)[g].pc \in {"idle", "begin", "runOnce"}
                   /\ <<g[2], "ticking">> \in list /\ <<g[2], "single">> \notin list
                        => Started(list)[g].pc = "begin"
<1>1. n \in Nat /\ MaxList \in Nat /\ n + 1 \in 1 .. MaxList /\ 0 \in 0 .. MaxList
  BY MaxListAssumption DEF SchedulerTypeOK
<1>2. \A g \in Goroutine : g[1] = n + 1 => go[g].pc = "idle"
  BY <1>1 DEF SchedulerTypeOK
<1>3. \A g \in Goroutine : go[g] \in [pc : {"idle", "begin", "loop", "wait", "run",
                                           "runOnce", "ended"}, ctx : 0 .. MaxList]
  BY DEF SchedulerTypeOK
<1>4. Started(list) \in GoType
  BY <1>1, <1>3 DEF Started, GoType
<1> QED
  BY <1>1, <1>2, <1>4 DEF Started

\* What the hub makes of its schedules is a list with at most one task for each.
LEMMA TaskFacts ==
  ASSUME SchedulerTypeOK, NEW known \in SUBSET Entry
  PROVE  LET list == UNION {TaskOf(s) : s \in known}
         IN /\ list \in SUBSET (Entry \X Kind)
            /\ \A s \in Entry : ~(<<s, "ticking">> \in list /\ <<s, "single">> \in list)
<1> DEFINE list == UNION {TaskOf(s) : s \in known}
<1>1. \A s \in Entry : TaskOf(s) \in {{<<s, "ticking">>}, {<<s, "single">>}, {}}
  <2> SUFFICES ASSUME NEW s \in Entry
               PROVE  TaskOf(s) \in {{<<s, "ticking">>}, {<<s, "single">>}, {}}
    OBVIOUS
  <2>1. Type[s] \in {"interval", "at", "once"} /\ phase[s] \in {"future", "now", "past"}
    BY TypeAssumption DEF SchedulerTypeOK
  <2> QED
    BY <2>1 DEF TaskOf
<1>2. \A s \in known : TaskOf(s) \subseteq Entry \X Kind
  BY <1>1 DEF Kind
<1>3. \A s \in Entry, t \in Entry, k \in Kind : <<t, k>> \in TaskOf(s) => s = t
  BY <1>1
<1>4. \A s \in Entry, k \in Kind : <<s, k>> \in list => <<s, k>> \in TaskOf(s)
  BY <1>3
<1>5. \A s \in Entry : ~(<<s, "ticking">> \in TaskOf(s) /\ <<s, "single">> \in TaskOf(s))
  BY <1>1
<1>6. list \in SUBSET (Entry \X Kind)
  BY <1>2
<1> QED
  BY <1>4, <1>5, <1>6 DEF Kind

LEMMA SchedulerStart == SchedulerInit => SchedulerInv
<1> SUFFICES ASSUME SchedulerInit PROVE SchedulerInv
  OBVIOUS
<1>1. SchedulerTypeOK
  <2>1. 0 \in 0 .. MaxList /\ 1 .. 0 = {}
    BY MaxListAssumption
  <2>2. go \in GoType /\ \A g \in Goroutine : go[g].pc = "idle"
    BY <2>1 DEF SchedulerInit, GoType
  <2> QED
    BY <2>1, <2>2 DEF SchedulerInit, SchedulerTypeOK, GoType
<1>2. ContextInv /\ OneKind /\ CurrentRuns
  BY DEF SchedulerInit, ContextInv, OneKind, CurrentRuns
<1> QED
  BY <1>1, <1>2 DEF SchedulerInv

\* A list from the hub.
LEMMA ListStarts ==
  ASSUME SchedulerInv, NEW known \in SUBSET Entry, SyncSchedules(known)
  PROVE  SchedulerInv'
<1> DEFINE list == UNION {TaskOf(s) : s \in known}
<1>1. /\ list \in SUBSET (Entry \X Kind)
      /\ \A s \in Entry : ~(<<s, "ticking">> \in list /\ <<s, "single">> \in list)
  BY TaskFacts DEF SchedulerInv
<1>2. /\ tasks' = list /\ go' = Started(list) /\ n' = n + 1 /\ n < MaxList /\ n \in 1 .. MaxList
      /\ cancelled' = cancelled \cup {n} /\ missed' \in SUBSET Goroutine
      /\ UNCHANGED <<phase, stopped>>
  BY MaxListAssumption DEF SyncSchedules, CancelOld
<1> HIDE DEF list
<1>3. /\ SchedulerTypeOK /\ n \in Nat /\ MaxList \in Nat
      /\ cancelled \in SUBSET (1 .. n)
      /\ \A g \in Goroutine : go[g].pc # "idle" => g[1] <= n
  BY SchedulerTypes DEF SchedulerInv
<1>4. /\ go' \in GoType
      /\ n' \in 1 .. MaxList
      /\ \A g \in Goroutine :
           /\ g[1] # n' => go'[g] = go[g]
           /\ g[1] = n' =>
                /\ go'[g].pc \in {"idle", "begin", "runOnce"}
                /\ <<g[2], "ticking">> \in list /\ <<g[2], "single">> \notin list
                     => go'[g].pc = "begin"
  BY <1>1, <1>2, <1>3, StartedFacts
<1>5. SchedulerTypeOK'
  <2>1. cancelled' \in SUBSET (1 .. n')
    BY <1>2, <1>3 DEF SchedulerTypeOK
  <2>2. \A g \in Goroutine : go'[g].pc # "idle" => g[1] <= n'
    <3> SUFFICES ASSUME NEW g \in Goroutine, go'[g].pc # "idle", g[1] # n'
                 PROVE  g[1] <= n'
      BY <1>3, <1>4
    <3>1. g[1] <= n /\ g[1] \in Nat
      BY <1>3, <1>4, ListNumber
    <3> QED
      BY <1>2, <1>3, <3>1
  <2>3. phase' \in [Entry -> {"future", "now", "past"}] /\ stopped' \in BOOLEAN
        /\ missed' \in SUBSET Goroutine
    BY <1>2, <1>3 DEF SchedulerTypeOK
  <2> QED
    BY <1>1, <1>2, <1>3, <1>4, <2>1, <2>2, <2>3 DEF SchedulerTypeOK, GoType
<1>6. ContextInv'
  <2>1. n' \notin cancelled'
    BY <1>2, <1>3
  <2>2. \A g \in Goroutine : go'[g].pc = "wait" => go'[g].ctx \in g[1] .. n'
    <3> SUFFICES ASSUME NEW g \in Goroutine, go'[g].pc = "wait"
                 PROVE  go'[g].ctx \in g[1] .. n'
      OBVIOUS
    <3>1. go'[g] = go[g]
      BY <1>4
    <3>2. go[g].ctx \in g[1] .. n /\ g[1] \in Nat
      BY <3>1, ListNumber DEF SchedulerInv, ContextInv
    <3> QED
      BY <1>2, <1>3, <3>1, <3>2
  <2> QED
    BY <2>1, <2>2 DEF ContextInv
<1>7. OneKind'
  BY <1>1, <1>2 DEF OneKind
<1>8. CurrentRuns'
  <2>1. ASSUME NEW s \in Entry, <<s, "ticking">> \in list
        PROVE  go'[<<n', s>>].pc = "begin"
    <3>1. <<n', s>> \in Goroutine /\ <<n', s>>[1] = n' /\ <<n', s>>[2] = s
      BY <1>4 DEF Goroutine
    <3> QED
      BY <1>1, <1>4, <2>1, <3>1
  <2> QED
    BY <1>2, <2>1 DEF CurrentRuns, Alive
<1> QED
  BY <1>5, <1>6, <1>7, <1>8 DEF SchedulerInv

\* The start of the agent.
LEMMA AgentStarts ==
  ASSUME SchedulerInv, Start
  PROVE  SchedulerInv'
<1>1. SchedulerTypeOK /\ n \in Nat /\ MaxList \in Nat /\ n < MaxList
      /\ tasks \in SUBSET (Entry \X Kind)
  BY SchedulerTypes DEF SchedulerInv, Start
<1>2. /\ n' = n + 1 /\ stopped' = FALSE /\ cancelled' = 1 .. n
      /\ UNCHANGED <<phase, tasks>> /\ missed' = {}
      /\ go' = [g \in Goroutine |->
                  IF g[1] <= n THEN [pc |-> "ended", ctx |-> 0] ELSE Started(tasks)[g]]
  BY DEF Start
<1>3. /\ \A g \in Goroutine : g[1] <= n => go'[g].pc = "ended"
      /\ \A g \in Goroutine : g[1] > n' => go'[g].pc = "idle"
      /\ \A g \in Goroutine : g[1] = n' =>
           /\ go'[g].pc \in {"idle", "begin", "runOnce"}
           /\ <<g[2], "ticking">> \in tasks /\ <<g[2], "single">> \notin tasks
                => go'[g].pc = "begin"
      /\ n' \in 1 .. MaxList
      /\ go' \in GoType
  <2>1. /\ Started(tasks) \in GoType
        /\ n + 1 \in 1 .. MaxList
        /\ \A g \in Goroutine :
             /\ g[1] # n + 1 => Started(tasks)[g] = go[g]
             /\ g[1] = n + 1 =>
                  /\ Started(tasks)[g].pc \in {"idle", "begin", "runOnce"}
                  /\ <<g[2], "ticking">> \in tasks /\ <<g[2], "single">> \notin tasks
                       => Started(tasks)[g].pc = "begin"
    BY <1>1, StartedFacts
  <2>2. \A g \in Goroutine : g[1] \in Nat
    BY ListNumber
  <2>3. \A g \in Goroutine : g[1] > n + 1 => go[g].pc = "idle"
    BY <1>1, <2>2, SchedulerTypes
  <2>4. go' \in GoType
    <3>1. 0 \in 0 .. MaxList
      BY <1>1
    <3> QED
      BY <1>2, <2>1, <3>1 DEF GoType
  <2>5. \A g \in Goroutine : g[1] <= n => go'[g].pc = "ended"
    BY <1>2
  <2>6. \A g \in Goroutine : ~(g[1] <= n) => go'[g] = Started(tasks)[g]
    BY <1>2
  <2>7. \A g \in Goroutine : g[1] > n' => ~(g[1] <= n) /\ g[1] # n + 1 /\ g[1] > n + 1
    BY <1>1, <1>2, <2>2
  <2>8. \A g \in Goroutine : g[1] = n' => ~(g[1] <= n)
    BY <1>1, <1>2
  <2> QED
    BY <1>2, <2>1, <2>3, <2>4, <2>5, <2>6, <2>7, <2>8
<1>4. \A g \in Goroutine : g[1] <= n \/ g[1] = n' \/ g[1] > n'
  BY <1>1, <1>2, ListNumber
<1>5. SchedulerTypeOK'
  <2>1. cancelled' \in SUBSET (1 .. n') /\ stopped' \in BOOLEAN
    <3>1. 1 .. n \subseteq 1 .. n'
      BY <1>1, <1>2
    <3> QED
      BY <1>2, <3>1
  <2>2. \A g \in Goroutine : go'[g].pc # "idle" => g[1] <= n'
    BY <1>1, <1>2, <1>3, <1>4, ListNumber
  <2>3. phase' \in [Entry -> {"future", "now", "past"}] /\ missed' \in SUBSET Goroutine
    BY <1>1, <1>2 DEF SchedulerTypeOK
  <2> QED
    BY <1>1, <1>2, <1>3, <2>1, <2>2, <2>3 DEF SchedulerTypeOK, GoType
<1>6. ContextInv'
  <2>1. \A g \in Goroutine : go'[g].pc # "wait"
    BY <1>3, <1>4
  <2> QED
    BY <1>1, <1>2, <2>1 DEF ContextInv
<1>7. OneKind'
  BY <1>2 DEF OneKind, SchedulerInv
<1>8. CurrentRuns'
  <2>1. ASSUME NEW s \in Entry, <<s, "ticking">> \in tasks
        PROVE  go'[<<n', s>>].pc = "begin"
    <3>1. <<n', s>> \in Goroutine /\ <<n', s>>[1] = n' /\ <<n', s>>[2] = s
      BY <1>3 DEF Goroutine
    <3> QED
      BY <1>3, <2>1, <3>1 DEF OneKind, SchedulerInv
  <2> QED
    BY <1>2, <2>1 DEF CurrentRuns, Alive
<1> QED
  BY <1>5, <1>6, <1>7, <1>8 DEF SchedulerInv

\* A step of a goroutine: the others stay as they are, and it does not end while
\* its context lasts.
LEMMA GoroutineStep ==
  ASSUME SchedulerInv, NEW g \in Goroutine, Step(g)
  PROVE  SchedulerInv'
<1>1. SchedulerTypeOK /\ n \in Nat /\ MaxList \in Nat /\ UNCHANGED listVars
      /\ go[g] \in [pc : {"idle", "begin", "loop", "wait", "run", "runOnce", "ended"},
                    ctx : 0 .. MaxList]
  BY MaxListAssumption
  DEF SchedulerInv, SchedulerTypeOK, Step, Select, Fire, Finish, RunScheduledTask
<1>2. /\ \A h \in Goroutine : h # g => go'[h] = go[h]
      /\ DOMAIN go' = Goroutine
      /\ go'[g] \in [pc : {"begin", "loop", "wait", "run", "runOnce", "ended"},
                     ctx : 0 .. MaxList]
      /\ go[g].pc # "idle"
      /\ \/ /\ go[g].pc \in {"begin", "loop"} /\ go'[g].pc = "wait" /\ go'[g].ctx = n
         \/ go[g].pc = "wait" /\ go'[g].pc = "run"
         \/ go[g].pc = "wait" /\ Cancelled(go[g].ctx) /\ go'[g].pc = "ended"
         \/ go[g].pc = "run" /\ go'[g].pc = "loop"
         \/ go[g].pc = "runOnce" /\ go'[g].pc = "ended"
  <2>1. CASE Select(g)
    BY <1>1, <2>1 DEF SchedulerTypeOK, Select
  <2>2. CASE Fire(g)
    BY <1>1, <2>2 DEF SchedulerTypeOK, Fire, Goto
  <2>3. CASE Finish(g)
    BY <1>1, <2>3 DEF SchedulerTypeOK, Finish, Goto
  <2>4. CASE RunScheduledTask(g)
    BY <1>1, <2>4 DEF SchedulerTypeOK, RunScheduledTask, Goto
  <2> QED
    BY <2>1, <2>2, <2>3, <2>4 DEF Step
<1>3. g[1] <= n
  BY <1>1, <1>2 DEF SchedulerTypeOK
<1>4. SchedulerTypeOK'
  <2>1. go' \in GoType
    <3>1. \A h \in Goroutine : go'[h] \in [pc : {"idle", "begin", "loop", "wait", "run",
                                                "runOnce", "ended"}, ctx : 0 .. MaxList]
      BY <1>1, <1>2 DEF SchedulerTypeOK
    <3>2. go' = [h \in Goroutine |-> go'[h]]
      BY DEF Step, Select, Fire, Finish, RunScheduledTask, Goto, SchedulerTypeOK, SchedulerInv
    <3> QED
      BY <3>1, <3>2 DEF GoType
  <2>2. \A h \in Goroutine : go'[h].pc # "idle" => h[1] <= n
    BY <1>1, <1>2, <1>3 DEF SchedulerTypeOK
  <2>3. missed' \in SUBSET Goroutine
    BY <1>1 DEF SchedulerTypeOK, Step, Select, Fire, Finish, RunScheduledTask
  <2> QED
    BY <1>1, <2>1, <2>2, <2>3 DEF SchedulerTypeOK, GoType
<1>5. ContextInv'
  BY <1>1, <1>2, <1>3 DEF SchedulerInv, ContextInv, Goroutine
<1>6. OneKind'
  BY <1>1 DEF OneKind, SchedulerInv
<1>7. CurrentRuns'
  <2> SUFFICES ASSUME ~stopped, NEW s \in Entry, <<s, "ticking">> \in tasks, n > 0
               PROVE  Alive(<<n, s>>)'
    BY <1>1 DEF CurrentRuns
  <2>1. Alive(<<n, s>>)
    BY DEF SchedulerInv, CurrentRuns
  <2>2. <<n, s>> \in Goroutine /\ <<n, s>>[1] = n
    BY <1>1 DEF SchedulerTypeOK, Goroutine
  <2>3. CASE <<n, s>> # g
    BY <1>1, <1>2, <2>1, <2>2, <2>3 DEF Alive
  <2>4. CASE <<n, s>> = g
    <3>1. go[g].pc = "wait" => ~Cancelled(go[g].ctx)
      BY <1>1, <2>2, <2>4 DEF SchedulerInv, ContextInv, Cancelled
    <3> QED
      BY <1>1, <1>2, <2>1, <2>4, <3>1 DEF Alive
  <2> QED
    BY <2>3, <2>4
<1> QED
  BY <1>4, <1>5, <1>6, <1>7 DEF SchedulerInv

\* The invariant of the scheduler: the current context is alive, so that the
\* goroutines of the current list go on.
THEOREM SchedulerInvariant == SchedulerSpec => []SchedulerInv
<1>1. SchedulerInv /\ [SchedulerNext]_schedulerVars => SchedulerInv'
  <2> SUFFICES ASSUME SchedulerInv, [SchedulerNext]_schedulerVars
               PROVE  SchedulerInv'
    OBVIOUS
  <2>1. CASE UNCHANGED <<n, tasks, cancelled, go, missed>> /\ UNCHANGED stopped
             /\ phase' \in [Entry -> {"future", "now", "past"}]
    BY <2>1 DEF SchedulerInv, SchedulerTypeOK, ContextInv, OneKind, CurrentRuns,
                Alive, Cancelled
  <2>2. CASE Stop
    BY <2>2 DEF Stop, SchedulerInv, SchedulerTypeOK, ContextInv, OneKind, CurrentRuns,
                Alive, Cancelled
  <2>3. ASSUME NEW s \in Entry, TimePasses(s)
        PROVE  phase' \in [Entry -> {"future", "now", "past"}]
    BY <2>3 DEF TimePasses, SchedulerInv, SchedulerTypeOK
  <2>4. ASSUME UNCHANGED schedulerVars PROVE phase' \in [Entry -> {"future", "now", "past"}]
    BY <2>4 DEF schedulerVars, SchedulerInv, SchedulerTypeOK
  <2> QED
    BY <2>1, <2>2, <2>3, <2>4, ListStarts, AgentStarts, GoroutineStep
    DEF SchedulerNext, schedulerVars, TimePasses
<1> QED
  BY <1>1, SchedulerStart, PTL DEF SchedulerSpec

\* CurrentRuns: while the agent runs, every task of the current list that recurs
\* has its goroutine.
THEOREM CurrentGoesOn == SchedulerSpec => []CurrentRuns
<1>1. SchedulerInv => CurrentRuns
  BY DEF SchedulerInv
<1> QED
  BY <1>1, SchedulerInvariant, PTL

=============================================================================
