------------------------ MODULE AgentConnectionProofs ------------------------
(***************************************************************************)
(* Proofs about AgentConnection, for any set of calls, any capacity of the *)
(* send channel and any number of other messages, and about the timers of  *)
(* the same connection (Keepalive), for any periods and delays.            *)
(***************************************************************************)
EXTENDS AgentConnection, Keepalive, SequenceTheorems, TLAPS

USE DEF hubVars, callVars, chanVars, mapVars, pumpVars, agentVars

\* What a bounded Offer leaves in the channel.
LEMMA OfferType ==
  ASSUME TypeOK, NEW m \in Message, Offer(m)
  PROVE  send' \in Seq(Message) /\ Len(send') <= SendCap
BY SendCapAssumption DEF TypeOK, Offer

\* What a Put leaves in the channel.
LEMMA PutType ==
  ASSUME TypeOK, NEW m \in Message, Put(m)
  PROVE  send' \in Seq(Message) /\ Len(send') <= SendCap
BY SendCapAssumption DEF TypeOK, Put

\* What taking a message leaves in either queue.
LEMMA TailType ==
  ASSUME NEW s \in Seq(Message), s # <<>>
  PROVE  /\ Tail(s) \in Seq(Message)
         /\ Len(s) \in Nat /\ Len(Tail(s)) = Len(s) - 1
         /\ Head(s) \in Message
OBVIOUS

\* The messages that are not about a call are messages.
LEMMA MsgType ==
  ASSUME NEW k \in {"request", "other", "response", "ignored"}
  PROVE  Msg(k) \in Message
BY DEF Msg, Message, Owner

\* A step of DispatchJob keeps the types.
LEMMA DispatchType ==
  ASSUME TypeOK, NEW c \in Call, DispatchJob(c) PROVE TypeOK'
<1>1. CASE Lookup(c)
  BY <1>1 DEF TypeOK, Lookup, Goto, Return
<1>2. CASE NextRequestID(c)
  BY <1>2 DEF TypeOK, NextRequestID, NewID, Goto
<1>3. CASE RegisterPending(c)
  <2>1. CASE pendingNil
    BY <1>3, <2>1 DEF TypeOK, RegisterPending, Goto, Return
  <2>2. CASE ~pendingNil
    <3>1. pending' \in SUBSET Call /\ UNCHANGED result
      BY <1>3, <2>2 DEF TypeOK, RegisterPending, Under
    <3>2. pc' = [pc EXCEPT ![c] = "enqueue"]
      BY <1>3, <2>2 DEF RegisterPending, Goto
    <3> QED
      BY <1>3, <3>1, <3>2 DEF TypeOK, RegisterPending
  <2> QED
    BY <2>1, <2>2
<1>4. CASE Enqueue(c)
  <2> DEFINE m == [kind |-> "request", id |-> id[c], call |-> c]
  <2>1. m \in Message
    BY DEF TypeOK, Message, Owner
  <2>2. Put(m) \/ UNCHANGED send
    BY <1>4 DEF Enqueue
  <2>3. send' \in Seq(Message) /\ Len(send') <= SendCap
    BY <2>1, <2>2, PutType DEF TypeOK
  <2>4. /\ \E l \in {"await", "cleanup"} : pc' = [pc EXCEPT ![c] = l]
        /\ \/ UNCHANGED result
           \/ \E r \in {"ctx", "notSent"} :
                result' = [result EXCEPT ![c] = r]
    BY <1>4 DEF Enqueue, Goto, Return
  <2>5. result' \in [Call -> {"none", "ok", "ctx", "notConnected", "closed",
                               "notSent", "lost"}]
    BY <2>4 DEF TypeOK
  <2>6. pc' \in [Call -> {"lookup", "nextID", "register", "enqueue", "await",
                           "cleanup", "returned"}]
    BY <2>4 DEF TypeOK
  <2>7. UNCHANGED <<hubVars, chanVars, mapVars, pumpVars, agentVars, id,
                    expired, got, fromAgent>>
    BY <1>4 DEF Enqueue
  <2> QED
    BY <2>3, <2>5, <2>6, <2>7 DEF TypeOK
<1>5. CASE Await(c)
  <2>1. buf' \in [Call -> Owner] /\ got' \in [Call -> Owner]
    BY <1>5 DEF TypeOK, Await, Owner
  <2>2. /\ pc' = [pc EXCEPT ![c] = "cleanup"]
        /\ \E r \in {"ok", "lost", "ctx"} :
             result' = [result EXCEPT ![c] = r]
    BY <1>5 DEF Await, Return, Goto
  <2> QED
    BY <1>5, <2>1, <2>2 DEF TypeOK, Await
<1>6. CASE Cleanup(c)
  BY <1>6 DEF TypeOK, Cleanup, Forget, Under, Goto
<1> QED
  BY <1>1, <1>2, <1>3, <1>4, <1>5, <1>6 DEF DispatchJob

\* A pump that goes on to a step outside handleIncomingMessage.
LEMMA StepType ==
  ASSUME TypeOK, NEW p \in Closer,
         NEW l \in {"loop", "close", "closeConn", "unregister", "failPending",
                    "ended"},
         Step(p, l)
  PROVE  /\ pump' \in [Closer -> {"idle", "loop", "deliver", "closeCh",
                                  "close", "closeConn", "unregister",
                                  "failPending", "ended"}]
         /\ pump'["reader"] \in {"deliver", "closeCh"} =>
              pump["reader"] = pump'["reader"]
BY DEF TypeOK, Closer, Step

\* A step of Close keeps the types.
LEMMA CloseType ==
  ASSUME TypeOK, NEW p \in Closer, Close(p) PROVE TypeOK'
<1>1. CASE CloseBegin(p)
  <2>1. Step(p, "closeConn") \/ Step(p, "ended")
    BY <1>1 DEF CloseBegin, CloseEnds
  <2> QED
    BY <1>1, <2>1, StepType DEF TypeOK, CloseBegin, CloseEnds
<1>2. CASE CloseConn(p)
  <2>1. fromAgent' \in Seq(Message)
    BY <1>2 DEF CloseConn
  <2> QED
    BY <1>2, <2>1, StepType DEF TypeOK, CloseConn
<1>3. CASE Unregister(p)
  BY <1>3, StepType DEF TypeOK, Unregister
<1>4. CASE FailPending(p)
  BY <1>4, StepType DEF TypeOK, FailPending, DropMap, CloseEnds
<1> QED
  BY <1>1, <1>2, <1>3, <1>4 DEF Close

\* The end of a pump keeps the types.
LEMMA PumpEndsType ==
  ASSUME TypeOK, NEW p \in Closer, PumpEnds(p) PROVE TypeOK'
<1>1. UNCHANGED send \/ (send # <<>> /\ send' = Tail(send))
  BY DEF PumpEnds
<1>2. send' \in Seq(Message) /\ Len(send') <= SendCap
  <2>1. SendCap \in Nat
    BY SendCapAssumption
  <2>2. CASE send # <<>> /\ send' = Tail(send)
    BY <2>1, <2>2, TailType DEF TypeOK
  <2> QED
    BY <1>1, <2>2 DEF TypeOK
<1> QED
  BY <1>2, StepType DEF TypeOK, PumpEnds

\* A step of readPump keeps the types.
LEMMA ReadPumpType ==
  ASSUME TypeOK, ReadPump PROVE TypeOK'
<1>0. /\ "reader" \in Closer
      /\ Receive => fromAgent' \in Seq(Message) /\ Head(fromAgent) \in Message
  BY TailType DEF Closer, TypeOK, Receive
<1>1. CASE ReadResponse
  <2>1. fromAgent' \in Seq(Message) /\ Head(fromAgent).call \in Owner
    BY <1>0, <1>1 DEF ReadResponse, Message
  <2>2. pending' \in SUBSET Call /\ held' \in [ch : Owner, val : Owner]
    BY <1>1, <2>1 DEF TypeOK, ReadResponse, Claim, Under, Owner
  <2> QED
    BY <1>0, <1>1, <2>1, <2>2 DEF TypeOK, Closer, ReadResponse, Under, Step
<1>2. CASE Deliver
  <2>1. panicked' \in BOOLEAN /\ buf' \in [Call -> Owner]
    BY <1>0, <1>2 DEF TypeOK, Deliver, Owner
  <2>2. pump' = [pump EXCEPT !["reader"] = "closeCh"]
    BY <1>2 DEF Deliver, Step
  <2> QED
    BY <1>0, <1>2, <2>1, <2>2 DEF TypeOK, Deliver
<1>3. CASE CloseChannel
  BY <1>0, <1>3 DEF TypeOK, CloseChannel, Step, Owner, Nothing
<1>4. CASE ReadOther
  <2>1. send' \in Seq(Message) /\ Len(send') <= SendCap
    BY <1>4, OfferType, MsgType DEF TypeOK, ReadOther
  <2> QED
    BY <1>0, <1>4, <2>1 DEF TypeOK, ReadOther
<1> QED
  BY <1>0, <1>1, <1>2, <1>3, <1>4, PumpEndsType, CloseType DEF ReadPump

\* A step of writePump keeps the types.
LEMMA WritePumpType ==
  ASSUME TypeOK, WritePump PROVE TypeOK'
<1>1. CASE Write
  <2>1. /\ Head(send) \in Message
        /\ send' \in Seq(Message) /\ Len(send') <= SendCap
    BY <1>1, SendCapAssumption DEF TypeOK, Write
  <2> QED
    BY <1>1, <2>1 DEF TypeOK, Write
<1> QED
  BY <1>1, PumpEndsType, CloseType DEF WritePump, Closer

\* The environment keeps the types.
LEMMA EnvironmentType ==
  ASSUME TypeOK,
         \/ \E c \in Call : Expire(c)
         \/ Replace \/ ReplaceOther
         \/ PushMessage \/ LinkDown \/ AgentSend
         \/ \E m \in agentGot : AgentReply(m)
  PROVE  TypeOK'
<1>1. CASE \E c \in Call : Expire(c)
  BY <1>1 DEF TypeOK, Expire
<1>2. CASE PushMessage
  <2>1. send' \in Seq(Message) /\ Len(send') <= SendCap
    BY <1>2, OfferType, MsgType DEF PushMessage
  <2> QED
    BY <1>2, <2>1 DEF TypeOK, PushMessage
<1>3. CASE LinkDown
  BY <1>3 DEF TypeOK, LinkDown
<1>4. CASE AgentSend
  BY <1>4, MsgType DEF TypeOK, AgentSend
<1>5. CASE \E m \in agentGot : AgentReply(m)
  <2>1. PICK m \in agentGot : AgentReply(m)
    BY <1>5
  <2>2. m \in Message /\ [kind |-> "response", id |-> m.id, call |-> m.call]
                            \in Message
    BY DEF TypeOK, Message
  <2>3. fromAgent' \in Seq(Message)
    BY <2>1, <2>2 DEF TypeOK, AgentReply
  <2>4. replied' \in SUBSET Owner
    BY <2>1, <2>2 DEF TypeOK, AgentReply, Message, Owner
  <2> QED
    BY <2>1, <2>3, <2>4 DEF TypeOK, AgentReply
<1>6. CASE Replace
  BY <1>6, StepType DEF Replace, TypeOK, Closer
<1>7. CASE ReplaceOther
  BY <1>7 DEF TypeOK, ReplaceOther
<1> QED
  BY <1>1, <1>2, <1>3, <1>4, <1>5, <1>6, <1>7

\* Every variable keeps to its type, and the send channel to its capacity.
THEOREM TypeCorrect == Spec => []TypeOK
<1>1. Init => TypeOK
  <2> SUFFICES ASSUME Init PROVE TypeOK
    OBVIOUS
  <2>1. <<>> \in Seq(Message) /\ Len(<<>>) <= SendCap
    BY SendCapAssumption
  <2>2. held \in [ch : Owner, val : Owner]
    BY DEF Init, Owner, Nothing
  <2> QED
    BY <2>1, <2>2 DEF Init, TypeOK, Owner, Closer
<1>2. TypeOK /\ [Next]_vars => TypeOK'
  <2>1. ASSUME TypeOK, UNCHANGED vars PROVE TypeOK'
    BY <2>1 DEF TypeOK, vars
  <2> QED
    BY <2>1, DispatchType, ReadPumpType, WritePumpType, CloseType,
       EnvironmentType DEF Next, Closer
<1> QED
  BY <1>1, <1>2, PTL DEF Spec

-----------------------------------------------------------------------------
(* The steps that leave the calls, their channels and the map alone, but   *)
(* may move a pump outside handleIncomingMessage.                          *)

Elsewhere ==
  /\ UNCHANGED <<pc, id, result, got, buf, chClosed, requestID, pending,
                 pendingNil, panicked, held>>
  /\ pump'["reader"] \in {"deliver", "closeCh"} =>
       pump["reader"] = pump'["reader"]

\* What Elsewhere covers.
LEMMA ElsewhereSteps ==
  ASSUME TypeOK,
         \/ \E c \in Call : Expire(c)
         \/ ReadOther \/ Write
         \/ \E p \in Closer : \/ PumpEnds(p) \/ CloseBegin(p)
                            \/ CloseConn(p) \/ Unregister(p)
         \/ Replace \/ ReplaceOther
         \/ PushMessage \/ LinkDown \/ AgentSend
         \/ \E m \in agentGot : AgentReply(m)
         \/ UNCHANGED vars
  PROVE  Elsewhere
<1>1. CASE \E c \in Call : Expire(c)
  BY <1>1 DEF Expire, Elsewhere
<1>2. CASE ReadOther \/ Write
  BY <1>2 DEF ReadOther, Write, Elsewhere
<1>3. CASE \E p \in Closer : \/ PumpEnds(p) \/ CloseBegin(p)
                          \/ CloseConn(p) \/ Unregister(p)
  <2>1. PICK p \in Closer : \/ PumpEnds(p) \/ CloseBegin(p)
                          \/ CloseConn(p) \/ Unregister(p)
    BY <1>3
  <2>2. \/ Step(p, "close") \/ Step(p, "closeConn") \/ Step(p, "unregister")
        \/ Step(p, "failPending") \/ Step(p, "ended")
    BY <2>1 DEF PumpEnds, CloseBegin, CloseEnds, CloseConn, Unregister
  <2> QED
    BY <2>1, <2>2, StepType DEF PumpEnds, CloseBegin, CloseConn, Unregister,
                                Elsewhere
<1>4. CASE PushMessage \/ LinkDown \/ AgentSend
  BY <1>4 DEF PushMessage, LinkDown, AgentSend, Elsewhere
<1>5. CASE \E m \in agentGot : AgentReply(m)
  BY <1>5 DEF AgentReply, Elsewhere
<1>6. CASE UNCHANGED vars
  BY <1>6 DEF vars, Elsewhere
<1>7. CASE Replace
  BY <1>7, StepType DEF Replace, Elsewhere, Closer
<1>8. CASE ReplaceOther
  BY <1>8 DEF ReplaceOther, Elsewhere
<1> QED
  BY <1>1, <1>2, <1>3, <1>4, <1>5, <1>6, <1>7, <1>8

\* Every step is one of these.
LEMMA Cases ==
  ASSUME TypeOK, [Next]_vars
  PROVE  \/ Elsewhere
         \/ \E c \in Call : \/ Lookup(c) \/ NextRequestID(c)
                            \/ RegisterPending(c) \/ Enqueue(c)
                            \/ Await(c) \/ Cleanup(c)
         \/ ReadResponse \/ Deliver \/ CloseChannel
         \/ \E p \in Closer : FailPending(p)
BY ElsewhereSteps DEF Next, DispatchJob, ReadPump, WritePump, Close, Closer

-----------------------------------------------------------------------------
(* Request IDs.                                                            *)

\* Only NextRequestID changes an ID, and only in step with the counter.
LEMMA IDStep ==
  ASSUME TypeOK, IDInv, [Next]_vars PROVE IDInv'
<1>1. CASE Elsewhere \/ ReadResponse \/ Deliver \/ CloseChannel
           \/ \E p \in Closer : FailPending(p)
  BY <1>1 DEF IDInv, Elsewhere, ReadResponse, Deliver, CloseChannel,
              FailPending
<1>2. ASSUME NEW c \in Call, NextRequestID(c) PROVE IDInv'
  BY <1>2 DEF TypeOK, IDInv, NextRequestID, NewID, Goto, Inside
<1>3. ASSUME NEW c \in Call, Lookup(c) PROVE IDInv'
  BY <1>3 DEF TypeOK, IDInv, Lookup, Goto, Return, Inside
<1>4. ASSUME NEW c \in Call, RegisterPending(c) PROVE IDInv'
  BY <1>4 DEF TypeOK, IDInv, RegisterPending, Goto, Return, Inside
<1>5. ASSUME NEW c \in Call, Enqueue(c) PROVE IDInv'
  BY <1>5 DEF TypeOK, IDInv, Enqueue, Goto, Return, Inside
<1>6. ASSUME NEW c \in Call, Await(c) \/ Cleanup(c) PROVE IDInv'
  BY <1>6 DEF TypeOK, IDInv, Await, Cleanup, Goto, Return, Inside
<1> QED
  BY Cases, <1>1, <1>2, <1>3, <1>4, <1>5, <1>6

-----------------------------------------------------------------------------
(* Channels.                                                               *)

\* A channel leaves the map before anything is done with it.
LEMMA ChannelStep ==
  ASSUME TypeOK, IDInv, ChannelInv, [Next]_vars PROVE ChannelInv'
<1>1. CASE Elsewhere
  BY <1>1 DEF ChannelInv, Elsewhere, Fresh
<1>2. ASSUME NEW c \in Call, Lookup(c) PROVE ChannelInv'
  <2>1. \E l \in {"nextID", "returned"} : pc' = [pc EXCEPT ![c] = l]
    BY <1>2 DEF Lookup, Goto, Return
  <2>2. /\ pc[c] = "lookup"
        /\ UNCHANGED <<chanVars, pumpVars, pending, pendingNil>>
    BY <1>2 DEF Lookup, mapVars
  <2> QED
    BY <2>1, <2>2
    DEF TypeOK, ChannelInv, Fresh, Before, Inside, chanVars, pumpVars
<1>3. ASSUME NEW c \in Call, NextRequestID(c) PROVE ChannelInv'
  BY <1>3 DEF TypeOK, ChannelInv, NextRequestID, NewID, Goto, Fresh, Before,
              Inside
<1>4. ASSUME NEW c \in Call, RegisterPending(c) PROVE ChannelInv'
  BY <1>4 DEF TypeOK, ChannelInv, RegisterPending, Under, Goto, Return, Fresh,
              Before, Inside
<1>5. ASSUME NEW c \in Call, Enqueue(c) PROVE ChannelInv'
  <2>1. /\ pc[c] = "enqueue"
        /\ \E l \in {"await", "cleanup"} : pc' = [pc EXCEPT ![c] = l]
    BY <1>5 DEF Enqueue, Goto, Return
  <2>2. UNCHANGED <<pending, pendingNil, buf, chClosed, pump, held, panicked>>
    BY <1>5 DEF Enqueue
  <2>3. \A d \in Call : /\ pc[d] \in Inside => pc'[d] \in Inside
                        /\ pc'[d] \in Before <=> pc[d] \in Before
    BY <2>1 DEF TypeOK, Inside, Before
  <2> QED
    BY <2>2, <2>3 DEF TypeOK, ChannelInv, Fresh
<1>6. ASSUME NEW c \in Call, Await(c) PROVE ChannelInv'
  <2>1. pc[c] = "await" /\ pc' = [pc EXCEPT ![c] = "cleanup"]
    BY <1>6 DEF Await, Goto, Return
  <2>2. \A d \in Call : buf'[d] \in {buf[d], NoCall}
    BY <1>6 DEF TypeOK, Await
  <2>3. UNCHANGED <<pending, pendingNil, chClosed, pump, held, panicked>>
    BY <1>6 DEF Await
  <2>4. \A d \in Call : Fresh(d) => Fresh(d)'
    BY <2>2, <2>3 DEF Fresh
  <2>5. \A d \in Call : /\ pc[d] \in Inside => pc'[d] \in Inside
                        /\ pc'[d] \in Before <=> pc[d] \in Before
    BY <2>1 DEF TypeOK, Inside, Before
  <2> QED
    BY <2>3, <2>4, <2>5 DEF TypeOK, ChannelInv
<1>7. ASSUME NEW c \in Call, Cleanup(c) PROVE ChannelInv'
  BY <1>7 DEF TypeOK, ChannelInv, Cleanup, Forget, Under, Goto, Fresh, Before,
              Inside
<1>8. CASE ReadResponse
  BY <1>8 DEF TypeOK, ChannelInv, ReadResponse, Claim, Under, Step, Closer,
              Fresh, Before, Inside
<1>9. CASE Deliver
  BY <1>9 DEF TypeOK, ChannelInv, Deliver, Step, Closer, Fresh
<1>10. CASE CloseChannel
  BY <1>10 DEF TypeOK, ChannelInv, CloseChannel, Step, Closer, Fresh
<1>11. ASSUME NEW p \in Closer, FailPending(p) PROVE ChannelInv'
  <2>1. pump'["reader"] \in {"deliver", "closeCh"} =>
          pump["reader"] = pump'["reader"]
    BY <1>11, StepType DEF FailPending, CloseEnds
  <2>2. /\ pending' = {} /\ chClosed' = chClosed \cup pending
        /\ UNCHANGED <<held, buf, pc>>
    BY <1>11 DEF FailPending, DropMap
  <2>3. pending \cap chClosed = {} /\ ~panicked'
    BY <1>11 DEF TypeOK, ChannelInv, FailPending, Fresh
  <2> QED
    BY <2>1, <2>2, <2>3 DEF TypeOK, ChannelInv, Fresh
<1> QED
  BY Cases, <1>1, <1>2, <1>3, <1>4, <1>5, <1>6, <1>7, <1>8, <1>9, <1>10,
     <1>11

\* The channel invariant holds in every reachable state.
THEOREM ChannelsCorrect == Spec => [](IDInv /\ ChannelInv)
<1>1. Init => IDInv /\ ChannelInv
  BY DEF Init, IDInv, ChannelInv, Fresh, Before, Inside, Closer
<1>2. TypeOK /\ IDInv /\ ChannelInv /\ [Next]_vars => (IDInv /\ ChannelInv)'
  BY IDStep, ChannelStep
<1> QED
  BY <1>1, <1>2, TypeCorrect, PTL DEF Spec

\* No call's channel is ever closed twice, or sent on after it is closed.
THEOREM NeverPanics == Spec => []NoPanic
<1>1. ChannelInv => NoPanic
  BY DEF ChannelInv, NoPanic
<1> QED
  BY <1>1, ChannelsCorrect, PTL

\* The map never keeps a channel of a call that has returned, and never
\* holds two under one ID.
THEOREM NothingLeaks == Spec => []NoPendingLeak
<1>1. TypeOK /\ IDInv /\ ChannelInv => NoPendingLeak
  BY DEF TypeOK, IDInv, ChannelInv, NoPendingLeak, Inside
<1> QED
  BY <1>1, TypeCorrect, ChannelsCorrect, PTL

\* readPump is never held up by a caller.
THEOREM ReaderRunsOn == Spec => []ReaderNeverBlocks
<1>1. ChannelInv => ReaderNeverBlocks
  BY DEF ChannelInv, ReaderNeverBlocks, Fresh, CanSend
<1> QED
  BY <1>1, ChannelsCorrect, PTL

-----------------------------------------------------------------------------
(* Messages.                                                               *)

Request(c) == [kind |-> "request", id |-> id[c], call |-> c]
Response(m) == [kind |-> "response", id |-> m.id, call |-> m.call]

\* What a step can do to the send channel.
LEMMA SendChange ==
  ASSUME [Next]_vars
  PROVE  \/ UNCHANGED send
         \/ send # <<>> /\ send' = Tail(send)
         \/ send' = Append(send, Msg("other"))
         \/ \E c \in Call : Enqueue(c) /\ send' = Append(send, Request(c))
<1>1. CASE UNCHANGED vars
  BY <1>1 DEF vars
<1>2. ASSUME NEW c \in Call, DispatchJob(c) \/ Expire(c)
      PROVE  UNCHANGED send \/ (Enqueue(c) /\ send' = Append(send, Request(c)))
  BY <1>2 DEF DispatchJob, Lookup, NextRequestID, RegisterPending, Enqueue, Put,
              Await, Cleanup, Expire, Request
<1>3. ASSUME NEW p \in Closer, Close(p) PROVE UNCHANGED send
  BY <1>3 DEF Close, CloseBegin, CloseConn, Unregister, FailPending
<1>4. CASE ReadPump \/ WritePump
  BY <1>3, <1>4 DEF ReadPump, WritePump, ReadResponse, Deliver, CloseChannel,
                    ReadOther, Offer, Write, PumpEnds, Closer
<1>5. CASE PushMessage \/ LinkDown \/ AgentSend \/ \E m \in agentGot : AgentReply(m)
  BY <1>5 DEF PushMessage, Offer, LinkDown, AgentSend, AgentReply
<1>6. CASE Replace \/ ReplaceOther \/ Close("register")
  BY <1>3, <1>6 DEF Replace, ReplaceOther, Closer
<1> QED
  BY <1>1, <1>2, <1>4, <1>5, <1>6 DEF Next

\* What a step can do to the wire.
LEMMA WireChange ==
  ASSUME [Next]_vars
  PROVE  \/ fromAgent' \in {fromAgent, <<>>}
         \/ fromAgent # <<>> /\ fromAgent' = Tail(fromAgent)
         \/ \E k \in {"request", "ignored"} :
              fromAgent' = Append(fromAgent, Msg(k))
         \/ \E m \in agentGot : fromAgent' = Append(fromAgent, Response(m))
<1>1. CASE UNCHANGED vars
  BY <1>1 DEF vars
<1>2. ASSUME NEW c \in Call, DispatchJob(c) \/ Expire(c)
      PROVE  UNCHANGED fromAgent
  BY <1>2 DEF DispatchJob, Lookup, NextRequestID, RegisterPending, Enqueue,
              Await, Cleanup, Expire
<1>3. ASSUME NEW p \in Closer, Close(p) PROVE fromAgent' \in {fromAgent, <<>>}
  BY <1>3 DEF Close, CloseBegin, CloseConn, Unregister, FailPending
<1>4. CASE ReadPump \/ WritePump
  BY <1>3, <1>4 DEF ReadPump, WritePump, ReadResponse, Deliver, CloseChannel,
                    ReadOther, Receive, Write, PumpEnds, Closer
<1>5. CASE PushMessage \/ LinkDown \/ AgentSend \/ \E m \in agentGot : AgentReply(m)
  BY <1>5 DEF PushMessage, LinkDown, AgentSend, AgentReply, Response
<1>6. CASE Replace \/ ReplaceOther \/ Close("register")
  BY <1>3, <1>6 DEF Replace, ReplaceOther, Closer
<1> QED
  BY <1>1, <1>2, <1>4, <1>5, <1>6 DEF Next

\* What a step can do to the requests the agent has received.
LEMMA GotChange ==
  ASSUME [Next]_vars
  PROVE  \/ UNCHANGED agentGot
         \/ /\ send # <<>> /\ Head(send).kind = "request"
            /\ agentGot' = agentGot \cup {Head(send)}
            /\ Write
<1>1. CASE UNCHANGED vars
  BY <1>1 DEF vars
<1>2. ASSUME NEW c \in Call, DispatchJob(c) \/ Expire(c)
      PROVE  UNCHANGED agentGot
  BY <1>2 DEF DispatchJob, Lookup, NextRequestID, RegisterPending, Enqueue,
              Await, Cleanup, Expire
<1>3. ASSUME NEW p \in Closer, Close(p) PROVE UNCHANGED agentGot
  BY <1>3 DEF Close, CloseBegin, CloseConn, Unregister, FailPending
<1>4. CASE ReadPump
  BY <1>3, <1>4 DEF ReadPump, ReadResponse, Deliver, CloseChannel, ReadOther,
                    PumpEnds, Closer
<1>5. CASE WritePump
  BY <1>3, <1>5 DEF WritePump, Write, PumpEnds, Closer
<1>6. CASE PushMessage \/ LinkDown \/ AgentSend \/ \E m \in agentGot : AgentReply(m)
  BY <1>6 DEF PushMessage, LinkDown, AgentSend, AgentReply
<1>7. CASE Replace \/ ReplaceOther \/ Close("register")
  BY <1>3, <1>7 DEF Replace, ReplaceOther, Closer
<1> QED
  BY <1>1, <1>2, <1>4, <1>5, <1>6, <1>7 DEF Next

\* Where a step can take a call, and what it can tell it.
LEMMA CallChange ==
  ASSUME TypeOK, MessageInv, [Next]_vars
  PROVE  /\ \A c \in Call : result'[c] = "none" <=>
                pc'[c] \in Before \cup {"enqueue", "await"}
         /\ \A c \in Call :
              pc[c] \in {"await", "cleanup", "returned"} =>
                /\ id'[c] = id[c]
                /\ pc'[c] \in {"await", "cleanup", "returned"}
                /\ result'[c] \in {result[c], "ok", "lost", "ctx"}
<1> DEFINE Goal ==
      /\ \A c \in Call : result'[c] = "none" <=>
            pc'[c] \in Before \cup {"enqueue", "await"}
      /\ \A c \in Call : pc[c] \in {"await", "cleanup", "returned"} =>
            /\ id'[c] = id[c]
            /\ pc'[c] \in {"await", "cleanup", "returned"}
            /\ result'[c] \in {result[c], "ok", "lost", "ctx"}
<1>0. /\ DOMAIN pc = Call /\ DOMAIN result = Call /\ DOMAIN id = Call
      /\ pc = [c \in Call |-> pc[c]] /\ result = [c \in Call |-> result[c]]
      /\ id = [c \in Call |-> id[c]]
      /\ \A c \in Call : result[c] = "none" <=>
                            pc[c] \in Before \cup {"enqueue", "await"}
  BY DEF TypeOK, MessageInv
<1>1. CASE Elsewhere \/ ReadResponse \/ Deliver \/ CloseChannel
           \/ \E p \in Closer : FailPending(p)
  BY <1>0, <1>1 DEF Elsewhere, ReadResponse, Deliver, CloseChannel,
                    FailPending
<1>2. ASSUME NEW c \in Call, NextRequestID(c) PROVE Goal
  BY <1>0, <1>2 DEF NextRequestID, NewID, Goto, Before
<1>3. ASSUME NEW c \in Call, Lookup(c) PROVE Goal
  BY <1>0, <1>3 DEF Lookup, Goto, Return, Before
<1>4. ASSUME NEW c \in Call, RegisterPending(c) PROVE Goal
  BY <1>0, <1>4 DEF RegisterPending, Goto, Return, Before
<1>5. ASSUME NEW c \in Call, Enqueue(c) PROVE Goal
  BY <1>0, <1>5 DEF Enqueue, Goto, Return, Before
<1>6. ASSUME NEW c \in Call, Await(c) PROVE Goal
  BY <1>0, <1>6 DEF Await, Goto, Return, Before
<1>7. ASSUME NEW c \in Call, Cleanup(c) PROVE Goal
  BY <1>0, <1>7 DEF Cleanup, Goto, Before
<1> QED
  BY Cases, <1>1, <1>2, <1>3, <1>4, <1>5, <1>6, <1>7

\* About, in the next state, of a value of this one.
AboutNext(m) ==
  /\ m.call \in Call /\ m.id = id'[m.call] /\ m.id # 0
  /\ pc'[m.call] \in {"await", "cleanup", "returned"}
  /\ result'[m.call] \in {"none", "ok", "ctx", "lost"}

\* A message that is about a call stays so.
LEMMA AboutStays ==
  ASSUME TypeOK, MessageInv, [Next]_vars, NEW m, About(m)
  PROVE  AboutNext(m)
BY CallChange DEF About, AboutNext

\* The requests in the send channel and at the agent are about calls.
LEMMA RequestsStep ==
  ASSUME IInv, [Next]_vars
  PROVE  /\ \A i \in 1 .. Len(send') :
              send'[i].kind = "request" => AboutNext(send'[i])
         /\ \A m \in agentGot' : m.kind = "request" /\ AboutNext(m)
<1>1. \A i \in 1 .. Len(send) : send[i].kind = "request" => AboutNext(send[i])
  BY AboutStays DEF IInv, MessageInv
<1>2. \A i \in 1 .. Len(send') : send'[i].kind = "request" => AboutNext(send'[i])
  <2>1. CASE UNCHANGED send
    BY <1>1, <2>1
  <2>2. CASE send # <<>> /\ send' = Tail(send)
    <3>1. \A i \in 1 .. Len(send') : i + 1 \in 1 .. Len(send)
                                    /\ send'[i] = send[i + 1]
      BY <2>2 DEF IInv, TypeOK
    <3> QED
      BY <1>1, <3>1
  <2>3. CASE send' = Append(send, Msg("other"))
    <3>1. \A i \in 1 .. Len(send') : \/ i \in 1 .. Len(send) /\ send'[i] = send[i]
                                     \/ send'[i] = Msg("other")
      BY <2>3 DEF IInv, TypeOK
    <3>2. Msg("other").kind # "request"
      BY DEF Msg
    <3> QED
      BY <1>1, <3>1, <3>2
  <2>4. ASSUME NEW c \in Call, Enqueue(c), send' = Append(send, Request(c))
        PROVE \A i \in 1 .. Len(send') :
                send'[i].kind = "request" => AboutNext(send'[i])
    <3>1. \A i \in 1 .. Len(send') :
            (i \in 1 .. Len(send) /\ send'[i] = send[i])
            \/ send'[i] = Request(c)
      BY <2>4 DEF IInv, TypeOK
    <3>2. pc[c] = "enqueue" /\ result[c] = "none" /\ id[c] # 0
      BY <2>4 DEF Enqueue, IInv, MessageInv, IDInv, Inside
    <3>3. send' # send
      BY <2>4 DEF IInv, TypeOK
    <3>4. /\ pc' = [pc EXCEPT ![c] = "await"]
          /\ result' = result /\ id' = id
      BY <2>4, <3>3 DEF Enqueue, Goto
    <3>5. AboutNext(Request(c))
      BY <3>2, <3>4 DEF AboutNext, Request, IInv, TypeOK
    <3> QED
      BY <1>1, <3>1, <3>5
  <2> QED
    BY <2>1, <2>2, <2>3, <2>4, SendChange
<1>3. \A m \in agentGot' : m.kind = "request" /\ AboutNext(m)
  <2>1. \A m \in agentGot : m.kind = "request" /\ AboutNext(m)
    BY AboutStays DEF IInv, MessageInv
  <2>2. send # <<>> => 1 \in 1 .. Len(send) /\ Head(send) = send[1]
    BY DEF IInv, TypeOK
  <2> QED
    BY <1>1, <2>1, <2>2, GotChange
<1> QED
  BY <1>2, <1>3

\* The agent has received a request of call c.
Ran(c)     == \E m \in agentGot : m.call = c
RanNext(c) == \E m \in agentGot' : m.call = c

\* It never forgets.
LEMMA RanStays ==
  ASSUME [Next]_vars, NEW c, Ran(c) PROVE RanNext(c)
BY GotChange DEF Ran, RanNext

\* The responses on the wire are about calls whose job the agent has got.
LEMMA WireStep ==
  ASSUME IInv, [Next]_vars
  PROVE  \A i \in 1 .. Len(fromAgent') : fromAgent'[i].kind = "response" =>
           AboutNext(fromAgent'[i]) /\ RanNext(fromAgent'[i].call)
<1> DEFINE Good(m) == m.kind = "response" => AboutNext(m) /\ RanNext(m.call)
<1>1. \A i \in 1 .. Len(fromAgent) : Good(fromAgent[i])
  BY AboutStays, RanStays DEF IInv, MessageInv, Ran
<1>2. CASE fromAgent # <<>> /\ fromAgent' = Tail(fromAgent)
  <2>1. \A i \in 1 .. Len(fromAgent') : i + 1 \in 1 .. Len(fromAgent)
                                       /\ fromAgent'[i] = fromAgent[i + 1]
    BY <1>2 DEF IInv, TypeOK
  <2> QED
    BY <1>1, <2>1
<1>3. ASSUME NEW m, fromAgent' = Append(fromAgent, m), Good(m)
      PROVE  \A i \in 1 .. Len(fromAgent') : Good(fromAgent'[i])
  <2>1. \A i \in 1 .. Len(fromAgent') :
          (i \in 1 .. Len(fromAgent) /\ fromAgent'[i] = fromAgent[i])
          \/ fromAgent'[i] = m
    BY <1>3 DEF IInv, TypeOK
  <2> QED
    BY <1>1, <1>3, <2>1
<1>4. \A k \in {"request", "ignored"} : Good(Msg(k))
  BY DEF Msg
<1>5. \A m \in agentGot : Good(Response(m))
  <2> SUFFICES ASSUME NEW m \in agentGot PROVE Good(Response(m))
    OBVIOUS
  <2>1. About(m)
    BY DEF IInv, MessageInv
  <2>2. About(Response(m))
    BY <2>1 DEF About, Response
  <2>3. Ran(Response(m).call)
    BY DEF Ran, Response
  <2> QED
    BY <2>2, <2>3, AboutStays, RanStays DEF IInv
<1>6. CASE fromAgent' = <<>>
  BY <1>6
<1> QED
  BY <1>1, <1>2, <1>3, <1>4, <1>5, <1>6, WireChange

\* What is delivered to a call is the response to its own request.
LEMMA DeliveryStep ==
  ASSUME IInv, [Next]_vars
  PROVE  /\ pump'["reader"] = "deliver" =>
              held'.val = held'.ch /\ RanNext(held'.ch)
         /\ \A c \in Call : buf'[c] # NoCall => buf'[c] = c /\ RanNext(c)
         /\ \A c \in Call : result'[c] = "ok" => got'[c] = c
<1> DEFINE Goal ==
      /\ pump'["reader"] = "deliver" =>
           held'.val = held'.ch /\ RanNext(held'.ch)
      /\ \A c \in Call : buf'[c] # NoCall => buf'[c] = c /\ RanNext(c)
      /\ \A c \in Call : result'[c] = "ok" => got'[c] = c
<1>0. /\ pump["reader"] = "deliver" =>
           held.val = held.ch /\ RanNext(held.ch)
      /\ \A c \in Call : buf[c] # NoCall => buf[c] = c /\ RanNext(c)
      /\ \A c \in Call : result[c] = "ok" => got[c] = c
  BY RanStays DEF IInv, MessageInv, Ran
<1>1. CASE Elsewhere \/ CloseChannel
  BY <1>0, <1>1 DEF Elsewhere, CloseChannel, Step, IInv, TypeOK, Closer
<1>2. ASSUME NEW p \in Closer, FailPending(p) PROVE Goal
  <2>1. pump'["reader"] = "deliver" => pump["reader"] = "deliver"
    BY <1>2, StepType DEF FailPending, CloseEnds, IInv
  <2> QED
    BY <1>0, <1>2, <2>1 DEF FailPending
<1>3. ASSUME NEW c \in Call,
             Lookup(c) \/ NextRequestID(c) \/ RegisterPending(c)
             \/ Enqueue(c) \/ Cleanup(c)
      PROVE  Goal
  BY <1>0, <1>3 DEF Lookup, NextRequestID, RegisterPending, Enqueue, Cleanup,
                    Return, IInv, TypeOK
<1>4. ASSUME NEW c \in Call, Await(c) PROVE Goal
  <2>1. UNCHANGED <<pump, held>>
    BY <1>4 DEF Await
  <2>2. \A d \in Call : buf'[d] # NoCall => buf'[d] = d /\ RanNext(d)
    BY <1>0, <1>4 DEF Await, IInv, TypeOK
  <2>3. \A d \in Call : result'[d] = "ok" => got'[d] = d
    BY <1>0, <1>4 DEF Await, Return, IInv, TypeOK
  <2> QED
    BY <1>0, <2>1, <2>2, <2>3
<1>5. CASE Deliver
  <2>1. held.ch \in Call /\ pump["reader"] = "deliver"
    BY <1>5 DEF Deliver, IInv, TypeOK
  <2>2. pump'["reader"] = "closeCh"
    BY <1>5 DEF Deliver, Step, IInv, TypeOK, Closer
  <2> QED
    BY <1>0, <1>5, <2>1, <2>2 DEF Deliver, IInv, TypeOK
<1>6. CASE ReadResponse
  <2>1. UNCHANGED <<buf, result, got>>
    BY <1>6 DEF ReadResponse
  <2>2. pump["reader"] = "loop" /\ fromAgent # <<>>
        /\ Head(fromAgent).kind = "response"
    BY <1>6 DEF ReadResponse, Receive
  <2>3. CASE UNCHANGED pump
    BY <1>0, <2>1, <2>2, <2>3
  <2>4. ASSUME NEW c \in Under(Head(fromAgent).id),
               held' = [ch |-> c, val |-> Head(fromAgent).call]
        PROVE  held'.val = held'.ch /\ RanNext(held'.ch)
    <3>1. 1 \in 1 .. Len(fromAgent) /\ Head(fromAgent) = fromAgent[1]
      BY <2>2 DEF IInv, TypeOK
    <3>2. About(Head(fromAgent)) /\ Ran(Head(fromAgent).call)
      BY <2>2, <3>1 DEF IInv, MessageInv, Ran
    <3>3. c \in Call /\ id[c] = Head(fromAgent).id
      BY <2>4 DEF Under, IInv, TypeOK
    <3>4. c = Head(fromAgent).call
      BY <3>2, <3>3 DEF About, IInv, IDInv
    <3> QED
      BY <2>4, <3>2, <3>4, RanStays
  <2> QED
    BY <1>0, <1>6, <2>1, <2>3, <2>4 DEF ReadResponse
<1> QED
  BY Cases, <1>1, <1>2, <1>3, <1>4, <1>5, <1>6 DEF IInv

\* The inductive invariant holds in every reachable state.
THEOREM Invariant == Spec => []IInv
<1>1. Init => MessageInv
  BY DEF Init, MessageInv, Before, Closer
<1>2. IInv /\ [Next]_vars => MessageInv'
  BY RequestsStep, WireStep, DeliveryStep, CallChange
  DEF IInv, MessageInv, About, AboutNext, RanNext
<1>3. TypeOK /\ IDInv /\ ChannelInv /\ MessageInv => IInv
  BY DEF IInv
<1> QED
  BY <1>1, <1>2, <1>3, TypeCorrect, ChannelsCorrect, PTL DEF Spec

-----------------------------------------------------------------------------
(* The connection implements RPCCalls.                                     *)

\* Status and Ran are the refinement mapping, in this state and the next.
StatusNext(c) ==
  CASE result'[c] = "none"                                  -> "open"
    [] result'[c] = "ok" /\ got'[c] = c                     -> "answered"
    [] result'[c] = "ok" /\ got'[c] # c                     -> "misdelivered"
    [] result'[c] \in {"notConnected", "closed", "notSent"} -> "rejected"
    [] result'[c] \in {"ctx", "lost"}                       -> "unknown"

ran == {m.call : m \in agentGot}

\* A step that ends no call leaves every status as it is.
LEMMA SameStatus ==
  ASSUME UNCHANGED <<result, got>>
  PROVE  [c \in Call |-> StatusNext(c)] = [c \in Call |-> Status(c)]
BY DEF Status, StatusNext

\* A step that ends call c with outcome r changes only its status.
LEMMA OneStatus ==
  ASSUME TypeOK, NEW c \in Call, NEW r, result' = [result EXCEPT ![c] = r],
         \A d \in Call \ {c} : got'[d] = got[d]
  PROVE  [d \in Call |-> StatusNext(d)] =
           [[d \in Call |-> Status(d)] EXCEPT ![c] = StatusNext(c)]
<1>1. \A d \in Call \ {c} : result'[d] = result[d] /\ got'[d] = got[d]
  BY DEF TypeOK
<1>2. \A d \in Call \ {c} : StatusNext(d) = Status(d)
  BY <1>1 DEF Status, StatusNext
<1> QED
  BY <1>2

\* Each step of the connection is a step of RPCCalls or changes nothing
\* there.
LEMMA RefinementStep ==
  ASSUME IInv, [Next]_vars
  PROVE  \/ \E c \in Call : RPC!Run(c) \/ RPC!Answer(c) \/ RPC!Reject(c)
                            \/ RPC!GiveUp(c)
         \/ UNCHANGED <<[c \in Call |-> Status(c)], ran>>
<1>0. TypeOK
  BY DEF IInv
<1>1. CASE Write /\ send # <<>> /\ Head(send).kind = "request"
           /\ agentGot' = agentGot \cup {Head(send)}
  <2>1. 1 \in 1 .. Len(send) /\ Head(send) = send[1]
    BY <1>0, <1>1 DEF TypeOK
  <2>2. PICK c \in Call : /\ c = Head(send).call
                          /\ result[c] \in {"none", "ok", "ctx", "lost"}
    BY <1>1, <2>1 DEF IInv, MessageInv, About
  <2>3. ran' = ran \cup {c}
    BY <1>1, <2>2 DEF ran
  <2>4. UNCHANGED <<result, got>>
    BY <1>1 DEF Write
  <2>5. Status(c) # "rejected"
    BY <2>2 DEF Status
  <2>6. [d \in Call |-> StatusNext(d)] = [d \in Call |-> Status(d)]
    BY <2>4, SameStatus
  <2>7. CASE c \in ran
    BY <2>3, <2>6, <2>7 DEF ran, Status, StatusNext
  <2>8. CASE c \notin ran
    <3>1. RPC!Run(c)
      BY <2>2, <2>3, <2>5, <2>6, <2>8 DEF RPC!Run, ran, Status, StatusNext
    <3> QED
      BY <3>1
  <2> QED
    BY <2>7, <2>8
<1>2. CASE UNCHANGED agentGot
  <2>1. UNCHANGED ran
    BY <1>2 DEF ran
  <2>2. CASE UNCHANGED <<result, got>>
    BY <2>1, <2>2, SameStatus DEF Status, StatusNext
  <2>3. ASSUME NEW c \in Call, NEW r \in {"notConnected", "closed", "notSent"},
               pc[c] \in Before \cup {"enqueue"},
               result' = [result EXCEPT ![c] = r], got' = got
        PROVE  RPC!Reject(c)
    <3>1. result[c] = "none" /\ c \notin ran
      BY <2>3 DEF IInv, MessageInv, About, ran, Before
    <3>2. Status(c) = "open" /\ StatusNext(c) = "rejected"
      BY <1>0, <2>3, <3>1 DEF TypeOK, Status, StatusNext
    <3> QED
      BY <1>0, <2>1, <2>3, <3>1, <3>2, OneStatus
      DEF RPC!Reject, RPC!End, ran, Status, StatusNext
  <2>4. ASSUME NEW c \in Call, NEW r \in {"ctx", "lost"},
               pc[c] \in {"enqueue", "await"},
               result' = [result EXCEPT ![c] = r], got' = got
        PROVE  RPC!GiveUp(c)
    <3>1. result[c] = "none"
      BY <2>4 DEF IInv, MessageInv
    <3>2. Status(c) = "open" /\ StatusNext(c) = "unknown"
      BY <1>0, <2>4, <3>1 DEF TypeOK, Status, StatusNext
    <3> QED
      BY <1>0, <2>1, <2>4, <3>1, <3>2, OneStatus
      DEF RPC!GiveUp, RPC!End, ran, Status, StatusNext
  <2>5. ASSUME NEW c \in Call, pc[c] = "await", buf[c] # NoCall,
               result' = [result EXCEPT ![c] = "ok"],
               got' = [got EXCEPT ![c] = buf[c]]
        PROVE  RPC!Answer(c)
    <3>1. result[c] = "none" /\ c \in ran /\ buf[c] = c
      BY <2>5 DEF IInv, MessageInv, ran
    <3>2. Status(c) = "open" /\ StatusNext(c) = "answered"
      BY <1>0, <2>5, <3>1 DEF TypeOK, Status, StatusNext
    <3>3. \A d \in Call \ {c} : got'[d] = got[d]
      BY <1>0, <2>5 DEF TypeOK
    <3> QED
      BY <1>0, <2>1, <2>5, <3>1, <3>2, <3>3, OneStatus
      DEF RPC!Answer, RPC!End, ran, Status, StatusNext
  <2>6. CASE Elsewhere \/ ReadResponse \/ Deliver \/ CloseChannel
             \/ \E p \in Closer : FailPending(p)
    BY <2>2, <2>6 DEF Elsewhere, ReadResponse, Deliver, CloseChannel,
                      FailPending
  <2>7. ASSUME NEW c \in Call, Lookup(c) \/ RegisterPending(c) \/ Enqueue(c)
        PROVE  \/ UNCHANGED <<result, got>>
               \/ RPC!Reject(c) \/ RPC!GiveUp(c)
    <3>1. CASE Lookup(c)
      BY <2>3, <3>1 DEF Lookup, Return, Before
    <3>2. CASE RegisterPending(c)
      BY <2>3, <3>2 DEF RegisterPending, Return, Before
    <3>3. CASE Enqueue(c)
      BY <2>3, <2>4, <3>3 DEF Enqueue, Return
    <3> QED
      BY <2>7, <3>1, <3>2, <3>3
  <2>8. ASSUME NEW c \in Call, Await(c)
        PROVE  RPC!Answer(c) \/ RPC!GiveUp(c)
    BY <2>4, <2>5, <2>8 DEF Await, Return
  <2>9. ASSUME NEW c \in Call, NextRequestID(c) \/ Cleanup(c)
        PROVE  UNCHANGED <<result, got>>
    BY <2>9 DEF NextRequestID, Cleanup
  <2> QED
    BY <1>0, Cases, <2>2, <2>6, <2>7, <2>8, <2>9
<1> QED
  BY <1>1, <1>2, GotChange

\* DispatchJob keeps its promise: its answers are answers to its own
\* requests, and a call that says its request was not sent is right for ever.
THEOREM Implements == Spec => ImplementsRPCCalls
<1>1. Init => RPC!Init
  BY DEF Init, RPC!Init, Status
<1>2. IInv /\ [Next]_vars =>
        [RPC!Next]_<<[c \in Call |-> Status(c)], {m.call : m \in agentGot}>>
  BY RefinementStep DEF RPC!Next, ran
<1> QED
  BY <1>1, <1>2, Invariant, PTL DEF Spec, ImplementsRPCCalls, RPC!Spec

-----------------------------------------------------------------------------
(* Keepalive                                                               *)

\* How far a heartbeat is, and how long ago its tick was.
BeatInv ==
  /\ beat = "due" => age <= Hold /\ PingPeriod - tick <= age
  /\ beat = "ping" => age <= Delay /\ PingPeriod - tick <= Hold + age
  /\ beat = "pong" => age <= Delay /\ PingPeriod - tick <= Hold + Delay + age
  /\ "hub" \notin open => beat # "due"
  /\ beat \in Frame => beat \in works

\* While everything works: both ends are open, and their deadlines are further
\* away than the handler that puts them off.
AliveInv ==
  Slack /\ works = Frame =>
    /\ open = {"hub", "agent"}
    /\ beat = "none" => /\ left["hub"] > tick + Hold + 2 * Delay
                        /\ left["agent"] > tick + Hold + Delay
    /\ beat = "due"  => /\ left["hub"] > Hold - age + 2 * Delay
                        /\ left["agent"] > Hold - age + Delay
    /\ beat = "ping" => /\ left["hub"] > 2 * Delay - age
                        /\ left["agent"] > Delay - age
    /\ beat = "pong" => /\ left["hub"] > Delay - age
                        /\ left["agent"] >= PongWait - age

\* When something has stopped: the hub's deadline is no longer put off but by a
\* pong under way, the agent's as long as the hub sends pings.
BrokenInv ==
  /\ works = Frame => broken = 0
  /\ works = {"ping"} /\ "hub" \in open => broken + left["hub"] <= PongWait
  /\ works = {"ping"} /\ beat = "ping" => broken <= PongWait + age
  /\ works = {"pong"} /\ beat = "pong" => broken <= age
  /\ \A e \in open : broken + left[e] <= Bound

KeepaliveInv == TimersOK /\ BeatInv /\ AliveInv /\ BrokenInv
-----------------------------------------------------------------------------
\* The types as plain facts about numbers.
LEMMA Numbers ==
  ASSUME TimersOK
  PROVE  /\ PingPeriod \in Int /\ PongWait \in Int /\ Hold \in Int /\ Delay \in Int
         /\ 0 < PingPeriod /\ 0 <= PongWait /\ 0 <= Hold /\ 0 <= Delay
         /\ Hold + 2 * Delay < PingPeriod
         /\ tick \in Int /\ 0 <= tick /\ tick <= PingPeriod
         /\ age \in Int /\ 0 <= age /\ broken \in Int /\ 0 <= broken
         /\ \A e \in {"hub", "agent"} :
              left[e] \in Int /\ 0 <= left[e] /\ left[e] <= PongWait
BY TimeAssumption DEF TimersOK

LEMMA TimersStep ==
  ASSUME KeepaliveInv, [KeepaliveNext]_timers
  PROVE  TimersOK'
<1>0. TimersOK
  BY DEF KeepaliveInv
<1>1. CASE UNCHANGED timers
  BY <1>0, <1>1 DEF TimersOK, timers
<1>2. CASE TickerFires
  BY <1>0, <1>2, TimeAssumption DEF TimersOK, TickerFires, Move, Period
<1>3. CASE WritePing
  BY <1>0, <1>3 DEF TimersOK, WritePing, Move, Sent, Frame
<1>4. CASE PingHandler
  BY <1>0, <1>4, TimeAssumption DEF TimersOK, PingHandler, Move, Sent, Frame
<1>5. CASE PongHandler
  BY <1>0, <1>5, TimeAssumption DEF TimersOK, PongHandler, Move, Frame
<1>6. ASSUME NEW e \in {"hub", "agent"}, GiveUp(e) PROVE TimersOK'
  BY <1>0, <1>6 DEF TimersOK, GiveUp, Move
<1>7. ASSUME NEW f \in Frame, Break(f) PROVE TimersOK'
  BY <1>0, <1>7 DEF TimersOK, Break, Move
<1>8. CASE Pass
  <2>1. tick' \in 0 .. PingPeriod
    BY <1>0, <1>8, Numbers DEF TimersOK, Pass
  <2>2. age' \in Nat /\ broken' \in Nat
    BY <1>0, <1>8 DEF TimersOK, Pass
  <2>3. left' \in [{"hub", "agent"} -> 0 .. PongWait]
    BY <1>0, <1>8, Numbers DEF TimersOK, Pass
  <2> QED
    BY <1>0, <1>8, <2>1, <2>2, <2>3 DEF TimersOK, Pass
<1> QED
  BY <1>1, <1>2, <1>3, <1>4, <1>5, <1>6, <1>7, <1>8 DEF KeepaliveNext

LEMMA BeatStep ==
  ASSUME KeepaliveInv, [KeepaliveNext]_timers
  PROVE  BeatInv'
<1>0. TimersOK /\ BeatInv
  BY DEF KeepaliveInv
<1>1. CASE UNCHANGED timers
  BY <1>0, <1>1 DEF BeatInv, timers
<1>2. CASE TickerFires
  BY <1>0, <1>2, Numbers DEF BeatInv, TickerFires, Move, Period, Frame
<1>3. CASE WritePing
  BY <1>0, <1>3, Numbers DEF BeatInv, WritePing, Move, Sent, Frame
<1>4. CASE PingHandler
  BY <1>0, <1>4, Numbers DEF BeatInv, PingHandler, Move, Sent, Frame
<1>5. CASE PongHandler
  BY <1>0, <1>5, Numbers DEF BeatInv, PongHandler, Move, Frame
<1>6. ASSUME NEW e \in {"hub", "agent"}, GiveUp(e) PROVE BeatInv'
  BY <1>0, <1>6 DEF BeatInv, GiveUp, Move, Frame
<1>7. ASSUME NEW f \in Frame, Break(f) PROVE BeatInv'
  BY <1>0, <1>7 DEF BeatInv, Break, Move, Frame
<1>8. CASE Pass
  BY <1>0, <1>8, Numbers DEF BeatInv, Pass, Frame
<1> QED
  BY <1>1, <1>2, <1>3, <1>4, <1>5, <1>6, <1>7, <1>8 DEF KeepaliveNext

LEMMA AliveStep ==
  ASSUME KeepaliveInv, [KeepaliveNext]_timers
  PROVE  AliveInv'
<1> SUFFICES ASSUME Slack, works' = Frame PROVE AliveInv'
  BY DEF AliveInv, Slack
<1>0. TimersOK /\ BeatInv /\ AliveInv /\ PingPeriod + Hold + 2 * Delay < PongWait
  BY DEF KeepaliveInv, Slack
<1>1. CASE UNCHANGED timers
  BY <1>0, <1>1 DEF AliveInv, timers
<1>2. CASE TickerFires
  <2>1. tick = 0 /\ works = Frame /\ beat' = "due" /\ age' = 0
        /\ UNCHANGED <<left, open>>
    BY <1>2 DEF TickerFires, Move
  <2>2. beat = "none"
    BY <1>0, <2>1, Numbers DEF TimersOK, BeatInv, Frame
  <2>3. open = {"hub", "agent"} /\ left["hub"] > Hold + 2 * Delay
        /\ left["agent"] > Hold + Delay
    BY <1>0, <2>1, <2>2, Numbers DEF AliveInv
  <2> QED
    BY <1>0, <2>1, <2>3, Numbers DEF AliveInv
<1>3. CASE WritePing
  <2>1. /\ beat = "due" /\ beat' = "ping" /\ age' = 0 /\ works = Frame
        /\ UNCHANGED <<left, open>>
    BY <1>3 DEF WritePing, Move, Sent, Frame
  <2>2. age <= Hold /\ open = {"hub", "agent"}
        /\ left["hub"] > Hold - age + 2 * Delay /\ left["agent"] > Hold - age + Delay
    BY <1>0, <2>1 DEF BeatInv, AliveInv
  <2>3. left["hub"] > 2 * Delay /\ left["agent"] > Delay
    BY <2>2, Numbers, <1>0
  <2> QED
    BY <2>1, <2>2, <2>3, <1>0, Numbers DEF AliveInv
<1>4. CASE PingHandler
  BY <1>0, <1>4, Numbers DEF TimersOK, BeatInv, AliveInv, PingHandler, Move, Sent, Frame
<1>5. CASE PongHandler
  BY <1>0, <1>5, Numbers DEF TimersOK, BeatInv, AliveInv, PongHandler, Move, Frame
<1>6. ASSUME NEW e \in {"hub", "agent"}, GiveUp(e) PROVE AliveInv'
  <2>1. left[e] = 0 /\ works = Frame
    BY <1>6 DEF GiveUp
  <2>2. beat \in {"none", "due", "ping", "pong"}
    BY <1>0 DEF TimersOK, Frame
  <2>3. left[e] > 0
    BY <1>0, <2>1, <2>2, Numbers DEF BeatInv, AliveInv, Frame
  <2> QED
    BY <2>1, <2>3
<1>7. ASSUME NEW f \in Frame, Break(f) PROVE AliveInv'
  BY <1>7 DEF Break
<1>8. CASE Pass
  BY <1>0, <1>8, Numbers DEF BeatInv, AliveInv, Pass, Frame
<1> QED
  BY <1>1, <1>2, <1>3, <1>4, <1>5, <1>6, <1>7, <1>8 DEF KeepaliveNext

LEMMA BrokenStep ==
  ASSUME KeepaliveInv, [KeepaliveNext]_timers
  PROVE  BrokenInv'
<1>0. TimersOK /\ BeatInv /\ BrokenInv /\ Bound = PongWait + PongWait + Delay
  BY DEF KeepaliveInv, Bound
<1>f. "ping" # "pong" /\ Frame = {"ping", "pong"} /\ works \subseteq Frame
      /\ open \subseteq {"hub", "agent"}
  BY <1>0 DEF Frame, TimersOK
<1>1. CASE UNCHANGED timers
  BY <1>0, <1>1 DEF BrokenInv, timers
<1>2. CASE TickerFires
  BY <1>0, <1>2 DEF BrokenInv, TickerFires, Move, Frame
<1>3. CASE WritePing
  BY <1>0, <1>f, <1>3, Numbers DEF BeatInv, BrokenInv, WritePing, Move, Sent
<1>4. CASE PingHandler
  <2>1. /\ beat = "ping" /\ "ping" \in works /\ age <= Delay
        /\ UNCHANGED <<open, works, broken>> /\ age' = 0
    BY <1>0, <1>4 DEF BeatInv, PingHandler, Move, Frame
  <2>2. broken <= PongWait + Delay /\ broken' = broken
    <3>1. works = {"ping"} \/ works = Frame
      BY <1>f, <2>1
    <3> QED
      BY <1>0, <2>1, <3>1, Numbers DEF BrokenInv
  <2>3. /\ beat' = "pong" => works' = Frame
        /\ beat' # "ping"
    BY <1>f, <1>4, <2>1 DEF PingHandler, Move, Sent
  <2>4. left'["hub"] = left["hub"]
        /\ (left'["agent"] = left["agent"] \/ left'["agent"] = PongWait)
    BY <1>0, <1>4 DEF TimersOK, PingHandler
  <2>5. \A e \in open' : broken' + left'[e] <= Bound
    BY <1>0, <1>f, <2>1, <2>2, <2>4, Numbers DEF BrokenInv
  <2>6. works' = {"ping"} /\ "hub" \in open' => broken' + left'["hub"] <= PongWait
    BY <1>0, <2>1, <2>2, <2>4 DEF BrokenInv
  <2> QED
    BY <1>0, <1>f, <2>1, <2>2, <2>3, <2>5, <2>6 DEF BrokenInv
<1>5. CASE PongHandler
  <2>1. /\ beat = "pong" /\ "pong" \in works /\ age <= Delay
        /\ beat' = "none" /\ UNCHANGED <<open, works, broken>>
    BY <1>0, <1>5 DEF BeatInv, PongHandler, Move, Frame
  <2>2. broken <= Delay
    <3>1. works = {"pong"} \/ works = Frame
      BY <1>f, <2>1
    <3> QED
      BY <1>0, <2>1, <3>1, Numbers DEF BrokenInv
  <2>3. left'["hub"] = PongWait /\ left'["agent"] = left["agent"]
    BY <1>0, <1>5 DEF TimersOK, PongHandler
  <2>4. \A e \in open' : broken' + left'[e] <= Bound
    BY <1>0, <1>f, <2>1, <2>2, <2>3, Numbers DEF BrokenInv
  <2> QED
    BY <1>0, <1>f, <2>1, <2>4 DEF BrokenInv
<1>6. ASSUME NEW e \in {"hub", "agent"}, GiveUp(e) PROVE BrokenInv'
  BY <1>0, <1>f, <1>6, Numbers DEF BrokenInv, GiveUp, Move
<1>7. ASSUME NEW f \in Frame, Break(f) PROVE BrokenInv'
  BY <1>0, <1>f, <1>7, Numbers DEF BeatInv, BrokenInv, Break, Move
<1>8. CASE Pass
  BY <1>0, <1>f, <1>8, Numbers DEF BeatInv, BrokenInv, Pass
<1> QED
  BY <1>1, <1>2, <1>3, <1>4, <1>5, <1>6, <1>7, <1>8 DEF KeepaliveNext

-----------------------------------------------------------------------------
\* The inductive invariant holds in every reachable state.
THEOREM KeepaliveInvariant == KeepaliveSpec => []KeepaliveInv
<1>1. KeepaliveInit => KeepaliveInv
  BY TimeAssumption
  DEF KeepaliveInit, KeepaliveInv, TimersOK, BeatInv, AliveInv, BrokenInv, Slack, Frame, Bound
<1>2. KeepaliveInv /\ [KeepaliveNext]_timers => KeepaliveInv'
  BY TimersStep, BeatStep, AliveStep, BrokenStep DEF KeepaliveInv
<1> QED
  BY <1>1, <1>2, PTL DEF KeepaliveSpec

\* For any period and deadline that leave room for a heartbeat to go round, a
\* connection that works is never given up.
THEOREM LivingKept == KeepaliveSpec => []KeptAlive
<1>1. KeepaliveInv => KeptAlive
  BY DEF KeepaliveInv, AliveInv, KeptAlive
<1> QED
  BY <1>1, KeepaliveInvariant, PTL

\* For any of them, no end stays for longer than two deadlines and a delay on a
\* connection of which one direction has stopped.
THEOREM DeadLeft == KeepaliveSpec => []DeadNoticed
<1>1. KeepaliveInv => DeadNoticed
  <2> SUFFICES ASSUME KeepaliveInv, NEW e \in open PROVE broken <= Bound
    BY DEF DeadNoticed
  <2>1. TimersOK /\ broken + left[e] <= Bound /\ e \in {"hub", "agent"}
    BY DEF KeepaliveInv, BrokenInv, TimersOK
  <2> QED
    BY <2>1, Numbers DEF Bound
<1> QED
  BY <1>1, KeepaliveInvariant, PTL
=============================================================================
