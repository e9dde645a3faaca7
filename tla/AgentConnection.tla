--------------------------- MODULE AgentConnection ---------------------------
(***************************************************************************)
(* One AgentConnection of the hub (hub/server.go) from the moment it is    *)
(* registered: the DispatchJob calls that multiplex JSON-RPC requests over *)
(* it, its readPump and writePump goroutines, and Close, which either pump *)
(* runs when it ends and Hub.register when another connection takes the    *)
(* place of this one.                                                      *)
(*                                                                         *)
(* A call c owns one Go channel of capacity 1 (buf[c], chClosed[c]) which  *)
(* it puts in the pending map under its request ID.  pending holds the     *)
(* calls whose channel is in the map; the key of call c is id[c], so two   *)
(* calls with one ID would displace each other as in the Go map.  Code     *)
(* under pendingMu is one step; everything else interleaves.  A send on or *)
(* a close of a closed channel, and a write to the nil map, crash the hub: *)
(* they set panicked.                                                      *)
(*                                                                         *)
(* The registry lock h.mu is held for longer than a step only by a         *)
(* register that replaces a connection: it runs that connection's Close,   *)
(* which needs the lock (HubRegistry is about this).  From then on locked  *)
(* is TRUE, and what needs the lock waits.                                 *)
(***************************************************************************)
EXTENDS Naturals, Sequences, FiniteSets

CONSTANTS
  Call,      \* the DispatchJob calls for this agent
  NoCall,    \* not a call
  SendCap,   \* capacity of the send channel (256 in the code)
  MaxNoise   \* bound on the messages, either way, that no call makes

ASSUME NoCallAssumption  == NoCall \notin Call
ASSUME SendCapAssumption == SendCap \in Nat \ {0}
ASSUME NoiseAssumption   == MaxNoise \in Nat

VARIABLES
  registered,  \* the hub's connections map holds this connection
  done,        \* the channel done is closed
  connOpen,    \* the websocket has not been closed by the hub
  link,        \* the network still carries messages
  once,        \* closeOnce
  locked,      \* a register that replaces a connection holds h.mu
  send,        \* the send channel
  requestID,   \* the counter behind NextRequestID
  pending,     \* the calls whose channel is in the pending map
  pendingNil,  \* Close set the pending map to nil
  pc,          \* where each DispatchJob call is
  id,          \* the request ID of each call, 0 before it has one
  expired,     \* the calls whose context is done
  buf,         \* the value in each call's channel
  chClosed,    \* the calls' channels that are closed
  result,      \* how each call ended
  got,         \* the call whose response was returned
  pump,        \* where the two pumps and the register that closes are
  held,        \* the channel and response readPump is delivering
  agentGot,    \* requests the agent has received
  replied,     \* calls the agent has answered
  fromAgent,   \* messages on the wire to the hub
  noise,       \* messages either end sent on its own account
  panicked     \* a Go runtime panic has happened

hubVars   == <<registered, done, connOpen, once, locked>>
callVars  == <<pc, id, expired, result, got>>
chanVars  == <<buf, chClosed, panicked>>
mapVars   == <<requestID, pending, pendingNil>>
pumpVars  == <<pump, held>>
agentVars == <<link, agentGot, replied, noise>>
vars == <<hubVars, callVars, chanVars, mapVars, pumpVars, agentVars, send,
          fromAgent>>

\* What readPump holds when it delivers nothing.
Nothing == [ch |-> NoCall, val |-> NoCall]

\* Who may run Close.
Closer == {"reader", "writer", "register"}

Owner == Call \cup {NoCall}

Message == [kind : {"request", "other", "response", "ignored"},
            id : Nat, call : Owner]

Msg(kind) == [kind |-> kind, id |-> 0, call |-> NoCall]

TypeOK ==
  /\ registered \in BOOLEAN /\ done \in BOOLEAN /\ connOpen \in BOOLEAN
  /\ link \in BOOLEAN /\ pendingNil \in BOOLEAN /\ panicked \in BOOLEAN
  /\ locked \in BOOLEAN
  /\ once \in {"new", "running", "done"}
  /\ send \in Seq(Message) /\ Len(send) <= SendCap
  /\ fromAgent \in Seq(Message)
  /\ requestID \in Nat /\ noise \in Nat
  /\ pending \in SUBSET Call /\ expired \in SUBSET Call
  /\ chClosed \in SUBSET Call /\ replied \in SUBSET Owner
  /\ pc \in [Call -> {"lookup", "nextID", "register", "enqueue", "await",
                      "cleanup", "returned"}]
  /\ id \in [Call -> Nat]
  /\ buf \in [Call -> Owner] /\ got \in [Call -> Owner]
  /\ result \in [Call -> {"none", "ok", "ctx", "notConnected", "closed",
                          "notSent", "lost"}]
  /\ pump \in [Closer -> {"idle", "loop", "deliver", "closeCh", "close",
                          "closeConn", "unregister", "failPending", "ended"}]
  /\ held \in [ch : Owner, val : Owner]
  /\ pump["reader"] \in {"deliver", "closeCh"} => held.ch \in Call
  /\ agentGot \in SUBSET Message

Init ==
  /\ registered = TRUE /\ done = FALSE /\ connOpen = TRUE /\ link = TRUE
  /\ once = "new" /\ locked = FALSE
  /\ send = <<>> /\ fromAgent = <<>>
  /\ requestID = 0 /\ noise = 0
  /\ pending = {} /\ pendingNil = FALSE
  /\ pc = [c \in Call |-> "lookup"]
  /\ id = [c \in Call |-> 0]
  /\ expired = {} /\ chClosed = {} /\ replied = {} /\ agentGot = {}
  /\ buf = [c \in Call |-> NoCall] /\ got = [c \in Call |-> NoCall]
  /\ result = [c \in Call |-> "none"]
  /\ pump = [p \in Closer |-> IF p = "register" THEN "idle" ELSE "loop"]
  /\ held = Nothing
  /\ panicked = FALSE

-----------------------------------------------------------------------------
(* DispatchJob.                                                            *)
(*                                                                         *)
(* An operator with a comment "Fault:" is what a plausible slip would make *)
(* of the operator below it.  No action uses one; put in its place, it     *)
(* breaks one of the properties.                                           *)

Goto(c, label) == pc' = [pc EXCEPT ![c] = label]

\* Leave DispatchJob with an outcome, through its deferred cleanup or not.
Return(c, label, how) ==
  /\ Goto(c, label)
  /\ result' = [result EXCEPT ![c] = how]

\* The calls whose channel the map holds under key i.
Under(i) == {c \in pending : id[c] = i}

\* Fault: a send that drops the request when the channel is full.
PutLossy(m) == send' = IF Len(send) < SendCap THEN Append(send, m) ELSE send

\* agent.send <- m waits for room.
Put(m) == Len(send) < SendCap /\ send' = Append(send, m)

\* Fault: an increment that another one can overwrite.
NewIDRacy(c) ==
  /\ requestID' \in {requestID, requestID + 1}
  /\ id' = [id EXCEPT ![c] = requestID + 1]

\* atomic.AddUint64
NewID(c) ==
  /\ requestID' = requestID + 1
  /\ id' = [id EXCEPT ![c] = requestID + 1]

\* Fault: no deferred delete.
ForgetNever(c) == UNCHANGED pending

\* The deferred delete; on the nil map it is skipped.
Forget(c) ==
  pending' = IF pendingNil THEN pending ELSE pending \ Under(id[c])

\* h.mu.RLock
Lookup(c) ==
  /\ pc[c] = "lookup" /\ ~locked
  /\ IF registered THEN Goto(c, "nextID") /\ UNCHANGED result
                   ELSE Return(c, "returned", "notConnected")
  /\ UNCHANGED <<hubVars, chanVars, mapVars, pumpVars, agentVars, id, expired,
                 got, send, fromAgent>>

NextRequestID(c) ==
  /\ pc[c] = "nextID"
  /\ NewID(c)
  /\ Goto(c, "register")
  /\ UNCHANGED <<hubVars, chanVars, pumpVars, agentVars, expired, result, got,
                 send, pending, pendingNil, fromAgent>>

RegisterPending(c) ==
  /\ pc[c] = "register"
  /\ IF pendingNil
       THEN Return(c, "returned", "closed") /\ UNCHANGED pending
       ELSE /\ pending' = (pending \ Under(id[c])) \cup {c}
            /\ Goto(c, "enqueue")
            /\ UNCHANGED result
  /\ UNCHANGED <<hubVars, chanVars, pumpVars, agentVars, id, expired, got,
                 send, requestID, pendingNil, fromAgent>>

\* The select that hands the request to writePump: any ready case may win.
Enqueue(c) ==
  /\ pc[c] = "enqueue"
  /\ \/ /\ Put([kind |-> "request", id |-> id[c], call |-> c])
        /\ Goto(c, "await")
        /\ UNCHANGED result
     \/ c \in expired /\ Return(c, "cleanup", "ctx") /\ UNCHANGED send
     \/ done /\ Return(c, "cleanup", "notSent") /\ UNCHANGED send
  /\ UNCHANGED <<hubVars, chanVars, mapVars, pumpVars, agentVars, id, expired,
                 got, fromAgent>>

\* The select that waits for the response.
Await(c) ==
  /\ pc[c] = "await"
  /\ \/ /\ buf[c] # NoCall
        /\ got' = [got EXCEPT ![c] = buf[c]]
        /\ buf' = [buf EXCEPT ![c] = NoCall]
        /\ Return(c, "cleanup", "ok")
     \/ /\ buf[c] = NoCall /\ c \in chClosed
        /\ Return(c, "cleanup", "lost")
        /\ UNCHANGED <<got, buf>>
     \/ /\ c \in expired
        /\ Return(c, "cleanup", "ctx")
        /\ UNCHANGED <<got, buf>>
  /\ UNCHANGED <<hubVars, mapVars, pumpVars, agentVars, id, expired, chClosed,
                 send, fromAgent, panicked>>

\* Nobody looks at the context of the call any more.
Cleanup(c) ==
  /\ pc[c] = "cleanup"
  /\ Forget(c)
  /\ expired' = expired \ {c}
  /\ Goto(c, "returned")
  /\ UNCHANGED <<hubVars, chanVars, pumpVars, agentVars, id, result, got, send,
                 requestID, pendingNil, fromAgent>>

DispatchJob(c) ==
  \/ Lookup(c) \/ NextRequestID(c) \/ RegisterPending(c)
  \/ Enqueue(c) \/ Await(c) \/ Cleanup(c)

\* The deadline of the context passes, or the HTTP client goes away.  Only the
\* two selects look at the context: elsewhere it makes no difference yet.
Expire(c) ==
  /\ pc[c] \in {"enqueue", "await"} /\ c \notin expired
  /\ expired' = expired \cup {c}
  /\ UNCHANGED <<hubVars, chanVars, mapVars, pumpVars, agentVars, pc, id,
                 result, got, send, fromAgent>>

-----------------------------------------------------------------------------
(* The pumps.                                                              *)

Step(p, label) == pump' = [pump EXCEPT ![p] = label]

\* select { case c.send <- m: default: }
Offer(m) == send' = IF Len(send) < SendCap THEN Append(send, m) ELSE send

Receive == connOpen /\ fromAgent # <<>> /\ fromAgent' = Tail(fromAgent)

\* Fault: the channel stays in the map until the deferred delete.
ClaimLate(c) == UNCHANGED pending

\* The channel leaves the map before pendingMu is released.
Claim(c) == pending' = pending \ {c}

\* Fault: the channel is made without a buffer.
CanSendUnbuffered(c) == c \in chClosed \/ pc[c] = "await"

\* A send on the channel of call c does not block.
CanSend(c) == c \in chClosed \/ buf[c] = NoCall

\* A response to a pending call, or to none.
ReadResponse ==
  /\ pump["reader"] = "loop"
  /\ Receive
  /\ LET m == Head(fromAgent) IN
       /\ m.kind = "response"
       /\ \/ \E c \in Under(m.id) :
               /\ Claim(c)
               /\ held' = [ch |-> c, val |-> m.call]
               /\ Step("reader", "deliver")
          \/ Under(m.id) = {} /\ UNCHANGED <<pending, held, pump>>
  /\ UNCHANGED <<hubVars, callVars, chanVars, agentVars, send, requestID,
                 pendingNil>>

Deliver ==
  /\ pump["reader"] = "deliver"
  /\ CanSend(held.ch)
  /\ IF held.ch \in chClosed
       THEN panicked' = TRUE /\ UNCHANGED buf
       ELSE buf' = [buf EXCEPT ![held.ch] = held.val] /\ UNCHANGED panicked
  /\ Step("reader", "closeCh")
  /\ UNCHANGED <<hubVars, callVars, mapVars, agentVars, chClosed, send, held,
                 fromAgent>>

CloseChannel ==
  /\ pump["reader"] = "closeCh"
  /\ panicked' = (panicked \/ held.ch \in chClosed)
  /\ chClosed' = chClosed \cup {held.ch}
  /\ held' = Nothing
  /\ Step("reader", "loop")
  /\ UNCHANGED <<hubVars, callVars, mapVars, agentVars, buf, send, fromAgent>>

\* A request of the agent (submit_metric, or a method the hub does not know)
\* is answered if the send channel has room; anything else is logged.
ReadOther ==
  /\ pump["reader"] = "loop"
  /\ Receive
  /\ \/ Head(fromAgent).kind = "request" /\ Offer(Msg("other"))
     \/ Head(fromAgent).kind = "ignored" /\ UNCHANGED send
  /\ UNCHANGED <<hubVars, callVars, chanVars, mapVars, pumpVars, agentVars>>

\* ReadMessage, a ping or the write of a message fails, or writePump sees
\* done: the pump ends and its deferred Close runs.
PumpEnds(p) ==
  /\ pump[p] = "loop"
  /\ \/ ~connOpen \/ ~link
     \/ p = "writer" /\ done
  /\ \/ UNCHANGED send
     \/ p = "writer" /\ ~(connOpen /\ link) /\ send # <<>> /\ send' = Tail(send)
  /\ Step(p, "close")
  /\ UNCHANGED <<hubVars, callVars, chanVars, mapVars, agentVars, held,
                 fromAgent>>

\* writePump writes the next message; over a dead link it is lost unnoticed.
Write ==
  /\ pump["writer"] = "loop"
  /\ connOpen /\ send # <<>>
  /\ send' = Tail(send)
  /\ agentGot' = IF link /\ Head(send).kind = "request"
                   THEN agentGot \cup {Head(send)} ELSE agentGot
  /\ UNCHANGED <<hubVars, callVars, chanVars, mapVars, pumpVars, link,
                 replied, noise, fromAgent>>

-----------------------------------------------------------------------------
(* Close, run by a pump or by a register.                                  *)

\* Close returns; a register then gives up the lock.
CloseEnds(p) ==
  /\ Step(p, "ended")
  /\ locked' = (locked /\ p # "register")

\* closeOnce.Do lets one caller in; the others wait for it to be done.
CloseBegin(p) ==
  /\ pump[p] = "close"
  /\ \/ /\ once = "new"
        /\ once' = "running" /\ done' = TRUE
        /\ Step(p, "closeConn")
        /\ UNCHANGED locked
     \/ once = "done" /\ CloseEnds(p) /\ UNCHANGED <<once, done>>
  /\ UNCHANGED <<callVars, chanVars, mapVars, agentVars, registered, connOpen,
                 send, held, fromAgent>>

\* What is still on the wire will not be read.
CloseConn(p) ==
  /\ pump[p] = "closeConn"
  /\ connOpen' = FALSE /\ fromAgent' = <<>>
  /\ Step(p, "unregister")
  /\ UNCHANGED <<callVars, chanVars, mapVars, agentVars, registered, done,
                 once, locked, send, held>>

\* h.mu.Lock
Unregister(p) ==
  /\ pump[p] = "unregister" /\ ~locked
  /\ registered' = FALSE
  /\ Step(p, "failPending")
  /\ UNCHANGED <<callVars, chanVars, mapVars, agentVars, done, connOpen, once,
                 locked, send, held, fromAgent>>

\* Fault: the map is emptied and stays in use.
DropMapEmpty == pending' = {} /\ UNCHANGED pendingNil

\* c.pending = nil
DropMap == pending' = {} /\ pendingNil' = TRUE

\* Close every channel in the map and drop the map, under pendingMu.
FailPending(p) ==
  /\ pump[p] = "failPending"
  /\ panicked' = (panicked \/ pending \cap chClosed # {})
  /\ chClosed' = chClosed \cup pending
  /\ DropMap
  /\ once' = "done"
  /\ CloseEnds(p)
  /\ UNCHANGED <<callVars, agentVars, registered, done, connOpen, buf, send,
                 requestID, held, fromAgent>>

Close(p) == CloseBegin(p) \/ CloseConn(p) \/ Unregister(p) \/ FailPending(p)

ReadPump ==
  ReadResponse \/ Deliver \/ CloseChannel \/ ReadOther
  \/ PumpEnds("reader") \/ Close("reader")

WritePump == Write \/ PumpEnds("writer") \/ Close("writer")

-----------------------------------------------------------------------------
(* The rest of the hub, the network and the agent.                         *)

\* register finds this connection under the ID of another that connects, and
\* closes it before it gives up the lock.
Replace ==
  /\ registered /\ ~locked
  /\ locked' = TRUE
  /\ Step("register", "close")
  /\ UNCHANGED <<callVars, chanVars, mapVars, agentVars, registered, done,
                 connOpen, once, send, held, fromAgent>>

\* A connection of another agent is replaced.  Once this one has left the
\* registry, its Close does not need the lock any more.
ReplaceOther ==
  /\ registered /\ ~locked
  /\ locked' = TRUE
  /\ UNCHANGED <<callVars, chanVars, mapVars, pumpVars, agentVars, registered,
                 done, connOpen, once, send, fromAgent>>

\* SyncAgentSchedules and PushFailoverURLs: found in the registry, the
\* connection gets one more message if there is room.
PushMessage ==
  /\ registered /\ ~locked /\ noise < MaxNoise
  /\ noise' = noise + 1
  /\ Offer(Msg("other"))
  /\ UNCHANGED <<hubVars, callVars, chanVars, mapVars, pumpVars, link,
                 agentGot, replied, fromAgent>>

LinkDown ==
  /\ link /\ connOpen /\ link' = FALSE
  /\ UNCHANGED <<hubVars, callVars, chanVars, mapVars, pumpVars, agentGot,
                 replied, noise, send, fromAgent>>

\* The agent handles each message in a goroutine of its own and answers it
\* once, so answers come in any order.
AgentReply(m) ==
  /\ link /\ connOpen
  /\ m.call \notin replied
  /\ replied' = replied \cup {m.call}
  /\ fromAgent' = Append(fromAgent, [kind |-> "response", id |-> m.id,
                                     call |-> m.call])
  /\ UNCHANGED <<hubVars, callVars, chanVars, mapVars, pumpVars, link,
                 agentGot, noise, send>>

\* A metric submission, or the confirmation of a push.
AgentSend ==
  /\ link /\ connOpen /\ noise < MaxNoise
  /\ noise' = noise + 1
  /\ \E kind \in {"request", "ignored"} :
       fromAgent' = Append(fromAgent, Msg(kind))
  /\ UNCHANGED <<hubVars, callVars, chanVars, mapVars, pumpVars, link,
                 agentGot, replied, send>>

Next ==
  \/ \E c \in Call : DispatchJob(c) \/ Expire(c)
  \/ ReadPump \/ WritePump
  \/ Replace \/ ReplaceOther \/ Close("register")
  \/ PushMessage \/ LinkDown \/ AgentSend
  \/ \E m \in agentGot : AgentReply(m)

Spec == Init /\ [][Next]_vars

\* Every goroutine of the hub is scheduled; contexts and the network owe
\* nothing, and the agent answers only where a property says so.
Fairness ==
  /\ \A c \in Call : WF_vars(DispatchJob(c))
  /\ WF_vars(ReadPump) /\ WF_vars(WritePump) /\ WF_vars(Close("register"))

AgentAnswers == WF_vars(\E m \in agentGot : AgentReply(m))

FairSpec == Spec /\ Fairness /\ AgentAnswers

-----------------------------------------------------------------------------
(* The inductive invariant behind the safety properties.                   *)

Inside == {"enqueue", "await", "cleanup"}
Before == {"lookup", "nextID", "register"}

\* Each call that has a request ID has one of its own.
IDInv ==
  /\ \A c \in Call : id[c] <= requestID
  /\ \A c, d \in Call : id[c] = id[d] /\ id[c] # 0 => c = d
  /\ \A c \in Call : pc[c] \in {"lookup", "nextID"} => id[c] = 0
  /\ \A c \in Call : pc[c] \in Inside \cup {"register"} => id[c] # 0

Fresh(c) == c \notin chClosed /\ buf[c] = NoCall

\* A channel is in the map, or with readPump, or closed for ever.
ChannelInv ==
  /\ pendingNil => pending = {}
  /\ \A c \in pending : Fresh(c) /\ pc[c] \in Inside
  /\ \A c \in Call : pc[c] \in Before => c \notin pending /\ Fresh(c)
  /\ pump["reader"] = "deliver" => Fresh(held.ch)
  /\ pump["reader"] \in {"deliver", "closeCh"} =>
       /\ held.ch \notin pending \cup chClosed
       /\ pc[held.ch] \notin Before
  /\ ~panicked

\* The message m is about a call that may have been sent, under its own ID.
About(m) ==
  /\ m.call \in Call /\ m.id = id[m.call] /\ m.id # 0
  /\ pc[m.call] \in {"await", "cleanup", "returned"}
  /\ result[m.call] \in {"none", "ok", "ctx", "lost"}

\* A response stays with the call whose request it answers.
MessageInv ==
  /\ \A i \in 1 .. Len(send) : send[i].kind = "request" => About(send[i])
  /\ \A m \in agentGot : m.kind = "request" /\ About(m)
  /\ \A i \in 1 .. Len(fromAgent) : fromAgent[i].kind = "response" =>
       /\ About(fromAgent[i])
       /\ \E m \in agentGot : m.call = fromAgent[i].call
  /\ pump["reader"] = "deliver" =>
       held.val = held.ch /\ \E m \in agentGot : m.call = held.ch
  /\ \A c \in Call : buf[c] # NoCall =>
       buf[c] = c /\ \E m \in agentGot : m.call = c
  /\ \A c \in Call : result[c] = "ok" => got[c] = c
  /\ \A c \in Call : result[c] = "none" <=>
                       pc[c] \in Before \cup {"enqueue", "await"}

IInv == TypeOK /\ IDInv /\ ChannelInv /\ MessageInv

-----------------------------------------------------------------------------
(* Properties.                                                             *)

\* No interleaving of responses, time-outs and Close closes a call's channel
\* twice or sends on a closed one: handleIncomingMessage takes the channel
\* out of the map before it lets pendingMu go, so Close cannot find it.
NoPanic == ~panicked

\* The map holds the channels of calls that are still inside DispatchJob,
\* each under an ID of its own: nothing a returned call left behind is kept
\* for the life of the connection, and no call displaces another.
NoPendingLeak ==
  /\ \A c \in pending : pc[c] \in {"enqueue", "await", "cleanup"}
  /\ \A c, d \in pending : id[c] = id[d] => c = d

\* readPump never blocks on the channel of a call, not even of one whose
\* caller has given up: it would stop reading the connection.
ReaderNeverBlocks ==
  pump["reader"] = "deliver" => CanSend(held.ch)

\* What the outcome of a call tells its caller.
Status(c) ==
  CASE result[c] = "none"                                  -> "open"
    [] result[c] = "ok" /\ got[c] = c                      -> "answered"
    [] result[c] = "ok" /\ got[c] # c                      -> "misdelivered"
    [] result[c] \in {"notConnected", "closed", "notSent"} -> "rejected"
    [] result[c] \in {"ctx", "lost"}                       -> "unknown"

RPC == INSTANCE RPCCalls WITH
  status <- [c \in Call |-> Status(c)],
  ran    <- {m.call : m \in agentGot}

\* The connection implements RPCCalls: an answer is the answer to the call's
\* own request, a job reaches the agent at most once, and a call that reports
\* that its request was not sent is right for ever after.
ImplementsRPCCalls == RPC!Spec

\* Once Close has begun, every call inside DispatchJob returns without
\* waiting for its context, however it interleaves with Close.  The exception
\* is a registry lock that is held for good (the replacement of this or of
\* another connection): Close then does not get to the pending map, and a call
\* that waits for its answer does so until its context ends.
CloseReleasesCalls ==
  \A c \in Call :
    done /\ pc[c] # "lookup" ~>
      \/ pc[c] = "returned"
      \/ locked /\ pc[c] = "await" /\ c \notin expired

\* While the link lasts, a call whose context lives gets its answer, unless
\* its connection is replaced: no response can arrive before its channel is in
\* the map, and the answer of a registered agent does not wait for the lock.
AnsweredWhileAlive ==
  \A c \in Call :
    pc[c] = "enqueue" ~>
      \/ result[c] = "ok"
      \/ ~link \/ c \in expired \/ pump["register"] # "idle"
=============================================================================
