-------------------------- MODULE DispatchProxyProofs --------------------------
(***************************************************************************)
(* Proofs about DispatchProxy, for any hubs, whatever peers each of them   *)
(* knows, and however often the agent moves.                               *)
(***************************************************************************)
EXTENDS DispatchProxy, TLAPS

Others == Peers[Origin] \ {Origin}

\* The origin works alone, or waits for one peer it does not ask again.  Only
\* the origin looks at a reply.
ShapeInv ==
  /\ Len(stack) <= 2
  /\ stack # <<>> => /\ stack[1].hub = Origin /\ stack[1].proxy = TRUE
                     /\ stack[1].todo \subseteq Others
                     /\ reply # "none" => Len(stack) = 1 /\ stack[1].pc = "ask"
  /\ Len(stack) = 2 => /\ stack[1].pc = "ask"
                       /\ stack[2].proxy = FALSE /\ stack[2].todo = {}
                       /\ stack[2].hub \in Others \ stack[1].todo

\* When the job has run, no hub begins to send it again.
RunInv ==
  ~broke /\ executed # <<>> =>
    /\ Len(executed) = 1
    /\ stack # <<>> => /\ Len(stack) = 1 /\ stack[1].pc = "ask"
                       /\ reply = "ok" \/ expired

Asked == IF Len(stack) = 2 THEN {stack[2].hub} ELSE {}

\* An agent that stays is not at the hubs that have been looked at.
FoundInv ==
  moves = 0 /\ ~expired /\ reply # "ok" =>
    /\ stack # <<>> /\ stack[1].pc = "ask" =>
         live \notin ({Origin} \cup Others) \ (stack[1].todo \cup Asked)
    /\ Len(stack) = 2 /\ stack[2].pc = "ask" => live # stack[2].hub
    /\ stack = <<>> /\ reply = "notConnected" => live \notin {Origin} \cup Others

IInv == TypeOK /\ ShapeInv /\ RunInv /\ FoundInv

-----------------------------------------------------------------------------
(* The stack                                                               *)

LEMMA Types ==
  /\ Origin \in Hub /\ Others \subseteq Hub /\ Nil \notin Hub
  /\ \A h \in Hub : Peers[h] \subseteq Hub
  /\ MaxMove \in Nat
BY HubAssumption, MoveAssumption DEF Others

\* What becomes of a stack whose top returns, changes, or gets a frame above it.
LEMMA StackOps ==
  ASSUME NEW s \in Seq(Frame), s # <<>>, Len(s) <= 2, NEW f \in Frame
  PROVE  /\ Len(s) \in {1, 2} /\ s[1] \in Frame /\ s[Len(s)] \in Frame
         /\ LET r == SubSeq(s, 1, Len(s) - 1)
            IN /\ r \in Seq(Frame) /\ Len(r) = Len(s) - 1
               /\ Len(s) = 1 => r = <<>>
               /\ Len(s) = 2 => r # <<>> /\ r[1] = s[1]
               /\ Append(r, f) \in Seq(Frame) /\ Len(Append(r, f)) = Len(s)
               /\ Append(r, f)[Len(s)] = f /\ (Len(s) = 2 => Append(r, f)[1] = s[1])
         /\ LET e == [s EXCEPT ![Len(s)] = f]
            IN /\ e \in Seq(Frame) /\ Len(e) = Len(s) /\ e[Len(s)] = f
               /\ Len(s) = 2 => e[1] = s[1]
<1>0. Len(s) \in Nat /\ Len(s) # 0 /\ DOMAIN s = 1 .. Len(s)
  OBVIOUS
<1>1. Len(s) \in {1, 2} /\ DOMAIN s = 1 .. Len(s)
  BY <1>0
<1>2. s[1] \in Frame /\ s[Len(s)] \in Frame
  BY <1>1
<1> DEFINE r == SubSeq(s, 1, Len(s) - 1)
           e == [s EXCEPT ![Len(s)] = f]
<1>3. r \in Seq(Frame) /\ Len(r) = Len(s) - 1 /\ (Len(s) = 2 => r[1] = s[1])
  BY <1>1
<1>4. (Len(s) = 1 => r = <<>>) /\ (Len(s) = 2 => r # <<>>)
  BY <1>1, <1>3
<1>5. /\ Append(r, f) \in Seq(Frame) /\ Len(Append(r, f)) = Len(s)
      /\ Append(r, f)[Len(s)] = f /\ (Len(s) = 2 => Append(r, f)[1] = s[1])
  <2>1. Len(r) \in Nat /\ Len(r) + 1 = Len(s)
    BY <1>1, <1>3
  <2> HIDE DEF r
  <2>2. /\ Append(r, f) \in Seq(Frame) /\ Len(Append(r, f)) = Len(r) + 1
        /\ Append(r, f)[Len(r) + 1] = f
    BY <1>3, <2>1
  <2>3. \A i \in 1 .. Len(r) : Append(r, f)[i] = r[i]
    BY <1>3, <2>1
  <2>4. Len(s) = 2 => 1 \in 1 .. Len(r)
    BY <2>1
  <2> QED
    BY <1>3, <2>1, <2>2, <2>3, <2>4
<1>6. /\ e \in Seq(Frame) /\ Len(e) = Len(s) /\ e[Len(s)] = f
      /\ Len(s) = 2 => e[1] = s[1]
  BY <1>1
<1> QED
  BY <1>1, <1>2, <1>3, <1>4, <1>5, <1>6

\* The top frame, and what is left when it returns.
LEMMA TopOf ==
  ASSUME TypeOK, ShapeInv, stack # <<>>
  PROVE  /\ Len(stack) \in {1, 2} /\ Top \in Frame /\ stack[1] \in Frame
         /\ Rest \in Seq(Frame) /\ Len(Rest) = Len(stack) - 1
         /\ Len(stack) = 1 => Top = stack[1] /\ Rest = <<>>
         /\ Len(stack) = 2 => Top = stack[2] /\ Rest # <<>> /\ Rest[1] = stack[1]
<1>1. stack \in Seq(Frame) /\ Len(stack) <= 2
  BY DEF TypeOK, ShapeInv
<1> DEFINE f == NewFrame(Origin, TRUE)
<1>2. f \in Frame
  BY Types DEF NewFrame, Frame
<1> HIDE DEF f
<1>3. /\ Len(stack) \in {1, 2} /\ stack[1] \in Frame /\ stack[Len(stack)] \in Frame
      /\ Rest \in Seq(Frame) /\ Len(Rest) = Len(stack) - 1
      /\ Len(stack) = 1 => Rest = <<>>
      /\ Len(stack) = 2 => Rest # <<>> /\ Rest[1] = stack[1]
  BY <1>1, <1>2, StackOps DEF Rest
<1> QED
  BY <1>3 DEF Top

-----------------------------------------------------------------------------
(* Steps                                                                   *)

LEMMA InitInv == Init => IInv
<1> SUFFICES ASSUME Init PROVE IInv
  OBVIOUS
<1>1. /\ NewFrame(Origin, TRUE) \in Frame /\ NewFrame(Origin, TRUE).hub = Origin
      /\ NewFrame(Origin, TRUE).proxy = TRUE /\ NewFrame(Origin, TRUE).todo = {}
      /\ NewFrame(Origin, TRUE).pc = "lookup"
  BY Types DEF NewFrame, Frame
<1>2. /\ stack \in Seq(Frame) /\ stack # <<>> /\ Len(stack) = 1
      /\ stack[1] = NewFrame(Origin, TRUE)
  <2> DEFINE f == NewFrame(Origin, TRUE)
  <2>1. f \in Frame /\ stack = <<f>>
    BY <1>1 DEF Init
  <2> HIDE DEF f
  <2>2. stack \in Seq(Frame) /\ stack # <<>> /\ Len(stack) = 1 /\ stack[1] = f
    BY <2>1
  <2> QED
    BY <2>2 DEF f
<1>3. TypeOK
  <2>1. executed \in Seq(Hub) /\ moves \in 0 .. MaxMove
    BY Types DEF Init
  <2> QED
    BY <1>2, <2>1 DEF Init, TypeOK
<1>4. ShapeInv
  <2>1. reply = "none" /\ Len(stack) <= 2 /\ Len(stack) # 2
    BY <1>2 DEF Init
  <2>2. /\ stack[1].hub = Origin /\ stack[1].proxy = TRUE
        /\ stack[1].todo \subseteq Others
    BY <1>1, <1>2
  <2> QED
    BY <2>1, <2>2 DEF ShapeInv
<1>5. RunInv
  BY DEF Init, RunInv
<1>6. FoundInv
  BY <1>1, <1>2 DEF Init, FoundInv
<1> QED
  BY <1>3, <1>4, <1>5, <1>6 DEF IInv

\* The top frame returns, and the job has run if it says so.
LEMMA ReturnStep ==
  ASSUME IInv, NEW outcome \in {"ok", "notConnected", "failed"},
         stack # <<>>, reply = "none", Return(outcome), TypeOK', RunInv',
         UNCHANGED <<moves, expired>>, live' \in {live, Nil},
         outcome # "ok" /\ ~expired => live' # Top.hub,
         outcome = "notConnected" => Top.pc = "ask" /\ Top.todo = {}
  PROVE  IInv'
<1>0. TypeOK /\ ShapeInv /\ FoundInv
  BY DEF IInv
<1>1. /\ Len(stack) \in {1, 2} /\ Top \in Frame /\ stack[1] \in Frame
      /\ stack' \in Seq(Frame) /\ Len(stack') = Len(stack) - 1
      /\ Len(stack) = 1 => Top = stack[1] /\ stack' = <<>>
      /\ Len(stack) = 2 => Top = stack[2] /\ stack' # <<>> /\ stack'[1] = stack[1]
      /\ reply' = outcome
  BY <1>0, TopOf DEF Return
<1>2. Nil \notin Hub /\ Origin \in Hub /\ Others \subseteq Hub
  BY Types
<1>3. CASE Len(stack) = 1
  <2>1. ShapeInv'
    BY <1>1, <1>3 DEF ShapeInv
  <2>2. FoundInv'
    <3>1. SUFFICES ASSUME moves = 0, ~expired, outcome = "notConnected"
                   PROVE  live' \notin {Origin} \cup Others
      BY <1>1, <1>3 DEF FoundInv
    <3>2. stack[1].pc = "ask" /\ stack[1].todo = {}
      BY <1>1, <1>3, <3>1
    <3>3. live \notin {Origin} \cup Others
      BY <1>0, <1>3, <3>1, <3>2 DEF FoundInv, Asked
    <3> QED
      BY <1>2, <3>3
  <2> QED
    BY <2>1, <2>2 DEF IInv
<1>4. CASE Len(stack) = 2
  <2>0. Len(stack') = 1
    BY <1>1, <1>4
  <2>1. ShapeInv'
    BY <1>0, <1>1, <1>4, <2>0 DEF ShapeInv
  <2>2. FoundInv'
    <3>1. SUFFICES ASSUME moves = 0, ~expired, outcome # "ok"
                   PROVE  live' \notin ({Origin} \cup Others) \ stack[1].todo
      BY <1>1, <1>4, <2>0 DEF FoundInv, Asked
    <3>2. live \notin ({Origin} \cup Others) \ (stack[1].todo \cup {stack[2].hub})
      BY <1>0, <1>1, <1>4, <3>1 DEF FoundInv, Asked, ShapeInv
    <3>3. live' # stack[2].hub
      BY <1>1, <1>4, <3>1
    <3> QED
      BY <1>2, <3>2, <3>3
  <2> QED
    BY <2>1, <2>2 DEF IInv
<1> QED
  BY <1>1, <1>3, <1>4

LEMMA LookupStep ==
  ASSUME IInv, Lookup
  PROVE  IInv'
<1>0. TypeOK /\ ShapeInv /\ RunInv /\ FoundInv
  BY DEF IInv
<1>1. /\ stack # <<>> /\ reply = "none" /\ Top.pc = "lookup"
      /\ UNCHANGED <<at, live, broke, moves, reply, expired, executed>>
  BY DEF Lookup, Works, agentVars
<1>2. /\ Len(stack) \in {1, 2} /\ Top \in Frame /\ stack[1] \in Frame
      /\ Len(stack) = 1 => Top = stack[1]
      /\ Len(stack) = 2 => Top = stack[2]
  BY <1>0, <1>1, TopOf
<1>3. PICK f : /\ stack' = [stack EXCEPT ![Len(stack)] = f]
               /\ f = IF Top.hub \in at THEN [Top EXCEPT !.pc = "send"]
                      ELSE [Top EXCEPT !.pc = "ask",
                                       !.todo = IF Top.proxy
                                                  THEN Peers[Top.hub] \ {Top.hub}
                                                  ELSE {}]
  BY DEF Lookup
<1>4. /\ f \in Frame /\ f.hub = Top.hub /\ f.proxy = Top.proxy
      /\ f.pc # "ask" => f.todo = Top.todo
      /\ f.pc = "ask" => Top.hub \notin at /\
           f.todo = IF Top.proxy THEN Peers[Top.hub] \ {Top.hub} ELSE {}
  BY <1>2, <1>3, Types DEF Frame
<1>5. /\ stack' \in Seq(Frame) /\ Len(stack') = Len(stack) /\ stack' # <<>>
      /\ stack'[Len(stack)] = f /\ (Len(stack) = 2 => stack'[1] = stack[1])
  <2>1. stack \in Seq(Frame) /\ Len(stack) <= 2
    BY <1>0 DEF TypeOK, ShapeInv
  <2>2. /\ stack' \in Seq(Frame) /\ Len(stack') = Len(stack)
        /\ stack'[Len(stack)] = f /\ (Len(stack) = 2 => stack'[1] = stack[1])
    BY <1>1, <1>3, <1>4, <2>1, StackOps
  <2> QED
    BY <1>2, <2>2
<1>6. TypeOK'
  BY <1>0, <1>1, <1>5 DEF TypeOK
<1>7. ShapeInv'
  BY <1>0, <1>1, <1>2, <1>4, <1>5 DEF ShapeInv, Others
<1>8. RunInv'
  BY <1>0, <1>1, <1>2, <1>5 DEF RunInv
<1>9. FoundInv'
  <2>1. f.pc = "ask" => live # Top.hub
    BY <1>0, <1>4, Types DEF TypeOK, Frame
  <2>2. CASE Len(stack) = 1
    BY <1>0, <1>1, <1>2, <1>4, <1>5, <2>1, <2>2 DEF FoundInv, Asked, ShapeInv, Others
  <2>3. CASE Len(stack) = 2
    BY <1>0, <1>1, <1>2, <1>4, <1>5, <2>1, <2>3 DEF FoundInv, Asked, ShapeInv
  <2> QED
    BY <1>2, <2>2, <2>3
<1> QED
  BY <1>6, <1>7, <1>8, <1>9 DEF IInv

LEMMA SendStep ==
  ASSUME IInv, Answered \/ ResponseLost \/ NotSent
  PROVE  IInv'
<1>0. TypeOK /\ ShapeInv /\ RunInv /\ FoundInv
  BY DEF IInv
<1>1. /\ stack # <<>> /\ reply = "none" /\ Top.pc = "send"
      /\ UNCHANGED <<at, moves, expired>> /\ live' \in {live, Nil}
  BY DEF Answered, ResponseLost, NotSent, Works, agentVars
<1>2. /\ Len(stack) \in {1, 2} /\ Top \in Frame /\ stack[1] \in Frame
      /\ Rest \in Seq(Frame)
      /\ Len(stack) = 1 => Top = stack[1] /\ Rest = <<>>
      /\ Len(stack) = 2 => Top = stack[2] /\ Len(Rest) = 1 /\ Rest[1] = stack[1]
  <2>1. Len(Rest) = Len(stack) - 1
    BY <1>0, <1>1, TopOf
  <2>2. Len(stack) = 2 => Len(Rest) = 1
    BY <2>1
  <2> QED
    BY <1>0, <1>1, <2>2, TopOf
<1>3. PICK outcome \in {"ok", "failed"} :
        /\ Return(outcome)
        /\ outcome = "failed" /\ ~expired => live' # Top.hub
        /\ executed' \in {executed, Append(executed, Top.hub)}
        /\ executed' # executed => outcome = "ok" \/ expired \/ broke'
        /\ broke' # broke => broke'
        /\ broke' \in BOOLEAN
  <2>1. Top.hub \in Hub /\ Nil \notin Hub
    BY <1>2, Types DEF Frame
  <2>2. CASE Answered
    BY <1>0, <2>2 DEF Answered, agentVars, TypeOK
  <2>3. CASE ResponseLost
    BY <1>0, <2>1, <2>3 DEF ResponseLost, TypeOK
  <2>4. CASE NotSent
    BY <1>0, <2>4 DEF NotSent, agentVars, TypeOK
  <2> QED
    BY <2>2, <2>3, <2>4
<1>4. executed' \in Seq(Hub)
  <2>1. Top.hub \in Hub /\ executed \in Seq(Hub)
    BY <1>0, <1>2 DEF TypeOK, Frame
  <2>2. Append(executed, Top.hub) \in Seq(Hub)
    BY <2>1
  <2> QED
    BY <1>3, <2>1, <2>2
<1>5. TypeOK'
  BY <1>0, <1>1, <1>2, <1>3, <1>4 DEF TypeOK, Return
<1>6. RunInv'
  <2>1. SUFFICES ASSUME ~broke', executed' # <<>>
                 PROVE  /\ Len(executed') = 1
                        /\ stack' # <<>> => /\ Len(stack') = 1
                                            /\ stack'[1].pc = "ask"
                                            /\ reply' = "ok" \/ expired'
    BY DEF RunInv
  <2>2. ~broke
    BY <1>0, <1>3, <2>1 DEF TypeOK
  <2>3. executed = <<>>
    <3>1. ASSUME executed # <<>> PROVE FALSE
      BY <1>0, <1>1, <1>2, <2>2, <3>1 DEF RunInv
    <3> QED
      BY <3>1
  <2>4. Len(executed') = 1 /\ executed' # executed
    BY <1>2, <1>3, <2>1, <2>3
  <2>5. reply' = "ok" \/ expired'
    BY <1>1, <1>3, <2>1, <2>4 DEF Return
  <2>6. stack' # <<>> => Len(stack') = 1 /\ stack'[1].pc = "ask"
    BY <1>0, <1>2, <1>3 DEF Return, ShapeInv
  <2> QED
    BY <2>4, <2>5, <2>6
<1>7. Top.pc # "ask"
  BY <1>1
<1> QED
  BY <1>1, <1>3, <1>5, <1>6, <1>7, ReturnStep

LEMMA AskStep ==
  ASSUME IInv, Ask
  PROVE  IInv'
<1>0. TypeOK /\ ShapeInv /\ RunInv /\ FoundInv
  BY DEF IInv
<1>1. /\ stack # <<>> /\ reply = "none" /\ Top.pc = "ask"
      /\ UNCHANGED <<at, live, broke, moves, reply, expired, executed>>
  BY DEF Ask, Works, agentVars
<1>2. PICK p \in Top.todo :
        LET waiting == Append(Rest, [Top EXCEPT !.todo = @ \ {p}])
        IN stack' = IF expired THEN waiting ELSE Append(waiting, NewFrame(p, MayForward))
  BY DEF Ask
<1>3. Len(stack) = 1 /\ Top = stack[1] /\ Rest = <<>> /\ stack[1] \in Frame
  <2>1. Top.todo # {}
    BY <1>2
  <2> QED
    BY <1>0, <1>1, <2>1, TopOf DEF ShapeInv
<1>4. p \in Others /\ p \in Hub
  BY <1>0, <1>1, <1>2, <1>3, Types DEF ShapeInv
<1> DEFINE f == [stack[1] EXCEPT !.todo = @ \ {p}]
           g == NewFrame(p, FALSE)
<1>5. /\ f \in Frame /\ f.hub = stack[1].hub /\ f.proxy = stack[1].proxy
      /\ f.pc = stack[1].pc /\ f.todo = stack[1].todo \ {p}
  BY <1>3 DEF Frame
<1>6. /\ g \in Frame /\ g.hub = p /\ g.proxy = FALSE /\ g.todo = {} /\ g.pc = "lookup"
  BY <1>4 DEF NewFrame, Frame
<1>7. stack' = IF expired THEN Append(<<>>, f) ELSE Append(Append(<<>>, f), g)
  BY <1>2, <1>3 DEF MayForward
<1> HIDE DEF f, g
<1>8. /\ stack' \in Seq(Frame) /\ stack' # <<>> /\ stack'[1] = f
      /\ expired => Len(stack') = 1
      /\ ~expired => Len(stack') = 2 /\ stack'[2] = g
  BY <1>5, <1>6, <1>7
<1>9. TypeOK'
  BY <1>0, <1>1, <1>8 DEF TypeOK
<1>10. ShapeInv'
  <2>1. /\ f.hub = Origin /\ f.proxy = TRUE /\ f.todo \subseteq Others
        /\ f.pc = "ask" /\ p \notin f.todo
    BY <1>0, <1>1, <1>3, <1>5 DEF ShapeInv
  <2>2. reply' = "none"
    BY <1>1
  <2>4. Len(stack') <= 2
    <3>1. \A n : n = 1 \/ n = 2 => n <= 2
      OBVIOUS
    <3>2. Len(stack') = 1 \/ Len(stack') = 2
      BY <1>8
    <3> QED
      BY <3>1, <3>2, Zenon
  <2>3. Len(stack') = 2 => stack'[2] = g
    BY <1>8
  <2> QED
    BY <1>4, <1>6, <1>8, <2>1, <2>2, <2>3, <2>4 DEF ShapeInv
<1>11. RunInv'
  BY <1>0, <1>1, <1>3, <1>5, <1>8 DEF RunInv
<1>12. FoundInv'
  BY <1>0, <1>1, <1>3, <1>5, <1>6, <1>8 DEF FoundInv, Asked
<1> QED
  BY <1>9, <1>10, <1>11, <1>12 DEF IInv

LEMMA PeerRepliedStep ==
  ASSUME IInv, PeerReplied
  PROVE  IInv'
<1>0. TypeOK /\ ShapeInv /\ RunInv /\ FoundInv
  BY DEF IInv
<1>1. /\ stack # <<>> /\ reply # "none" /\ Len(stack) = 1 /\ stack[1].pc = "ask"
      /\ UNCHANGED <<at, live, broke, moves, expired, executed>>
  BY <1>0 DEF PeerReplied, ShapeInv, agentVars
<1>2. CASE reply = "ok"
  <2>1. stack' = <<>> /\ reply' = "ok"
    BY <1>0, <1>1, <1>2, TopOf DEF PeerReplied, Return
  <2>2. TypeOK' /\ ShapeInv' /\ FoundInv'
    BY <1>0, <1>1, <2>1 DEF TypeOK, ShapeInv, FoundInv
  <2>3. RunInv'
    BY <1>0, <1>1, <2>1 DEF RunInv
  <2> QED
    BY <2>2, <2>3 DEF IInv
<1>3. CASE reply # "ok"
  <2>1. reply' = "none" /\ UNCHANGED stack
    BY <1>3 DEF PeerReplied
  <2> QED
    BY <1>0, <1>1, <1>3, <2>1 DEF IInv, TypeOK, ShapeInv, RunInv, FoundInv, Asked
<1> QED
  BY <1>2, <1>3

LEMMA NoPeerLeftStep ==
  ASSUME IInv, NoPeerLeft
  PROVE  IInv'
<1>0. TypeOK /\ ShapeInv /\ RunInv /\ FoundInv
  BY DEF IInv
<1>1. /\ stack # <<>> /\ reply = "none" /\ Top.pc = "ask" /\ Top.todo = {}
      /\ Return("notConnected")
      /\ UNCHANGED <<at, live, broke, moves, expired, executed>>
  BY DEF NoPeerLeft, Works, agentVars
<1>2. /\ Len(stack) \in {1, 2} /\ Rest \in Seq(Frame)
      /\ Len(stack) = 1 => Top = stack[1] /\ Rest = <<>>
      /\ Len(stack) = 2 => Top = stack[2] /\ Len(Rest) = 1 /\ Rest[1] = stack[1]
  <2>1. Len(Rest) = Len(stack) - 1
    BY <1>0, <1>1, TopOf
  <2>2. Len(stack) = 2 => Len(Rest) = 1
    BY <2>1
  <2> QED
    BY <1>0, <1>1, <2>2, TopOf
<1>3. TypeOK'
  BY <1>0, <1>1, <1>2 DEF TypeOK, Return
<1>4. RunInv'
  BY <1>0, <1>1, <1>2 DEF RunInv, Return
<1>5. ~expired /\ moves = 0 => live # Top.hub
  <2>1. CASE Len(stack) = 1
    BY <1>0, <1>1, <1>2, <2>1 DEF FoundInv, Asked, ShapeInv
  <2>2. CASE Len(stack) = 2
    BY <1>0, <1>1, <1>2, <2>2 DEF FoundInv
  <2> QED
    BY <1>2, <2>1, <2>2
<1>6. CASE moves # 0
  <2>1. ShapeInv' /\ FoundInv'
    BY <1>0, <1>1, <1>2, <1>6 DEF ShapeInv, FoundInv, Return
  <2> QED
    BY <1>3, <1>4, <2>1 DEF IInv
<1>7. CASE moves = 0
  BY <1>1, <1>3, <1>4, <1>5, <1>7, ReturnStep
<1> QED
  BY <1>6, <1>7

LEMMA OutsideStep ==
  ASSUME IInv, Expire \/ Move \/ (\E h \in Hub : Unregister(h))
  PROVE  IInv'
<1>0. TypeOK /\ ShapeInv /\ RunInv /\ FoundInv
  BY DEF IInv
<1>1. UNCHANGED <<stack, reply, executed, broke>>
  BY DEF Expire, Move, Unregister, agentVars
<1>2. ShapeInv'
  BY <1>0, <1>1 DEF ShapeInv
<1>3. RunInv'
  BY <1>0, <1>1 DEF RunInv, Expire, Move, Unregister
<1>4. TypeOK'
  <2>1. CASE Expire
    BY <1>0, <2>1 DEF Expire, TypeOK, agentVars
  <2>2. CASE Move
    BY <1>0, <2>2, Types DEF Move, TypeOK
  <2>3. ASSUME NEW h \in Hub, Unregister(h) PROVE TypeOK'
    BY <1>0, <2>3 DEF Unregister, TypeOK
  <2> QED
    BY <2>1, <2>2, <2>3
<1>5. FoundInv'
  <2>1. CASE Expire
    BY <2>1 DEF Expire, FoundInv
  <2>2. CASE Move
    BY <1>0, <2>2 DEF Move, FoundInv, TypeOK
  <2>3. ASSUME NEW h \in Hub, Unregister(h) PROVE FoundInv'
    BY <1>0, <2>3 DEF Unregister, FoundInv, Asked
  <2> QED
    BY <2>1, <2>2, <2>3
<1> QED
  BY <1>2, <1>3, <1>4, <1>5 DEF IInv

-----------------------------------------------------------------------------
\* The inductive invariant holds in every reachable state.
THEOREM Invariant == Spec => []IInv
<1>1. IInv /\ [Next]_vars => IInv'
  <2> SUFFICES ASSUME IInv, [Next]_vars PROVE IInv'
    OBVIOUS
  <2>1. CASE UNCHANGED vars
    BY <2>1 DEF vars, agentVars, IInv, TypeOK, ShapeInv, RunInv, FoundInv, Asked
  <2>2. CASE DispatchJob
    BY <2>2, LookupStep, SendStep, AskStep, PeerRepliedStep, NoPeerLeftStep
    DEF DispatchJob
  <2>3. CASE Expire \/ Move \/ (\E h \in Hub : Unregister(h))
    BY <2>3, OutsideStep
  <2> QED
    BY <2>1, <2>2, <2>3 DEF Next
<1> QED
  BY <1>1, InitInv, PTL DEF Spec

\* Every variable keeps its type.
THEOREM TypeCorrect == Spec => []TypeOK
<1>1. IInv => TypeOK
  BY DEF IInv
<1> QED
  BY <1>1, Invariant, PTL

\* In any mesh a forwarded dispatch is not forwarded again.
THEOREM NoLoop == Spec => []OneHop
<1>1. IInv => OneHop
  BY DEF IInv, ShapeInv, OneHop, Others
<1> QED
  BY <1>1, Invariant, PTL

\* The job of one dispatch runs once, however many hubs hold a connection of
\* the agent and however often it moves, unless a connection breaks under it.
THEOREM OneRun == Spec => []RunsOnce
<1>1. IInv => RunsOnce
  <2> SUFFICES ASSUME IInv, ~broke PROVE Len(executed) <= 1
    BY DEF RunsOnce
  <2>1. CASE executed = <<>>
    BY <2>1
  <2>2. CASE executed # <<>>
    <3>1. Len(executed) = 1
      BY <2>2 DEF IInv, RunInv
    <3> QED
      BY <3>1
  <2> QED
    BY <2>1, <2>2
<1> QED
  BY <1>1, Invariant, PTL

\* An agent that stays at a hub which can be asked in time is never reported
\* as not connected.
THEOREM TrulyNotConnected == Spec => []NotConnectedIsTrue
<1>1. IInv => NotConnectedIsTrue
  BY DEF IInv, FoundInv, NotConnectedIsTrue, Others
<1> QED
  BY <1>1, Invariant, PTL
=============================================================================
