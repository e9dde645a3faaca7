--------------------------- MODULE AgentJobsProofs ---------------------------
(***************************************************************************)
(* Proofs about AgentJobs, for any number of jobs, any messages, commands, *)
(* limits and numbers of machines.                                         *)
(***************************************************************************)
EXTENDS AgentJobs, SequenceTheorems, FiniteSetTheorems, WellFoundedInduction, TLAPS

\* A job that runs has at most its context's time left, one that has ended at
\* most the time of a write.
TimesInv ==
  \A j \in Job : /\ pc[j] = "running" => left[j] <= Longest
                 /\ pc[j] = "ended"   => left[j] <= WriteWait

\* The jobs that are waited for were all there when the connection broke, and
\* while the time waited is counted they all come nearer to their deadlines:
\* the time waited and the time left make up no more than they had then.
HeldInv ==
  /\ link = "up" => held = 0
  /\ \A j \in Job : link = "down" /\ origin[j] = "hub" =>
       /\ pc[j] = "running" => held + left[j] <= Longest
       /\ pc[j] = "ended"   => held + left[j] <= Longest + WriteWait
  /\ held <= Longest + WriteWait

IInv == TypeOK /\ TimesInv /\ HeldInv

\* A command of a job has failed only if the job has ended and its result
\* says so.
HurtInv ==
  /\ hurt = [j \in Job |-> hurt[j]] /\ out = [j \in Job |-> out[j]]
  /\ \A j \in Job : pc[j] # "ended" => hurt[j] = FALSE
  /\ \A j \in Job : pc[j] = "ended" /\ hurt[j] # FALSE =>
                      out[j].code # "ok" \/ out[j].exit # 0

-----------------------------------------------------------------------------
(* Parameters                                                              *)

LEMMA SecondsNat ==
  ASSUME NEW n \in Int, NEW f \in Family
  PROVE  Seconds(n, f) \in Nat
BY TimesAssumption DEF Seconds, Positive

\* No job is started with a context that lasts longer than Longest.
LEMMA DeadlineBound ==
  ASSUME NEW j \in Job, NEW m \in Input[j], Runnable(m), Starts(m)
  PROVE  Deadline(m) \in Nat /\ Deadline(m) <= Longest
<1>1. CASE m.method \in BuiltIn
  <2> DEFINE f == FamilyOf(m.method)
  <2>1. f \in Family
    BY DEF FamilyOf, Family
  <2>2. m.params.timeout \in Int
    BY <1>1, InputAssumption DEF Starts
  <2>3. Deadline(m) = Seconds(m.params.timeout, f)
    BY <1>1 DEF Deadline
  <2>4. Seconds(m.params.timeout, f) <= Limit[f]
    BY <1>1 DEF Starts, Accepts, InTime
  <2>5. Limit[f] \in Nat /\ Limit[f] <= Longest /\ Longest \in Nat
    BY <2>1, TimesAssumption, LongestAssumption
  <2> HIDE DEF f
  <2>6. Seconds(m.params.timeout, f) \in Nat
    BY <2>1, <2>2, SecondsNat
  <2> QED
    BY <2>3, <2>4, <2>5, <2>6
<1>2. CASE m.method \notin BuiltIn
  <2>1. m.method \in DOMAIN Command
    BY <1>2 DEF Runnable
  <2>2. Deadline(m) \in {0, Time(m.method)}
    BY <1>2 DEF Deadline
  <2> QED
    BY <2>1, <2>2, LongestAssumption
<1> QED
  BY <1>1, <1>2

-----------------------------------------------------------------------------
(* The kinds of step                                                       *)

Waits == Longest \in Nat /\ WriteWait \in Nat

LEMMA WaitsFact == Waits
BY LongestAssumption DEF Waits

\* Job j ends; what the connection does stays.
LEMMA EndStep ==
  ASSUME IInv, NEW j \in Job, NEW o \in {"hub", "task"}, NEW result,
         End(j, o, result), UNCHANGED <<link, held, stopped>>,
         \/ /\ pc[j] = "idle" /\ (o = "hub" => link = "up")
            /\ origin' = [origin EXCEPT ![j] = o]
         \/ pc[j] = "running" /\ o = origin[j] /\ UNCHANGED origin
  PROVE  IInv'
<1>0. TypeOK /\ TimesInv /\ HeldInv /\ Waits
  BY WaitsFact DEF IInv
<1>1. /\ pc'[j] = "ended" /\ left'[j] \in {0, WriteWait} /\ origin'[j] = o
      /\ \A k \in Job \ {j} : /\ pc'[k] = pc[k] /\ left'[k] = left[k]
                              /\ origin'[k] = origin[k]
  BY <1>0 DEF End, TypeOK
<1>2. TypeOK'
  BY <1>0 DEF End, TypeOK, Waits
<1>3. TimesInv'
  BY <1>0, <1>1 DEF TimesInv, Waits
<1>4. ASSUME link = "down", o = "hub" PROVE held + left'[j] <= Longest + WriteWait
  <2>1. pc[j] = "running" /\ origin[j] = "hub"
    BY <1>4
  <2>2. held + left[j] <= Longest /\ left[j] \in Nat /\ held \in Nat
    BY <1>0, <1>4, <2>1 DEF HeldInv, TypeOK
  <2>3. held <= Longest
    BY <1>0, <2>2 DEF Waits
  <2> QED
    BY <1>0, <1>1, <2>2, <2>3 DEF Waits
<1>5. HeldInv'
  BY <1>0, <1>1, <1>4 DEF HeldInv
<1> QED
  BY <1>2, <1>3, <1>5 DEF IInv

LEMMA ArrivalStep ==
  ASSUME IInv, NEW j \in Job, NEW m \in Input[j], Arrival(j, m)
  PROVE  IInv'
<1>1. CASE Malformed(j, m)
  BY <1>1, EndStep DEF Malformed, Arrives
<1>2. CASE ListArrives(j, m)
  BY <1>2, EndStep DEF ListArrives, Arrives
<1>3. CASE UnknownMethod(j, m)
  BY <1>3, EndStep DEF UnknownMethod, Arrives
<1>4. ASSUME NEW o \in {"hub", "task"}, Refused(j, o, m) PROVE IInv'
  BY <1>4, EndStep DEF Refused, Arrives
<1>5. ASSUME NEW o \in {"hub", "task"}, Launch(j, o, m) PROVE IInv'
  <2>0. TypeOK /\ TimesInv /\ HeldInv /\ Waits
    BY WaitsFact DEF IInv
  <2>1. Deadline(m) \in Nat /\ Deadline(m) <= Longest
    BY <1>5, DeadlineBound DEF Launch
  <2>2. /\ pc'[j] = "running" /\ left'[j] = Deadline(m) /\ origin'[j] = o
        /\ \A k \in Job \ {j} : /\ pc'[k] = pc[k] /\ left'[k] = left[k]
                                /\ origin'[k] = origin[k]
        /\ UNCHANGED <<link, held, stopped>> /\ (o = "hub" => link = "up")
    BY <1>5, <2>0 DEF Launch, Arrives, TypeOK
  <2>3. TypeOK'
    BY <1>5, <2>0, <2>1 DEF Launch, Arrives, TypeOK
  <2>4. TimesInv'
    BY <2>0, <2>1, <2>2 DEF TimesInv
  <2>5. HeldInv'
    BY <2>0, <2>2 DEF HeldInv
  <2> QED
    BY <2>3, <2>4, <2>5 DEF IInv
<1> QED
  BY <1>1, <1>2, <1>3, <1>4, <1>5 DEF Arrival

\* A step of j that leaves the job running leaves its deadline too.
LEMMA SameTimes ==
  ASSUME IInv, UNCHANGED <<pc, origin, left, link, held, stopped>>
  PROVE  IInv'
BY DEF IInv, TypeOK, TimesInv, HeldInv, Waited

LEMMA CommandStep ==
  ASSUME IInv, NEW j \in Job,
         \/ NetCommandEnds(j) \/ FileReadEnds(j) \/ CustomCommandEnds(j)
         \/ Found(j) \/ BatchTold(j) \/ HardwareTold(j) \/ CommandFails(j)
  PROVE  IInv'
<1>1. pc[j] = "running" /\ origin[j] \in {"hub", "task"}
      /\ UNCHANGED <<origin, link, held, stopped>>
  BY DEF IInv, TypeOK, NetCommandEnds, FileReadEnds, CustomCommandEnds, Found,
         BatchTold, HardwareTold, CommandFails, Completes
<1>2. (\E result : End(j, origin[j], result)) \/ GoesOn(j)
  <2>1. CASE NetCommandEnds(j)
    BY <2>1 DEF NetCommandEnds
  <2>2. CASE CustomCommandEnds(j)
    BY <2>2 DEF CustomCommandEnds
  <2>3. CASE Found(j)
    BY <2>3 DEF Found
  <2>4. CASE BatchTold(j)
    BY <2>4 DEF BatchTold
  <2>5. CASE HardwareTold(j)
    BY <2>5 DEF HardwareTold
  <2>6. CASE CommandFails(j)
    BY <2>6 DEF CommandFails
  <2>7. CASE FileReadEnds(j)
    BY <2>7 DEF FileReadEnds
  <2> QED
    BY <2>1, <2>2, <2>3, <2>4, <2>5, <2>6, <2>7
<1>3. CASE GoesOn(j)
  BY <1>1, <1>3, SameTimes DEF GoesOn
<1>4. ASSUME NEW result, End(j, origin[j], result) PROVE IInv'
  BY <1>1, <1>4, EndStep
<1> QED
  BY <1>2, <1>3, <1>4

LEMMA DeliveredStep ==
  ASSUME IInv, NEW j \in Job, Delivered(j)
  PROVE  IInv'
<1>0. TypeOK /\ TimesInv /\ HeldInv /\ Waits
  BY WaitsFact DEF IInv
<1>1. /\ pc'[j] = "idle" /\ left'[j] = 0 /\ UNCHANGED <<held, stopped>>
      /\ link' \in {link, "down"}
      /\ \A k \in Job \ {j} : /\ pc'[k] = pc[k] /\ left'[k] = left[k]
                              /\ origin'[k] = origin[k]
  BY <1>0 DEF Delivered, TypeOK
<1>2. TypeOK'
  BY <1>0 DEF Delivered, TypeOK
<1>3. TimesInv'
  BY <1>0, <1>1 DEF TimesInv
<1>4. ASSUME NEW k \in Job \ {j}, link = "up", pc[k] # "idle"
      PROVE  /\ pc[k] = "running" => held + left[k] <= Longest
             /\ pc[k] = "ended" => held + left[k] <= Longest + WriteWait
  BY <1>0, <1>4 DEF TimesInv, HeldInv, TypeOK, Waits
<1>5. HeldInv'
  BY <1>0, <1>1, <1>4 DEF HeldInv, TypeOK
<1> QED
  BY <1>2, <1>3, <1>5 DEF IInv

LEMMA LinkStep ==
  ASSUME IInv, LinkFails \/ Reconnect \/ Stop
  PROVE  IInv'
<1>0. TypeOK /\ TimesInv /\ HeldInv /\ Waits
  BY WaitsFact DEF IInv
<1>1. CASE LinkFails
  <2>1. UNCHANGED <<pc, origin, left, held, stopped>> /\ held = 0
    BY <1>0, <1>1 DEF LinkFails, HeldInv, jobVars
  <2>2. TypeOK' /\ TimesInv'
    BY <1>0, <1>1, <2>1 DEF LinkFails, TypeOK, TimesInv
  <2>3. HeldInv'
    BY <1>0, <1>1, <2>1 DEF LinkFails, TypeOK, TimesInv, HeldInv, Waits
  <2> QED
    BY <2>2, <2>3 DEF IInv
<1>2. CASE Reconnect
  BY <1>0, <1>2 DEF Reconnect, IInv, TypeOK, TimesInv, HeldInv, Waits, jobVars
<1>3. CASE Stop
  <2>1. /\ UNCHANGED <<pc, origin, held>> /\ link' = "down"
        /\ \A k \in Job : /\ left'[k] \in Nat /\ left'[k] <= left[k]
                          /\ pc[k] = "running" => left'[k] = 0
    BY <1>0, <1>3 DEF Stop, TypeOK
  <2>2. TypeOK'
    BY <1>0, <1>3 DEF Stop, TypeOK
  <2>3. TimesInv'
    BY <1>0, <2>1 DEF TypeOK, TimesInv, Waits
  <2>4. \A k \in Job : origin[k] = "hub" =>
          /\ pc[k] = "running" => held + left'[k] <= Longest
          /\ pc[k] = "ended" => held + left'[k] <= Longest + WriteWait
    BY <1>0, <2>1 DEF TypeOK, TimesInv, HeldInv, Waits
  <2>5. HeldInv'
    BY <1>0, <2>1, <2>4 DEF HeldInv
  <2> QED
    BY <2>2, <2>3, <2>5 DEF IInv
<1> QED
  BY <1>1, <1>2, <1>3

LEMMA TickStep ==
  ASSUME IInv, Tick
  PROVE  IInv'
<1>0. TypeOK /\ TimesInv /\ HeldInv /\ Waits
  BY WaitsFact DEF IInv
<1>1. /\ UNCHANGED <<pc, origin, link, stopped>> /\ held' \in {held, held + 1}
      /\ \A k \in Job : left'[k] = IF left[k] > 0 THEN left[k] - 1 ELSE 0
      /\ \A k \in Job : pc[k] # "idle" => left[k] > 0 \/ Unbounded(k)
      /\ held' # held => /\ link = "down" /\ Waited # {}
                         /\ \A k \in Waited : left[k] > 0
  BY <1>0 DEF Tick, TypeOK, Waited
<1>2. TypeOK'
  BY <1>0, <1>1 DEF Tick, TypeOK
<1>3. TimesInv'
  BY <1>0, <1>1 DEF TypeOK, TimesInv, Waits
<1>4. link = "up" => held' = 0
  BY <1>0, <1>1 DEF HeldInv, TypeOK
<1>5. \A k \in Job : link = "down" /\ origin[k] = "hub" =>
        /\ pc[k] = "running" => held' + left'[k] <= Longest
        /\ pc[k] = "ended" => held' + left'[k] <= Longest + WriteWait
  <2> SUFFICES ASSUME NEW k \in Job, link = "down", origin[k] = "hub", pc[k] # "idle"
               PROVE  held' + left'[k] <= held + left[k]
    BY <1>0, <1>1, <1>2 DEF TypeOK, HeldInv, Waits
  <2>1. left[k] \in Nat /\ held \in Nat /\ k \in Waited
    BY <1>0 DEF TypeOK, Waited
  <2> QED
    BY <1>1, <2>1
<1>6. held' <= Longest + WriteWait
  <2>1. CASE held' = held
    BY <1>0, <2>1 DEF HeldInv
  <2>2. CASE held' # held
    <3>1. link = "down" /\ Waited # {} /\ held' = held + 1
      BY <1>1, <2>2
    <3>2. PICK k \in Job : pc[k] # "idle" /\ origin[k] = "hub"
      BY <3>1 DEF Waited
    <3>3. held' + left'[k] <= Longest + WriteWait /\ left'[k] \in Nat
      BY <1>0, <1>2, <1>5, <3>1, <3>2 DEF TypeOK, Waits
    <3> QED
      BY <1>0, <1>2, <3>3 DEF TypeOK, Waits
  <2> QED
    BY <2>1, <2>2
<1>7. HeldInv'
  BY <1>1, <1>4, <1>5, <1>6 DEF HeldInv
<1> QED
  BY <1>2, <1>3, <1>7 DEF IInv

-----------------------------------------------------------------------------
\* The inductive invariant holds in every reachable state.
THEOREM Invariant == Spec => []IInv
<1>1. Init => IInv
  <2> SUFFICES ASSUME Init PROVE IInv
    OBVIOUS
  <2>1. TypeOK
    BY DEF Init, TypeOK
  <2>2. TimesInv
    BY DEF Init, TimesInv
  <2>3. HeldInv
    <3>1. pc = [j \in Job |-> "idle"] /\ link = "up" /\ held = 0
      BY DEF Init
    <3>2. 0 <= Longest + WriteWait
      BY WaitsFact DEF Waits
    <3> QED
      BY <3>1, <3>2 DEF HeldInv
  <2> QED
    BY <2>1, <2>2, <2>3 DEF IInv
<1>2. IInv /\ [Next]_vars => IInv'
  <2> SUFFICES ASSUME IInv, [Next]_vars PROVE IInv'
    OBVIOUS
  <2>1. CASE UNCHANGED vars
    BY <2>1, SameTimes DEF vars, jobVars
  <2>2. ASSUME NEW j \in Job, Progress(j) PROVE IInv'
    BY <2>2, CommandStep, DeliveredStep DEF Progress
  <2>3. ASSUME NEW j \in Job, NEW m \in Input[j], Arrival(j, m) PROVE IInv'
    BY <2>3, ArrivalStep
  <2>4. CASE LinkFails \/ Reconnect \/ Stop
    BY <2>4, LinkStep
  <2>5. CASE Tick
    BY <2>5, TickStep
  <2> QED
    BY <2>1, <2>2, <2>3, <2>4, <2>5 DEF Next
<1> QED
  BY <1>1, <1>2, PTL DEF Spec

\* For any limits, and however many jobs there are, commands they run and
\* machines they ask about, connectAndRun waits no longer than the longest
\* context and one write before the agent dials again, but for the time in
\* which it waits for the read of a file or for the pipes of a configured
\* command that is past its deadline.
THEOREM WaitIsBounded == Spec => []OutageBounded
<1>1. IInv => OutageBounded
  BY DEF IInv, HeldInv, OutageBounded
<1> QED
  BY <1>1, Invariant, PTL

-----------------------------------------------------------------------------
(* Results                                                                 *)

\* A job ends with a result that is not a success, or none of its commands has
\* failed.
LEMMA HurtEnd ==
  ASSUME TypeOK, HurtInv, NEW j \in Job, NEW o, NEW result, NEW h \in BOOLEAN,
         End(j, o, result), hurt' = [hurt EXCEPT ![j] = h],
         h => result.code # "ok" \/ result.exit # 0
  PROVE  HurtInv'
<1>1. /\ pc' = [pc EXCEPT ![j] = "ended"] /\ out' = [out EXCEPT ![j] = result]
      /\ pc = [k \in Job |-> pc[k]] /\ out = [k \in Job |-> out[k]]
      /\ hurt = [k \in Job |-> hurt[k]]
  BY DEF HurtInv, TypeOK, End
<1>2. /\ pc'[j] = "ended" /\ out'[j] = result /\ hurt'[j] = h
      /\ \A k \in Job \ {j} : /\ pc'[k] = pc[k] /\ out'[k] = out[k]
                              /\ hurt'[k] = hurt[k]
  BY <1>1
<1>3. hurt' = [k \in Job |-> hurt'[k]] /\ out' = [k \in Job |-> out'[k]]
  BY <1>1
<1>4. \A k \in Job : /\ pc'[k] # "ended" => hurt'[k] = FALSE
                     /\ pc'[k] = "ended" /\ hurt'[k] # FALSE =>
                          out'[k].code # "ok" \/ out'[k].exit # 0
  BY <1>2 DEF HurtInv
<1> QED
  BY <1>3, <1>4 DEF HurtInv

\* One of whose commands none has failed ends.
LEMMA HurtSame ==
  ASSUME TypeOK, HurtInv, NEW j \in Job, NEW o, NEW result, pc[j] # "ended",
         End(j, o, result), UNCHANGED hurt
  PROVE  HurtInv'
<1>1. hurt' = [hurt EXCEPT ![j] = FALSE]
  BY DEF HurtInv
<1> QED
  BY <1>1, HurtEnd

LEMMA HurtArrival ==
  ASSUME TypeOK, HurtInv, NEW j \in Job, NEW m \in Input[j], Arrival(j, m)
  PROVE  HurtInv'
<1>1. pc[j] = "idle" /\ UNCHANGED hurt
  BY DEF Arrival, Malformed, ListArrives, UnknownMethod, Refused, Launch, Arrives
<1>2. (\E o, result : End(j, o, result)) \/ (\E o : Launch(j, o, m))
  <2>1. CASE Malformed(j, m)
    BY <2>1 DEF Malformed
  <2>2. CASE ListArrives(j, m)
    BY <2>2 DEF ListArrives
  <2>3. CASE UnknownMethod(j, m)
    BY <2>3 DEF UnknownMethod
  <2>4. ASSUME NEW o, Refused(j, o, m) PROVE \E r : End(j, o, r)
    BY <2>4 DEF Refused
  <2> QED
    BY <2>1, <2>2, <2>3, <2>4 DEF Arrival
<1>3. ASSUME NEW o, NEW result, End(j, o, result) PROVE HurtInv'
  BY <1>1, <1>3, HurtSame
<1>4. ASSUME NEW o, Launch(j, o, m) PROVE HurtInv'
  <2>1. UNCHANGED <<hurt, out>> /\ pc' = [pc EXCEPT ![j] = "running"]
    BY <1>4 DEF Launch
  <2> QED
    BY <1>1, <2>1 DEF HurtInv, TypeOK
<1> QED
  BY <1>2, <1>3, <1>4

LEMMA HurtProgress ==
  ASSUME TypeOK, HurtInv, NEW j \in Job, Progress(j)
  PROVE  HurtInv'
<1>1. CASE NetCommandEnds(j)
  <2>1. PICK r : End(j, origin[j], r)
    BY <1>1 DEF NetCommandEnds
  <2> QED
    BY <1>1, <2>1, HurtSame DEF NetCommandEnds, Completes
<1>2. CASE CustomCommandEnds(j)
  <2>1. PICK exit \in -1..1, o \in Size, e \in Size :
           /\ hurt' = [hurt EXCEPT ![j] = exit # 0]
           /\ End(j, origin[j], CustomResult(method[j], exit, o, e))
    BY <1>2 DEF CustomCommandEnds
  <2> DEFINE result == CustomResult(method[j], exit, o, e)
  <2>2. exit # 0 => result.exit # 0
    BY DEF CustomResult, Outcome
  <2>4. End(j, origin[j], result) /\ hurt' = [hurt EXCEPT ![j] = exit # 0]
    BY <2>1
  <2> HIDE DEF result
  <2>5. (exit # 0) \in BOOLEAN
    OBVIOUS
  <2> QED
    BY <2>2, <2>4, <2>5, HurtEnd
<1>3. ASSUME Found(j) \/ BatchTold(j) \/ HardwareTold(j) PROVE HurtInv'
  <2>1. pc[j] = "running" /\ UNCHANGED hurt
    BY <1>3 DEF Found, BatchTold, HardwareTold, Completes
  <2>2. (\E r : End(j, origin[j], r)) \/ GoesOn(j)
    <3>1. CASE Found(j)
      BY <3>1 DEF Found
    <3>2. CASE BatchTold(j)
      BY <3>2 DEF BatchTold
    <3>3. CASE HardwareTold(j)
      BY <3>3 DEF HardwareTold
    <3> QED
      BY <1>3, <3>1, <3>2, <3>3
  <2>3. CASE GoesOn(j)
    BY <2>1, <2>3 DEF GoesOn, HurtInv
  <2>4. ASSUME NEW r, End(j, origin[j], r) PROVE HurtInv'
    BY <2>1, <2>4, HurtSame
  <2> QED
    BY <2>2, <2>3, <2>4
<1>4. CASE CommandFails(j)
  <2>1. PICK r : /\ r = Failure("InternalError")
                 /\ End(j, origin[j], r) /\ hurt' = [hurt EXCEPT ![j] = TRUE]
    BY <1>4 DEF CommandFails
  <2>2. r.code # "ok" \/ r.exit # 0
    BY <2>1 DEF Failure, Outcome
  <2> QED
    BY <2>1, <2>2, HurtEnd
<1>5. CASE Delivered(j)
  <2>1. /\ pc' = [pc EXCEPT ![j] = "idle"] /\ out' = [out EXCEPT ![j] = None]
        /\ hurt' = [hurt EXCEPT ![j] = FALSE]
    BY <1>5 DEF Delivered
  <2>2. hurt' = [k \in Job |-> hurt'[k]] /\ out' = [k \in Job |-> out'[k]]
    BY <2>1 DEF HurtInv
  <2>3. /\ pc'[j] = "idle" /\ hurt'[j] = FALSE
        /\ \A k \in Job \ {j} : /\ pc'[k] = pc[k] /\ out'[k] = out[k]
                                /\ hurt'[k] = hurt[k]
    BY <2>1 DEF HurtInv, TypeOK
  <2> QED
    BY <2>2, <2>3 DEF HurtInv
<1>6. CASE FileReadEnds(j)
  <2>1. PICK r : End(j, origin[j], r)
    BY <1>6 DEF FileReadEnds
  <2> QED
    BY <1>6, <2>1, HurtSame DEF FileReadEnds, Completes
<1> QED
  BY <1>1, <1>2, <1>3, <1>4, <1>5, <1>6 DEF Progress

\* For any messages and commands, no result reads as a success when a command
\* behind it has failed or was killed.
THEOREM ResultsAreTrue == Spec => []Truthful
<1>1. Init => HurtInv
  BY DEF Init, HurtInv
<1>2. TypeOK /\ HurtInv /\ [Next]_vars => HurtInv'
  <2> SUFFICES ASSUME TypeOK, HurtInv, [Next]_vars PROVE HurtInv'
    OBVIOUS
  <2>1. CASE UNCHANGED <<pc, out, hurt>>
    BY <2>1 DEF HurtInv
  <2>2. CASE UNCHANGED vars \/ LinkFails \/ Reconnect \/ Stop \/ Tick
    BY <2>1, <2>2 DEF vars, jobVars, LinkFails, Reconnect, Stop, Tick
  <2>3. ASSUME NEW j \in Job, NEW m \in Input[j], Arrival(j, m) PROVE HurtInv'
    BY <2>3, HurtArrival
  <2>4. ASSUME NEW j \in Job, Progress(j) PROVE HurtInv'
    BY <2>4, HurtProgress
  <2> QED
    BY <2>2, <2>3, <2>4 DEF Next
<1>3. HurtInv => Truthful
  BY DEF HurtInv, Truthful
<1>4. IInv => TypeOK
  BY DEF IInv
<1> QED
  BY <1>1, <1>2, <1>3, <1>4, Invariant, PTL DEF Spec

-----------------------------------------------------------------------------
(* SNMP command lines                                                      *)

\* What Validate leaves in the fields the flags of version 3 are made of.
LEMMA NormalFields ==
  ASSUME NEW s \in SNMPParams
  PROVE  LET n == SNMPNormal(s)
             l == Level(s)
         IN /\ n.version = VersionOf(Trim(s.version))
            /\ n.version = "3" => n.secLevel = l
            /\ n.authPassphrase = s.authPassphrase
            /\ n.privPassphrase = s.privPassphrase
BY DEF SNMPNormal, SNMPParams

\* A level that is accepted is one of the three, spelt as net-snmp spells it.
LEMMA LevelNamed ==
  ASSUME NEW s, LevelOf(Level(s)) \in Levels
  PROVE  Level(s) \in Levels
BY DEF Level, LevelOf, Levels

\* The security level of an accepted line of version 3 is the one it names,
\* and its flags are those of that level.
LineKept(line) ==
  <<"-v", "3">> \in line =>
    LET flags == {a[1] : a \in line}
    IN \E l \in Levels :
         /\ <<"-l", l>> \in line
         /\ flags \cap {"-a", "-A", "-x", "-X"} =
              (IF Authenticates(l) THEN {"-a", "-A"} ELSE {})
              \cup (IF Encrypts(l) THEN {"-x", "-X"} ELSE {})

LEMMA FlagsOf ==
  ASSUME NEW s \in SNMPParams, SNMPAccepts(SNMPNormal(s))
  PROVE  LineKept(BuildCLIArgs(SNMPNormal(s)))
<1> DEFINE n == SNMPNormal(s)
           line == BuildCLIArgs(n)
           l == n.secLevel
           flags == {a[1] : a \in line}
<1> SUFFICES ASSUME <<"-v", "3">> \in line
             PROVE  /\ l \in Levels /\ <<"-l", l>> \in line
                    /\ flags \cap {"-a", "-A", "-x", "-X"} =
                         (IF Authenticates(l) THEN {"-a", "-A"} ELSE {})
                         \cup (IF Encrypts(l) THEN {"-x", "-X"} ELSE {})
  BY DEF LineKept
<1>1. n.version = "3"
  <2> SUFFICES ASSUME n.version # "3" PROVE FALSE
    OBVIOUS
  <2>1. line = {<<"-t", n.timeout>>, <<"target", n.target>>, <<"oid", n.oid>>,
                <<"-v", OrElse(n.version, "2c")>>, <<"-c", OrElse(n.community, "public")>>}
    BY DEF BuildCLIArgs
  <2>2. "3" = OrElse(n.version, "2c")
    BY <2>1
  <2> QED
    BY <2>2 DEF OrElse
<1>2. l = Level(s) /\ LevelOf(l) \in Levels
  BY <1>1, NormalFields DEF SNMPAccepts
<1>3. l \in Levels
  BY <1>2, LevelNamed
<1>4. Flag("-l", l) = {<<"-l", l>>}
  BY <1>3 DEF Flag, Levels
<1>5. Authenticates(l) => /\ Flag("-a", n.authProtocol) = {<<"-a", n.authProtocol>>}
                          /\ Flag("-A", n.authPassphrase) = {<<"-A", n.authPassphrase>>}
  BY <1>1 DEF SNMPAccepts, Flag, Proper, AuthNames
<1>6. Encrypts(l) => /\ Flag("-x", n.privProtocol) = {<<"-x", n.privProtocol>>}
                     /\ Flag("-X", n.privPassphrase) = {<<"-X", n.privPassphrase>>}
  BY <1>1 DEF SNMPAccepts, Flag, Proper, PrivNames
<1> DEFINE plain == {<<"-t", n.timeout>>, <<"target", n.target>>, <<"oid", n.oid>>}
                    \cup {<<"-v", "3">>, <<"-u", n.secName>>}
                    \cup {<<"-l", l>>} \cup Flag("-n", n.contextName)
                    \cup Flag("-e", n.engineID)
           auth == IF Authenticates(l)
                   THEN {<<"-a", n.authProtocol>>, <<"-A", n.authPassphrase>>} ELSE {}
           priv == IF Encrypts(l)
                   THEN {<<"-x", n.privProtocol>>, <<"-X", n.privPassphrase>>} ELSE {}
<1>7. line = plain \cup auth \cup priv
  <2>1. line = {<<"-t", n.timeout>>, <<"target", n.target>>, <<"oid", n.oid>>}
               \cup ({<<"-v", "3">>, <<"-u", n.secName>>}
                     \cup Flag("-l", l) \cup Flag("-n", n.contextName)
                     \cup Flag("-e", n.engineID)
                     \cup (IF Authenticates(l)
                           THEN Flag("-a", n.authProtocol) \cup Flag("-A", n.authPassphrase)
                           ELSE {})
                     \cup (IF Encrypts(l)
                           THEN Flag("-x", n.privProtocol) \cup Flag("-X", n.privPassphrase)
                           ELSE {}))
    BY <1>1 DEF BuildCLIArgs
  <2> HIDE DEF n
  <2> QED
    BY <2>1, <1>4, <1>5, <1>6
<1>8. \A a \in plain : a[1] \notin {"-a", "-A", "-x", "-X"}
  <2> HIDE DEF n
  <2>1. SUFFICES ASSUME NEW a \in plain PROVE a[1] \notin {"-a", "-A", "-x", "-X"}
    OBVIOUS
  <2>2. PICK f, x : /\ a = <<f, x>>
                     /\ f \in {"-t", "target", "oid", "-v", "-u", "-l", "-n", "-e"}
    BY DEF Flag
  <2>3. a[1] = f
    BY <2>2
  <2> QED
    BY <2>2, <2>3
<1>9. {a[1] : a \in auth} = IF Authenticates(l) THEN {"-a", "-A"} ELSE {}
  <2> HIDE DEF n
  <2>1. CASE Authenticates(l)
    <3>1. auth = {<<"-a", n.authProtocol>>, <<"-A", n.authPassphrase>>}
      BY <2>1
    <3> QED
      BY <2>1, <3>1
  <2>2. CASE ~Authenticates(l)
    <3>1. auth = {}
      BY <2>2
    <3> QED
      BY <2>2, <3>1
  <2> QED
    BY <2>1, <2>2
<1>10. {a[1] : a \in priv} = IF Encrypts(l) THEN {"-x", "-X"} ELSE {}
  <2> HIDE DEF n
  <2>1. CASE Encrypts(l)
    <3>1. priv = {<<"-x", n.privProtocol>>, <<"-X", n.privPassphrase>>}
      BY <2>1
    <3> QED
      BY <2>1, <3>1
  <2>2. CASE ~Encrypts(l)
    <3>1. priv = {}
      BY <2>2
    <3> QED
      BY <2>2, <3>1
  <2> QED
    BY <2>1, <2>2
<1>11. <<"-l", l>> \in line
  <2> HIDE DEF n
  <2> QED
    BY <1>7
<1>12. flags = {a[1] : a \in plain} \cup {a[1] : a \in auth} \cup {a[1] : a \in priv}
  <2> HIDE DEF plain, auth, priv, line
  <2> QED
    BY <1>7
<1> QED
  <2> HIDE DEF n, plain, auth, priv, flags, line
  <2> QED
    BY <1>3, <1>8, <1>9, <1>10, <1>11, <1>12

\* The line of a running SNMP job keeps its level.
LineInv ==
  /\ method = [j \in Job |-> method[j]] /\ work = [j \in Job |-> work[j]]
  /\ \A j \in Job : pc[j] = "running" /\ method[j] \in SNMP => LineKept(work[j].line)

LEMMA LaunchLine ==
  ASSUME TypeOK, LineInv, NEW j \in Job, NEW o, NEW m \in Input[j], Launch(j, o, m)
  PROVE  LineInv'
<1>1. /\ pc' = [pc EXCEPT ![j] = "running"] /\ method' = [method EXCEPT ![j] = m.method]
      /\ work' = [work EXCEPT ![j] = NewWork(m)] /\ Starts(m)
  BY DEF Launch, Arrives
<1>2. method' = [k \in Job |-> method'[k]] /\ work' = [k \in Job |-> work'[k]]
  BY <1>1 DEF LineInv
<1>3. method'[j] = m.method /\ work'[j].line = Line(m)
  BY <1>1 DEF LineInv, NewWork, NoWork
<1>4. \A k \in Job \ {j} : pc'[k] = pc[k] /\ method'[k] = method[k] /\ work'[k] = work[k]
  BY <1>1 DEF LineInv, TypeOK
<1>5. m.method \in SNMP => LineKept(Line(m))
  <2> SUFFICES ASSUME m.method \in SNMP PROVE LineKept(Line(m))
    OBVIOUS
  <2>1. m.method \in BuiltIn
    BY DEF BuiltIn
  <2>2. m.params \in SNMPParams /\ Accepts(m)
    BY <1>1, <2>1, InputAssumption DEF Starts
  <2>3. Normal(m) = SNMPNormal(m.params)
    BY DEF Normal, SNMP, VMware
  <2>4. SNMPAccepts(SNMPNormal(m.params))
    BY <2>2, <2>3 DEF Accepts, SNMP
  <2>5. Line(m) = BuildCLIArgs(SNMPNormal(m.params))
    BY DEF Line
  <2> QED
    BY <2>2, <2>4, <2>5, FlagsOf
<1> QED
  BY <1>2, <1>3, <1>4, <1>5 DEF LineInv

LEMMA LineProgress ==
  ASSUME TypeOK, LineInv, NEW j \in Job, Progress(j)
  PROVE  LineInv'
<1>0. pc = [k \in Job |-> pc[k]] /\ method = [k \in Job |-> method[k]]
      /\ work = [k \in Job |-> work[k]]
  BY DEF TypeOK, LineInv
<1>1. CASE \/ NetCommandEnds(j) \/ FileReadEnds(j) \/ CustomCommandEnds(j)
           \/ HardwareTold(j) \/ CommandFails(j)
  <2>1. UNCHANGED <<method, work>>
    BY <1>1 DEF NetCommandEnds, FileReadEnds, CustomCommandEnds, HardwareTold,
                CommandFails, Completes
  <2>2. \E o, r : End(j, o, r)
    <3>1. CASE NetCommandEnds(j)
      BY <3>1 DEF NetCommandEnds
    <3>2. CASE CustomCommandEnds(j)
      BY <3>2 DEF CustomCommandEnds
    <3>3. CASE HardwareTold(j)
      BY <3>3 DEF HardwareTold
    <3>4. CASE CommandFails(j)
      BY <3>4 DEF CommandFails
    <3>5. CASE FileReadEnds(j)
      BY <3>5 DEF FileReadEnds
    <3> QED
      BY <1>1, <3>1, <3>2, <3>3, <3>4, <3>5
  <2>3. pc' = [pc EXCEPT ![j] = "ended"]
    BY <2>2 DEF End
  <2> QED
    BY <1>0, <2>1, <2>3 DEF LineInv
<1>2. CASE Found(j) \/ BatchTold(j)
  <2>1. /\ method[j] \notin SNMP /\ UNCHANGED method
        /\ (\E w : work' = [work EXCEPT ![j] = w])
    <3>1. CASE Found(j)
      <4>1. PICK n : work' = [work EXCEPT ![j].cmd = "info",
                                          ![j].found = SubSeq(Inventory, 1, n)]
        BY <3>1 DEF Found
      <4>2. work' = [work EXCEPT ![j] = work'[j]]
        BY <1>0, <4>1
      <4> QED
        BY <3>1, <4>2 DEF Found, Completes, SNMP, VMware
    <3>2. CASE BatchTold(j)
      BY <3>2 DEF BatchTold, Completes, SNMP
    <3> QED
      BY <1>2, <3>1, <3>2
  <2>2. (\E o, r : End(j, o, r)) \/ GoesOn(j)
    <3>1. CASE Found(j)
      BY <3>1 DEF Found
    <3>2. CASE BatchTold(j)
      BY <3>2 DEF BatchTold
    <3> QED
      BY <1>2, <3>1, <3>2
  <2>3. (\E x : pc' = [pc EXCEPT ![j] = x])
    BY <1>0, <2>2 DEF End, GoesOn
  <2> QED
    BY <1>0, <2>1, <2>3 DEF LineInv
<1>3. CASE Delivered(j)
  <2>1. /\ pc' = [pc EXCEPT ![j] = "idle"] /\ method' = [method EXCEPT ![j] = ""]
        /\ work' = [work EXCEPT ![j] = NoWork]
    BY <1>3 DEF Delivered
  <2> QED
    BY <1>0, <2>1 DEF LineInv
<1> QED
  BY <1>1, <1>2, <1>3 DEF Progress

LEMMA LineArrival ==
  ASSUME TypeOK, LineInv, NEW j \in Job, NEW m \in Input[j], Arrival(j, m)
  PROVE  LineInv'
<1>0. pc = [k \in Job |-> pc[k]] /\ method = [k \in Job |-> method[k]]
      /\ work = [k \in Job |-> work[k]]
  BY DEF TypeOK, LineInv
<1>1. CASE \E o \in {"hub", "task"} : Launch(j, o, m)
  BY <1>1, LaunchLine
<1>2. CASE ~ \E o \in {"hub", "task"} : Launch(j, o, m)
  <2>1. PICK o, r : End(j, o, r)
    <3>1. CASE Malformed(j, m)
      BY <3>1 DEF Malformed
    <3>2. CASE ListArrives(j, m)
      BY <3>2 DEF ListArrives
    <3>3. CASE UnknownMethod(j, m)
      BY <3>3 DEF UnknownMethod
    <3>4. ASSUME NEW o, Refused(j, o, m) PROVE \E r : End(j, o, r)
      BY <3>4 DEF Refused
    <3> QED
      BY <1>2, <3>1, <3>2, <3>3, <3>4 DEF Arrival
  <2>2. method' = [method EXCEPT ![j] = m.method] /\ UNCHANGED work
    BY <1>2 DEF Arrival, Malformed, ListArrives, UnknownMethod, Refused, Arrives
  <2>3. pc' = [pc EXCEPT ![j] = "ended"]
    BY <2>1 DEF End
  <2> QED
    BY <1>0, <2>2, <2>3 DEF LineInv
<1> QED
  BY <1>1, <1>2

\* For any messages, the line of an SNMP v3 job has the flags of the security
\* level it names, all of them and no others.
THEOREM LinesKeepTheirLevel == Spec => []LevelKept
<1>1. Init => LineInv
  BY DEF Init, LineInv
<1>2. TypeOK /\ LineInv /\ [Next]_vars => LineInv'
  <2> SUFFICES ASSUME TypeOK, LineInv, [Next]_vars PROVE LineInv'
    OBVIOUS
  <2>1. CASE UNCHANGED <<pc, method, work>>
    BY <2>1 DEF LineInv
  <2>2. CASE UNCHANGED vars \/ LinkFails \/ Reconnect \/ Stop \/ Tick
    BY <2>1, <2>2 DEF vars, jobVars, LinkFails, Reconnect, Stop, Tick
  <2>3. ASSUME NEW j \in Job, NEW m \in Input[j], Arrival(j, m) PROVE LineInv'
    BY <2>3, LineArrival
  <2>4. ASSUME NEW j \in Job, Progress(j) PROVE LineInv'
    BY <2>4, LineProgress
  <2> QED
    BY <2>2, <2>3, <2>4 DEF Next
<1>3. LineInv => LevelKept
  BY DEF LineInv, LineKept, LevelKept
<1>4. IInv => TypeOK
  BY DEF IInv
<1> QED
  BY <1>1, <1>2, <1>3, <1>4, Invariant, PTL DEF Spec

-----------------------------------------------------------------------------
(* Recursive functions on the places of a sequence                        *)

\* A set of numbers that is not empty has a least one.
LEMMA Least ==
  ASSUME NEW S, S \subseteq Nat, S # {}
  PROVE  \E m \in S : \A k \in S : m <= k
<1> DEFINE R == {p \in Nat \X Nat : p[1] < p[2]}
<1>1. IsWellFoundedOn(R, Nat)
  BY NatLessThanWellFounded DEF OpToRel
<1>2. PICK m \in S : \A k \in S : <<k, m>> \notin R
  <2> HIDE DEF R
  <2> QED
    BY <1>1, WFMin
<1>3. \A k \in S : ~(k < m)
  BY <1>2
<1> QED
  BY <1>3

\* What holds of the first place and goes on from each place to the next holds
\* of all.
LEMMA Places ==
  ASSUME NEW n \in Nat, NEW P, 0 \in P,
         \A i \in 1..n : i - 1 \in P => i \in P
  PROVE  0..n \subseteq P
<1> SUFFICES ASSUME 0..n \ P # {} PROVE FALSE
  OBVIOUS
<1>1. PICK m \in 0..n \ P : \A k \in 0..n \ P : m <= k
  <2>1. 0..n \ P \subseteq Nat
    OBVIOUS
  <2> QED
    BY <2>1, Least
<1>2. m \in 1..n /\ m - 1 \in 0..n /\ ~(m <= m - 1)
  BY <1>1
<1> QED
  BY <1>1, <1>2


Steps(g, base, n, step) ==
  g[0] = base /\ \A i \in 1..n : g[i] = step[<<i, g[i-1]>>]

LEMMA Recursion ==
  ASSUME NEW S, NEW base \in S, NEW n \in Nat, NEW step \in [(1..n) \X S -> S]
  PROVE  \E g \in [0..n -> S] : Steps(g, base, n, step)
<1> DEFINE P == {k \in 0..n : \E g \in [0..k -> S] : Steps(g, base, k, step)}
<1>1. 0 \in P
  <2> DEFINE g == [i \in 0..0 |-> base]
  <2>1. g \in [0..0 -> S] /\ Steps(g, base, 0, step)
    BY DEF Steps
  <2> QED
    BY <2>1, 0 \in 0..n
<1>2. ASSUME NEW k \in 1..n, k - 1 \in P PROVE k \in P
  <2>1. PICK g \in [0..k-1 -> S] : Steps(g, base, k - 1, step)
    BY <1>2
  <2> DEFINE next == step[<<k, g[k-1]>>]
             h == [i \in 0..k |-> IF i = k THEN next ELSE g[i]]
  <2>2. g[k-1] \in S /\ next \in S
    BY <2>1
  <2>3. h[k] = next /\ \A i \in 0..k-1 : h[i] = g[i]
    OBVIOUS
  <2>4. h \in [0..k -> S]
    <3> HIDE DEF next
    <3> QED
      BY <2>2
  <2>5. h[0] = base
    BY <2>1, <2>3 DEF Steps
  <2>6. ASSUME NEW i \in 1..k PROVE h[i] = step[<<i, h[i-1]>>]
    <3> HIDE DEF h
    <3>1. CASE i = k
      BY <2>3, <3>1
    <3>2. CASE i # k
      <4>1. i \in 1..k-1 /\ i \in 0..k-1 /\ i - 1 \in 0..k-1
        BY <3>2
      <4> QED
        BY <2>1, <2>3, <4>1 DEF Steps
    <3> QED
      BY <3>1, <3>2
  <2>7. Steps(h, base, k, step)
    <3> HIDE DEF h
    <3> QED
      BY <2>5, <2>6 DEF Steps
  <2>8. k \in 0..n
    OBVIOUS
  <2> HIDE DEF h
  <2> QED
    BY <2>4, <2>7, <2>8
<1>3. n \in P
  <2> HIDE DEF P
  <2>1. 0..n \subseteq P
    BY <1>1, <1>2, Places
  <2> QED
    BY <2>1
<1> QED
  BY <1>3


-----------------------------------------------------------------------------
(* Discovery                                                               *)

Shaped(w) ==
  w = [x \in {"cmd", "line", "found", "at", "asked", "vms", "leftOut"} |-> w[x]]

\* A machine that has been asked about is in the list or was left out.
Listed(w) == ToSet(w.asked) \subseteq w.vms \cup w.leftOut

\* A discovery has asked about the machines before the next one, no others.
Swept(w) ==
  /\ w.cmd # "info" => w.at = 1 /\ w.asked = <<>>
  /\ w.cmd = "info" => /\ w.found \in Seq(STRING)
                       /\ w.at \in 1..Len(w.found)
                       /\ w.asked = SubSeq(w.found, 1, w.at - 1)
                       /\ Listed(w)

SweepInv ==
  /\ method = [j \in Job |-> method[j]] /\ work = [j \in Job |-> work[j]]
  /\ out = [j \in Job |-> out[j]]
  /\ \A j \in Job :
       /\ Shaped(work[j])
       /\ method[j] = "discover" /\ pc[j] = "running" => Swept(work[j])
       /\ method[j] = "discover" /\ pc[j] = "ended" /\ work[j].cmd = "info"
            /\ out[j].code = "ok" => work[j].asked = work[j].found /\ Listed(work[j])

LEMMA Clipped ==
  ASSUME NEW len \in Nat, NEW at \in 1..len, NEW size \in Nat, size > 0
  PROVE  LET next == at + size
             last == IF next - 1 > len THEN len ELSE next - 1
         IN /\ 1 \in 1..len + 1 /\ at - 1 \in 1 - 1 .. len /\ last \in at - 1 .. len
            /\ next > len => last = len
            /\ next <= len => last = next - 1 /\ next \in 1..len
OBVIOUS

LEMMA BatchEnd ==
  ASSUME NEW w, NEW end, end = w.at + BatchSize - 1,
         NEW last, last = IF end > Len(w.found) THEN Len(w.found) ELSE end
  PROVE  Batch(w) = SubSeq(w.found, w.at, last)
BY DEF Batch

\* The next batch takes the sweep on to where the batch after it begins, or to
\* the end.
LEMMA NextBatch ==
  ASSUME NEW w, Swept(w), w.cmd = "info"
  PROVE  LET next == w.at + BatchSize
         IN /\ next <= Len(w.found) =>
                 next \in 1..Len(w.found)
                 /\ w.asked \o Batch(w) = SubSeq(w.found, 1, next - 1)
            /\ next > Len(w.found) => w.asked \o Batch(w) = w.found
<1> DEFINE next == w.at + BatchSize
           last == IF next - 1 > Len(w.found) THEN Len(w.found) ELSE next - 1
<1>1. /\ w.found \in Seq(STRING) /\ w.at \in 1..Len(w.found) /\ Len(w.found) \in Nat
      /\ w.asked = SubSeq(w.found, 1, w.at - 1) /\ BatchSize \in Nat /\ BatchSize > 0
  BY BatchAssumption DEF Swept
<1>2. Batch(w) = SubSeq(w.found, w.at, last)
  <2>1. next - 1 = w.at + BatchSize - 1
    BY <1>1
  <2>2. last = IF next - 1 > Len(w.found) THEN Len(w.found) ELSE next - 1
    OBVIOUS
  <2> HIDE DEF next, last
  <2> QED
    BY <2>1, <2>2, BatchEnd
<1>3. /\ 1 \in 1..Len(w.found) + 1 /\ w.at - 1 \in 1 - 1 .. Len(w.found)
      /\ last \in w.at - 1 .. Len(w.found)
      /\ next > Len(w.found) => last = Len(w.found)
      /\ next <= Len(w.found) => last = next - 1 /\ next \in 1..Len(w.found)
  BY <1>1, Clipped
<1>4. SubSeq(w.found, 1, w.at - 1) \o SubSeq(w.found, w.at - 1 + 1, last) = SubSeq(w.found, 1, last)
  <2> HIDE DEF last
  <2> QED
    BY <1>1, <1>3, ConcatAdjacentSubSeq
<1>5. w.at - 1 + 1 = w.at
  BY <1>1
<1>6. w.asked \o Batch(w) = SubSeq(w.found, 1, last)
  BY <1>1, <1>2, <1>4, <1>5
<1>7. SubSeq(w.found, 1, Len(w.found)) = w.found
  BY <1>1, SubSeqFull
<1> QED
  <2> HIDE DEF next, last
  <2>1. /\ next <= Len(w.found) =>
             next \in 1..Len(w.found) /\ w.asked \o Batch(w) = SubSeq(w.found, 1, next - 1)
        /\ next > Len(w.found) => w.asked \o Batch(w) = w.found
    BY <1>3, <1>6, <1>7
  <2> QED
    BY <2>1 DEF next

\* With the next batch, what govc has told of it is in the list and the rest
\* left out.
LEMMA NextList ==
  ASSUME NEW w, Swept(w), w.cmd = "info", NEW told
  PROVE  ToSet(w.asked \o Batch(w))
           \subseteq (w.vms \cup told) \cup (w.leftOut \cup (ToSet(Batch(w)) \ told))
<1> DEFINE s == w.asked  t == Batch(w)  f == w.found
           end == w.at + BatchSize - 1
           last == IF end > Len(f) THEN Len(f) ELSE end
<1>1. /\ f \in Seq(STRING) /\ w.at \in 1..Len(f) /\ Len(f) \in Nat
      /\ s = SubSeq(f, 1, w.at - 1) /\ BatchSize \in Nat /\ BatchSize > 0
      /\ ToSet(s) \subseteq w.vms \cup w.leftOut
  BY BatchAssumption DEF Swept, Listed
<1>2. t = SubSeq(f, w.at, last) /\ last \in w.at..Len(f)
  <2>1. t = SubSeq(f, w.at, last)
    BY BatchEnd
  <2>2. last \in w.at..Len(f)
    BY <1>1
  <2> QED
    BY <2>1, <2>2
<1> HIDE DEF last, f, s, t
<1>3. s \in Seq(STRING) /\ t \in Seq(STRING)
  BY <1>1, <1>2
<1>4. ToSet(s \o t) = ToSet(s) \cup ToSet(t)
  <2>1. Range(s \o t) = Range(s) \cup Range(t)
    BY <1>3, RangeConcatenation
  <2> QED
    BY <2>1 DEF ToSet, Range
<1> QED
  BY <1>1, <1>4 DEF s, t

\* A step of j that keeps the invariant for j keeps it.
LEMMA SweepOne ==
  ASSUME TypeOK, SweepInv, NEW j \in Job,
         \E x : pc' = [pc EXCEPT ![j] = x], \E x : out' = [out EXCEPT ![j] = x],
         \E x : method' = [method EXCEPT ![j] = x], \E x : work' = [work EXCEPT ![j] = x],
         Shaped(work'[j]),
         method'[j] = "discover" /\ pc'[j] = "running" => Swept(work'[j]),
         method'[j] = "discover" /\ pc'[j] = "ended" /\ work'[j].cmd = "info"
            /\ out'[j].code = "ok" => work'[j].asked = work'[j].found /\ Listed(work'[j])
  PROVE  SweepInv'
<1>1. \A k \in Job \ {j} : /\ pc'[k] = pc[k] /\ out'[k] = out[k]
                           /\ method'[k] = method[k] /\ work'[k] = work[k]
  BY DEF TypeOK, SweepInv
<1>2. /\ method' = [k \in Job |-> method'[k]] /\ work' = [k \in Job |-> work'[k]]
      /\ out' = [k \in Job |-> out'[k]]
  BY DEF SweepInv
<1> QED
  BY <1>1, <1>2 DEF SweepInv

LEMMA SweepArrival ==
  ASSUME TypeOK, SweepInv, NEW j \in Job, NEW m \in Input[j], Arrival(j, m)
  PROVE  SweepInv'
<1>0. /\ pc = [k \in Job |-> pc[k]] /\ method = [k \in Job |-> method[k]]
      /\ work = [k \in Job |-> work[k]] /\ out = [k \in Job |-> out[k]]
      /\ Shaped(work[j])
  BY DEF TypeOK, SweepInv
<1>1. method' = [method EXCEPT ![j] = m.method]
  BY DEF Arrival, Malformed, ListArrives, UnknownMethod, Refused, Launch, Arrives
<1>2. ASSUME NEW o \in {"hub", "task"}, Launch(j, o, m) PROVE SweepInv'
  <2>1. /\ pc' = [pc EXCEPT ![j] = "running"] /\ UNCHANGED out
        /\ work' = [work EXCEPT ![j] = NewWork(m)]
    BY <1>2 DEF Launch
  <2>2. work'[j] = NewWork(m) /\ pc'[j] = "running" /\ method'[j] = m.method
    BY <1>0, <1>1, <2>1
  <2>3. Shaped(NewWork(m))
    <3>1. Shaped(NoWork)
      BY DEF Shaped, NoWork
    <3>2. Shaped([NoWork EXCEPT !.cmd = FirstCommand(m), !.line = Line(m)])
      BY <3>1 DEF Shaped
    <3> QED
      BY <3>2 DEF NewWork
  <2>4. m.method = "discover" => Swept(NewWork(m))
    BY DEF NewWork, NoWork, Swept, FirstCommand
  <2>5. out' = [out EXCEPT ![j] = out[j]]
    BY <1>0, <2>1
  <2> QED
    BY <1>1, <2>1, <2>2, <2>3, <2>4, <2>5, SweepOne
<1>3. ASSUME NEW o, NEW r, End(j, o, r), UNCHANGED work,
             m.method = "discover" => r.code # "ok"
      PROVE  SweepInv'
  <2>1. pc' = [pc EXCEPT ![j] = "ended"] /\ out' = [out EXCEPT ![j] = r]
    BY <1>3 DEF End
  <2>2. /\ work'[j] = work[j] /\ pc'[j] = "ended" /\ method'[j] = m.method
        /\ out'[j] = r /\ work' = [work EXCEPT ![j] = work[j]]
    BY <1>0, <1>1, <1>3, <2>1
  <2> QED
    BY <1>0, <1>1, <1>3, <2>1, <2>2, SweepOne
<1>4. CASE Malformed(j, m)
  BY <1>3, <1>4 DEF Malformed, Failure, Outcome
<1>5. CASE ListArrives(j, m)
  BY <1>3, <1>5 DEF ListArrives, Lists
<1>6. CASE UnknownMethod(j, m)
  BY <1>3, <1>6 DEF UnknownMethod, Failure, Outcome
<1>7. ASSUME NEW o \in {"hub", "task"}, Refused(j, o, m) PROVE SweepInv'
  BY <1>3, <1>7 DEF Refused, Failure, Outcome
<1> QED
  BY <1>2, <1>4, <1>5, <1>6, <1>7 DEF Arrival

LEMMA SweepProgress ==
  ASSUME TypeOK, SweepInv, NEW j \in Job, Progress(j)
  PROVE  SweepInv'
<1>0. /\ pc = [k \in Job |-> pc[k]] /\ method = [k \in Job |-> method[k]]
      /\ work = [k \in Job |-> work[k]] /\ out = [k \in Job |-> out[k]]
      /\ Shaped(work[j])
      /\ method[j] = "discover" /\ pc[j] = "running" => Swept(work[j])
  BY DEF TypeOK, SweepInv
<1> DEFINE EndsWith(r) == pc' = [pc EXCEPT ![j] = "ended"] /\ out' = [out EXCEPT ![j] = r]
\* What ends otherwise than by a sweep is no discovery that succeeds.
<1>1. ASSUME NEW r, EndsWith(r), UNCHANGED <<method, work>>,
             method[j] = "discover" => r.code # "ok"
      PROVE  SweepInv'
  <2>1. /\ method' = [method EXCEPT ![j] = method[j]] /\ work' = [work EXCEPT ![j] = work[j]]
        /\ work'[j] = work[j] /\ pc'[j] = "ended" /\ method'[j] = method[j] /\ out'[j] = r
    BY <1>0, <1>1
  <2> QED
    BY <1>0, <1>1, <2>1, SweepOne
<1>2. CASE NetCommandEnds(j)
  <2>1. PICK r : End(j, origin[j], r)
    BY <1>2 DEF NetCommandEnds
  <2> QED
    BY <1>1, <1>2, <2>1 DEF NetCommandEnds, Completes, End, PingLike, SNMP
<1>3. CASE CustomCommandEnds(j)
  <2>1. \E r : End(j, origin[j], r)
    BY <1>3 DEF CustomCommandEnds
  <2>2. method[j] # "discover" /\ UNCHANGED <<method, work>>
    BY <1>3 DEF CustomCommandEnds, Completes, Programs, BuiltIn, VMware
  <2> QED
    BY <1>1, <2>1, <2>2 DEF End
<1>9. CASE FileReadEnds(j)
  <2>1. \E r : End(j, origin[j], r)
    BY <1>9 DEF FileReadEnds
  <2>2. method[j] # "discover" /\ UNCHANGED <<method, work>>
    BY <1>9 DEF FileReadEnds, Completes, Reads, BuiltIn, VMware
  <2> QED
    BY <1>1, <2>1, <2>2 DEF End
<1>4. CASE HardwareTold(j)
  <2>1. \E r : End(j, origin[j], r)
    BY <1>4 DEF HardwareTold
  <2> QED
    BY <1>1, <1>4, <2>1 DEF HardwareTold, Completes, End
<1>5. CASE CommandFails(j)
  <2>1. PICK r : r = Failure("InternalError") /\ End(j, origin[j], r)
    BY <1>5 DEF CommandFails
  <2>2. method[j] = "discover" => r.code # "ok"
    BY <2>1 DEF Failure, Outcome
  <2>3. UNCHANGED <<method, work>>
    BY <1>5 DEF CommandFails
  <2> QED
    BY <1>1, <2>1, <2>2, <2>3 DEF End
<1>6. CASE Found(j)
  <2>1. /\ pc[j] = "running" /\ work[j].cmd = "find" /\ UNCHANGED method
    BY <1>6 DEF Found, Completes
  <2>2. PICK n \in 0..Len(Inventory) :
          /\ work' = [work EXCEPT ![j].cmd = "info", ![j].found = SubSeq(Inventory, 1, n)]
          /\ IF method[j] = "discover" /\ n = 0
             THEN End(j, origin[j], Success(0)) ELSE GoesOn(j)
    BY <1>6 DEF Found
  <2> DEFINE w == [work[j] EXCEPT !.cmd = "info", !.found = SubSeq(Inventory, 1, n)]
  <2>3. work' = [work EXCEPT ![j] = w] /\ work'[j] = w
    BY <1>0, <2>2
  <2>4. /\ Shaped(w) /\ w.cmd = "info" /\ w.found = SubSeq(Inventory, 1, n)
        /\ w.at = work[j].at /\ w.asked = work[j].asked
    BY <1>0 DEF Shaped
  <2>5. /\ w.found \in Seq(STRING) /\ Len(w.found) = n /\ n \in Nat
        /\ n = 0 => w.found = <<>>
    <3>1. Inventory \in Seq(STRING) /\ Len(Inventory) \in Nat
      BY BatchAssumption
    <3>2. n \in Nat /\ 1 \in 1..Len(Inventory) + 1
      BY <3>1
    <3>3. /\ SubSeq(Inventory, 1, n) \in Seq(STRING)
          /\ Len(SubSeq(Inventory, 1, n)) = IF 1 <= n THEN n - 1 + 1 ELSE 0
      BY <3>1, <3>2, SubSeqProperties
    <3>4. SubSeq(Inventory, 1, n) \in Seq(STRING) /\ Len(SubSeq(Inventory, 1, n)) = n
      BY <3>2, <3>3
    <3>5. n = 0 => SubSeq(Inventory, 1, n) = <<>>
      BY <3>4, EmptySeq
    <3> QED
      BY <2>4, <3>2, <3>4, <3>5
  <2> HIDE DEF w
  <2>6. method' = [method EXCEPT ![j] = method[j]] /\ method'[j] = method[j]
    BY <1>0, <2>1
  <2>7. method[j] = "discover" => w.at = 1 /\ w.asked = <<>> /\ Listed(w)
    <3>1. ToSet(<<>>) = {}
      BY DEF ToSet
    <3> QED
      BY <1>0, <2>1, <2>4, <3>1 DEF Swept, Listed
  <2>8. CASE method[j] = "discover" /\ n = 0
    <3>1. EndsWith(Success(0)) /\ pc'[j] = "ended"
      BY <1>0, <2>2, <2>8 DEF End
    <3>2. w.asked = w.found
      BY <2>5, <2>7, <2>8
    <3> QED
      BY <2>3, <2>4, <2>6, <2>7, <2>8, <3>1, <3>2, SweepOne
  <2>9. CASE ~(method[j] = "discover" /\ n = 0)
    <3>1. UNCHANGED <<pc, out>>
      BY <2>2, <2>9 DEF GoesOn
    <3>2. /\ pc' = [pc EXCEPT ![j] = pc[j]] /\ out' = [out EXCEPT ![j] = out[j]]
          /\ pc'[j] = "running"
      BY <1>0, <2>1, <3>1
    <3>3. ASSUME method[j] = "discover" PROVE Swept(w)
      <4>1. w.at \in 1..Len(w.found) /\ w.at - 1 = 0
        BY <2>5, <2>7, <2>9, <3>3
      <4>2. SubSeq(w.found, 1, 0) = <<>>
        BY <2>5, SubSeqEmpty
      <4> QED
        BY <2>4, <2>5, <2>7, <3>3, <4>1, <4>2 DEF Swept
    <3> QED
      BY <2>3, <2>4, <2>6, <3>2, <3>3, SweepOne
  <2> QED
    BY <2>8, <2>9
<1>7. CASE BatchTold(j)
  <2> DEFINE w == work[j]
  <2>1. pc[j] = "running" /\ method[j] = "discover" /\ w.cmd = "info" /\ UNCHANGED method
    BY <1>7 DEF BatchTold, Completes
  <2>2. PICK told \in SUBSET ToSet(Inventory), n \in Size :
          LET new == [w EXCEPT !.at = @ + BatchSize, !.asked = @ \o Batch(w),
                               !.vms = @ \cup told,
                               !.leftOut = @ \cup (ToSet(Batch(w)) \ told)]
          IN /\ work' = [work EXCEPT ![j] = new]
             /\ IF new.at > Len(w.found) THEN End(j, origin[j], Success(n)) ELSE GoesOn(j)
    BY <1>7 DEF BatchTold
  <2>3. PICK new :
          /\ new = [w EXCEPT !.at = @ + BatchSize, !.asked = @ \o Batch(w),
                             !.vms = @ \cup told,
                             !.leftOut = @ \cup (ToSet(Batch(w)) \ told)]
          /\ work' = [work EXCEPT ![j] = new]
          /\ IF new.at > Len(w.found) THEN End(j, origin[j], Success(n)) ELSE GoesOn(j)
    BY <2>2
  <2>4. /\ Shaped(new) /\ new.cmd = "info" /\ new.found = w.found
        /\ new.at = w.at + BatchSize /\ new.asked = w.asked \o Batch(w)
        /\ new.vms = w.vms \cup told
        /\ new.leftOut = w.leftOut \cup (ToSet(Batch(w)) \ told)
    BY <1>0, <2>1, <2>3 DEF Shaped
  <2>5. Swept(w)
    BY <1>0, <2>1
  <2>6. /\ new.at <= Len(w.found) =>
             /\ new.at \in 1..Len(w.found)
             /\ new.asked = SubSeq(w.found, 1, new.at - 1)
        /\ new.at > Len(w.found) => new.asked = w.found
    BY <2>1, <2>4, <2>5, NextBatch
  <2>10. Listed(new)
    BY <2>1, <2>4, <2>5, NextList DEF Listed
  <2>7. /\ method' = [method EXCEPT ![j] = method[j]] /\ method'[j] = method[j]
        /\ work'[j] = new /\ work' = [work EXCEPT ![j] = new]
    BY <1>0, <2>1, <2>3
  <2>8. CASE new.at > Len(w.found)
    <3>1. EndsWith(Success(n)) /\ pc'[j] = "ended"
      BY <1>0, <2>3, <2>8 DEF End
    <3> QED
      BY <2>4, <2>6, <2>7, <2>8, <2>10, <3>1, SweepOne
  <2>9. CASE ~(new.at > Len(w.found))
    <3>1. UNCHANGED <<pc, out>>
      BY <2>3, <2>9 DEF GoesOn
    <3>2. /\ pc' = [pc EXCEPT ![j] = pc[j]] /\ out' = [out EXCEPT ![j] = out[j]]
          /\ pc'[j] = "running"
      BY <1>0, <2>1, <3>1
    <3>3. new.at <= Len(w.found) /\ w.found \in Seq(STRING)
      BY <2>1, <2>4, <2>5, <2>9, BatchAssumption DEF Swept
    <3>4. Swept(new)
      <4>1. new.found \in Seq(STRING)
        BY <2>1, <2>4, <2>5 DEF Swept
      <4> QED
        BY <2>4, <2>6, <2>10, <3>3, <4>1 DEF Swept
    <3> QED
      BY <2>4, <2>7, <3>2, <3>4, SweepOne
  <2> QED
    BY <2>8, <2>9
<1>8. CASE Delivered(j)
  <2>1. /\ pc' = [pc EXCEPT ![j] = "idle"] /\ method' = [method EXCEPT ![j] = ""]
        /\ work' = [work EXCEPT ![j] = NoWork] /\ out' = [out EXCEPT ![j] = None]
    BY <1>8 DEF Delivered
  <2>2. work'[j] = NoWork /\ method'[j] = ""
    BY <1>0, <2>1
  <2>3. Shaped(NoWork)
    BY DEF Shaped, NoWork
  <2> QED
    BY <2>1, <2>2, <2>3, SweepOne
<1> QED
  BY <1>2, <1>3, <1>4, <1>5, <1>6, <1>7, <1>8, <1>9 DEF Progress

\* For any inventory and size of a batch, a discovery that succeeds has asked
\* about every machine it found, each once, and lists every one but those that
\* govc left out of its answers.
THEOREM InventoryIsWhole == Spec => []WholeInventory
<1>1. Init => SweepInv
  <2> SUFFICES ASSUME Init PROVE SweepInv
    OBVIOUS
  <2>1. Shaped(NoWork)
    BY DEF Shaped, NoWork
  <2> QED
    BY <2>1 DEF Init, SweepInv
<1>2. TypeOK /\ SweepInv /\ [Next]_vars => SweepInv'
  <2> SUFFICES ASSUME TypeOK, SweepInv, [Next]_vars PROVE SweepInv'
    OBVIOUS
  <2>1. CASE UNCHANGED <<pc, method, work, out>>
    BY <2>1 DEF SweepInv
  <2>2. CASE UNCHANGED vars \/ LinkFails \/ Reconnect \/ Stop \/ Tick
    BY <2>1, <2>2 DEF vars, jobVars, LinkFails, Reconnect, Stop, Tick
  <2>3. ASSUME NEW j \in Job, NEW m \in Input[j], Arrival(j, m) PROVE SweepInv'
    BY <2>3, SweepArrival
  <2>4. ASSUME NEW j \in Job, Progress(j) PROVE SweepInv'
    BY <2>4, SweepProgress
  <2> QED
    BY <2>2, <2>3, <2>4 DEF Next
<1>3. SweepInv => WholeInventory
  BY DEF SweepInv, WholeInventory, Listed
<1>4. IInv => TypeOK
  BY DEF IInv
<1> QED
  BY <1>1, <1>2, <1>3, <1>4, Invariant, PTL DEF Spec

-----------------------------------------------------------------------------
(* Names of devices                                                        *)

Device == [raw : DeviceName, name : DeviceName]

Same(ds, raw) == {i \in DOMAIN ds : ds[i].raw = raw}

Plain(ds) == \A i \in DOMAIN ds : ds[i].raw.tail = <<>>

\* A name is the raw name, or that with a number no greater than how many
\* devices have it.
Made(ds) ==
  \A i \in DOMAIN ds :
     \/ ds[i].name = ds[i].raw
     \/ \E n \in Nat : /\ n <= Cardinality(Same(ds, ds[i].raw))
                       /\ ds[i].name = Suffixed(ds[i].raw, n)

Distinct(ds) == \A i, k \in DOMAIN ds : ds[i].name = ds[k].name => i = k

Fine(ds) == ds \in Seq(Device) /\ (Plain(ds) => Made(ds) /\ Distinct(ds))

NameInv ==
  /\ out = [j \in Job |-> out[j]]
  /\ \A j \in Job : pc[j] = "ended" => Fine(out[j].names)

LEMMA NoName == Fine(<<>>)
<1>1. <<>> \in Seq(Device) /\ DOMAIN <<>> = {}
  OBVIOUS
<1> QED
  BY <1>1 DEF Fine, Plain, Made, Distinct

LEMMA SuffixedName ==
  ASSUME NEW raw \in DeviceName, NEW n \in Nat
  PROVE  /\ Suffixed(raw, n) \in DeviceName
         /\ Suffixed(raw, n).stem = raw.stem /\ Suffixed(raw, n).tail = Append(raw.tail, n)
<1>1. Append(raw.tail, n) \in Seq(Nat)
  BY DEF DeviceName
<1> DEFINE more == Append(raw.tail, n)
<1> HIDE DEF more
<1>2. [raw EXCEPT !.tail = more] = [stem |-> raw.stem, tail |-> more]
  BY DEF DeviceName
<1>3. Suffixed(raw, n) = [stem |-> raw.stem, tail |-> more]
  BY <1>2 DEF Suffixed, more
<1> QED
  BY <1>1, <1>3 DEF DeviceName, more

\* A number makes a name that is not plain; two plain names with numbers are
\* the same only if the names and the numbers are.
LEMMA SuffixTells ==
  ASSUME NEW a \in DeviceName, NEW b \in DeviceName, NEW m \in Nat, NEW n \in Nat,
         a.tail = <<>>, b.tail = <<>>
  PROVE  Suffixed(a, m) # b /\ (Suffixed(a, m) = Suffixed(b, n) => a = b /\ m = n)
<1>1. Append(<<>>, m) # <<>> /\ (Append(<<>>, m) = Append(<<>>, n) => m = n)
  <2>1. Append(<<>>, m)[1] = m /\ Append(<<>>, n)[1] = n /\ Len(Append(<<>>, m)) = 1
    OBVIOUS
  <2>2. Len(<<>>) = 0
    OBVIOUS
  <2> QED
    BY <2>1, <2>2
<1>2. a.stem = b.stem => a = b
  BY DEF DeviceName
<1>3. /\ Suffixed(a, m).stem = a.stem /\ Suffixed(a, m).tail = Append(<<>>, m)
      /\ Suffixed(b, n).stem = b.stem /\ Suffixed(b, n).tail = Append(<<>>, n)
  BY SuffixedName
<1> QED
  BY <1>1, <1>2, <1>3, Zenon

LEMMA SameCount ==
  ASSUME NEW ds \in Seq(Device), NEW raw
  PROVE  IsFiniteSet(Same(ds, raw)) /\ Cardinality(Same(ds, raw)) \in Nat
<1>1. Same(ds, raw) \subseteq 1..Len(ds) /\ Len(ds) \in Nat
  BY DEF Same
<1>2. IsFiniteSet(1..Len(ds))
  BY <1>1, FS_Interval
<1> QED
  BY <1>1, <1>2, FS_Subset, FS_CardinalityType

\* AddDevice appends one device, whose name none of the others has.
LEMMA AddedDevice ==
  ASSUME NEW ds \in Seq(Device), NEW raw \in DeviceName
  PROVE  \E name \in DeviceName :
           /\ AddDevice(ds, raw) = Append(ds, [raw |-> raw, name |-> name])
           /\ \/ name = raw /\ \A i \in DOMAIN ds : ds[i].name # raw
              \/ name = Suffixed(raw, Cardinality(Same(ds, raw)) + 1)
<1> DEFINE count == Cardinality(Same(ds, raw))
           name == IF \E i \in DOMAIN ds : ds[i].name = raw
                   THEN Suffixed(raw, count + 1) ELSE raw
<1>1. count \in Nat
  BY SameCount
<1>2. name \in DeviceName
  <2> HIDE DEF count
  <2> QED
    BY <1>1, SuffixedName
<1>3. AddDevice(ds, raw) = Append(ds, [raw |-> raw, name |-> name])
  BY DEF AddDevice, Same
<1> QED
  BY <1>2, <1>3

LEMMA AddedFine ==
  ASSUME NEW ds, Fine(ds), NEW raw \in DeviceName
  PROVE  Fine(AddDevice(ds, raw))
<1>0. ds \in Seq(Device) /\ (Plain(ds) => Made(ds) /\ Distinct(ds))
  BY DEF Fine
<1>1. PICK name \in DeviceName :
        /\ AddDevice(ds, raw) = Append(ds, [raw |-> raw, name |-> name])
        /\ \/ name = raw /\ \A i \in DOMAIN ds : ds[i].name # raw
           \/ name = Suffixed(raw, Cardinality(Same(ds, raw)) + 1)
  BY <1>0, AddedDevice
<1> DEFINE new == [raw |-> raw, name |-> name]  l == Len(ds) + 1
<1>2. PICK es : es = Append(ds, new)
  OBVIOUS
<1>3. new \in Device /\ new.raw = raw /\ new.name = name
  BY DEF Device
<1> HIDE DEF new
<1>4. /\ es \in Seq(Device) /\ DOMAIN es = DOMAIN ds \cup {l} /\ l \notin DOMAIN ds
      /\ es[l] = new /\ \A i \in DOMAIN ds : es[i] = ds[i]
  BY <1>0, <1>2, <1>3
<1> HIDE DEF l
<1>5. \A i \in DOMAIN ds : ds[i].raw \in DeviceName /\ ds[i].name \in DeviceName
  <2>1. \A i \in DOMAIN ds : ds[i] \in Device
    BY <1>0
  <2> QED
    BY <2>1 DEF Device
<1>6. ASSUME Plain(es) PROVE Made(es) /\ Distinct(es)
  <2>1. Plain(ds) /\ raw.tail = <<>>
    BY <1>3, <1>4, <1>6 DEF Plain
  <2>2. Made(ds) /\ Distinct(ds) /\ \A i \in DOMAIN ds : ds[i].raw.tail = <<>>
    BY <1>0, <2>1 DEF Plain
  <2>3. \A r : Same(ds, r) \subseteq Same(es, r)
    BY <1>4 DEF Same
  <2>4. ASSUME NEW r
        PROVE  /\ Cardinality(Same(ds, r)) \in Nat /\ Cardinality(Same(es, r)) \in Nat
               /\ Cardinality(Same(ds, r)) <= Cardinality(Same(es, r))
    BY <1>0, <1>4, <2>3, SameCount, FS_Subset
  <2>5. Cardinality(Same(es, raw)) = Cardinality(Same(ds, raw)) + 1
    <3>1. Same(es, raw) = Same(ds, raw) \cup {l} /\ l \notin Same(ds, raw)
      BY <1>3, <1>4 DEF Same
    <3> QED
      BY <1>0, <3>1, SameCount, FS_AddElement
  <2>6. Made(es)
    <3> SUFFICES ASSUME NEW i \in DOMAIN es
                 PROVE  \/ es[i].name = es[i].raw
                        \/ \E n \in Nat : /\ n <= Cardinality(Same(es, es[i].raw))
                                          /\ es[i].name = Suffixed(es[i].raw, n)
      BY DEF Made
    <3>1. CASE i = l
      <4>1. Cardinality(Same(ds, raw)) + 1 \in Nat
        BY <2>4
      <4> QED
        BY <1>1, <1>3, <1>4, <2>4, <2>5, <3>1, <4>1
    <3>2. CASE i \in DOMAIN ds
      <4>1. es[i] = ds[i]
        BY <1>4, <3>2
      <4>2. CASE ds[i].name = ds[i].raw
        BY <4>1, <4>2
      <4>3. ASSUME NEW n \in Nat, n <= Cardinality(Same(ds, ds[i].raw)),
                   ds[i].name = Suffixed(ds[i].raw, n)
            PROVE  n <= Cardinality(Same(es, ds[i].raw))
        BY <2>4, <4>3
      <4> QED
        BY <2>2, <3>2, <4>1, <4>2, <4>3 DEF Made
    <3> QED
      BY <1>4, <3>1, <3>2
  <2>7. ASSUME NEW i \in DOMAIN ds PROVE ds[i].name # name
    <3>1. CASE name = raw /\ \A k \in DOMAIN ds : ds[k].name # raw
      BY <3>1
    <3>2. CASE name = Suffixed(raw, Cardinality(Same(ds, raw)) + 1)
      <4>1. ds[i].raw \in DeviceName /\ ds[i].raw.tail = <<>>
            /\ Cardinality(Same(ds, raw)) \in Nat
            /\ Cardinality(Same(ds, raw)) + 1 \in Nat
        BY <1>5, <2>2, <2>4
      <4>2. CASE ds[i].name = ds[i].raw
        BY <2>1, <3>2, <4>1, <4>2, SuffixTells
      <4>3. ASSUME NEW n \in Nat, n <= Cardinality(Same(ds, ds[i].raw)),
                   ds[i].name = Suffixed(ds[i].raw, n), ds[i].name = name
            PROVE  FALSE
        <5>0. Suffixed(ds[i].raw, n) = Suffixed(raw, Cardinality(Same(ds, raw)) + 1)
          BY <3>2, <4>3
        <5>1. ds[i].raw = raw /\ n = Cardinality(Same(ds, raw)) + 1
          BY <2>1, <4>1, <5>0, SuffixTells
        <5> QED
          BY <4>1, <4>3, <5>1
      <4> QED
        BY <2>2, <4>2, <4>3 DEF Made
    <3> QED
      BY <1>1, <3>1, <3>2
  <2>8. Distinct(es)
    BY <1>3, <1>4, <2>2, <2>7 DEF Distinct
  <2> QED
    BY <2>6, <2>8
<1> QED
  BY <1>1, <1>2, <1>4, <1>6 DEF Fine, new

NamesBody(f, n, raws) ==
  [i \in 0..n |-> IF i = 0 THEN <<>> ELSE AddDevice(f[i-1], raws[i])]

\* The names of any list of devices are fine.
LEMMA NamesFine ==
  ASSUME NEW raws \in Seq(DeviceName)
  PROVE  Fine(Names(raws))
<1> DEFINE n == Len(raws)  V == {ds \in Seq(Device) : Fine(ds)}
           step == [p \in (1..n) \X V |-> AddDevice(p[2], raws[p[1]])]
<1>1. n \in Nat /\ \A i \in 1..n : raws[i] \in DeviceName
  BY ElementOfSeq
<1>2. <<>> \in V /\ \A v \in V, i \in 1..n : AddDevice(v, raws[i]) \in V
  <2>1. \A v \in V, i \in 1..n : Fine(AddDevice(v, raws[i]))
    BY <1>1, AddedFine
  <2> QED
    BY <2>1, NoName DEF Fine
<1> HIDE DEF n, V
<1>3. step \in [(1..n) \X V -> V]
  BY <1>2
<1>4. PICK g \in [0..n -> V] : Steps(g, <<>>, n, step)
  <2> HIDE DEF step
  <2> QED
    BY <1>1, <1>2, <1>3, Recursion
<1>5. g[0] = <<>> /\ \A i \in 1..n : g[i] = AddDevice(g[i-1], raws[i])
  <2> SUFFICES ASSUME NEW i \in 1..n PROVE g[i] = AddDevice(g[i-1], raws[i])
    BY <1>4 DEF Steps
  <2>1. i - 1 \in 0..n
    BY <1>1
  <2>2. g[i-1] \in V
    BY <2>1
  <2> QED
    BY <1>4, <2>2 DEF Steps
<1> HIDE DEF step
<1>6. g = NamesBody(g, n, raws)
  <2>1. \A i \in 0..n : i = 0 \/ i \in 1..n
    BY <1>1
  <2>2. [i \in 0..n |-> g[i]] = NamesBody(g, n, raws)
    BY <1>5, <2>1 DEF NamesBody
  <2> QED
    BY <2>2
<1>7. ASSUME NEW h, h = NamesBody(h, n, raws) PROVE h[n] = g[n]
  <2> DEFINE P == {i \in 0..n : h[i] = g[i]}
  <2>1. 0 \in P
    BY <1>1, <1>5, <1>7 DEF NamesBody
  <2>2. ASSUME NEW i \in 1..n, i - 1 \in P PROVE i \in P
    <3>1. i \in 0..n /\ i # 0
      BY <1>1
    <3>2. NamesBody(h, n, raws)[i] = AddDevice(h[i-1], raws[i])
      BY <3>1 DEF NamesBody
    <3> QED
      BY <1>5, <1>7, <2>2, <3>1, <3>2
  <2>3. n \in P
    <3> HIDE DEF P
    <3>1. 0..n \subseteq P
      BY <1>1, <2>1, <2>2, Places
    <3> QED
      BY <1>1, <3>1
  <2> QED
    BY <2>3
<1>8. Names(raws) = (CHOOSE f : f = NamesBody(f, n, raws))[n]
  BY DEF Names, NamesBody, n
<1>9. (CHOOSE f : f = NamesBody(f, n, raws))[n] = g[n]
  BY <1>6, <1>7
<1> QED
  BY <1>1, <1>8, <1>9 DEF V

\* A job that ends with a fine list of names, or with none, keeps them fine.
LEMMA NameEnd ==
  ASSUME TypeOK, NameInv, NEW j \in Job, NEW o, NEW result,
         End(j, o, result), Fine(result.names)
  PROVE  NameInv'
<1>1. pc' = [pc EXCEPT ![j] = "ended"] /\ out' = [out EXCEPT ![j] = result]
  BY DEF End
<1>2. out'[j] = result /\ \A k \in Job \ {j} : pc'[k] = pc[k] /\ out'[k] = out[k]
  BY <1>1 DEF NameInv, TypeOK
<1>3. out' = [k \in Job |-> out'[k]]
  BY <1>1 DEF NameInv
<1> QED
  BY <1>2, <1>3 DEF NameInv

LEMMA NameSame ==
  ASSUME NameInv, UNCHANGED <<pc, out>>
  PROVE  NameInv'
BY DEF NameInv

LEMMA Nameless ==
  /\ \A code : Fine(Failure(code).names)
  /\ \A n : Fine(Success(n).names)
  /\ \A code, exit, fits : Fine(Outcome(code, exit, fits, <<>>).names)
BY NoName DEF Failure, Success, Outcome

LEMMA NameArrival ==
  ASSUME TypeOK, NameInv, NEW j \in Job, NEW m \in Input[j], Arrival(j, m)
  PROVE  NameInv'
<1>1. CASE Malformed(j, m)
  BY <1>1, NameEnd, Nameless DEF Malformed
<1>2. CASE ListArrives(j, m)
  BY <1>2, NameEnd, Nameless DEF ListArrives
<1>3. CASE UnknownMethod(j, m)
  BY <1>3, NameEnd, Nameless DEF UnknownMethod
<1>4. ASSUME NEW o, Refused(j, o, m) PROVE NameInv'
  BY <1>4, NameEnd, Nameless DEF Refused
<1>5. ASSUME NEW o, Launch(j, o, m) PROVE NameInv'
  <2>1. pc' = [pc EXCEPT ![j] = "running"] /\ UNCHANGED out
    BY <1>5 DEF Launch
  <2> QED
    BY <2>1 DEF NameInv, TypeOK
<1> QED
  BY <1>1, <1>2, <1>3, <1>4, <1>5 DEF Arrival

LEMMA NameProgress ==
  ASSUME TypeOK, NameInv, NEW j \in Job, Progress(j)
  PROVE  NameInv'
<1>1. CASE NetCommandEnds(j)
  BY <1>1, NameEnd, Nameless DEF NetCommandEnds
<1>2. CASE CustomCommandEnds(j)
  <2>1. PICK code, exit, fits : End(j, origin[j], Outcome(code, exit, fits, <<>>))
    BY <1>2 DEF CustomCommandEnds, CustomResult
  <2> QED
    BY <2>1, NameEnd, Nameless
<1>3. CASE Found(j)
  <2>1. End(j, origin[j], Success(0)) \/ GoesOn(j)
    BY <1>3 DEF Found
  <2>2. CASE GoesOn(j)
    BY <2>2, NameSame DEF GoesOn
  <2> QED
    BY <2>1, <2>2, NameEnd, Nameless
<1>4. CASE BatchTold(j)
  <2>1. (\E n : End(j, origin[j], Success(n))) \/ GoesOn(j)
    BY <1>4 DEF BatchTold
  <2>2. CASE GoesOn(j)
    BY <2>2, NameSame DEF GoesOn
  <2> QED
    BY <2>1, <2>2, NameEnd, Nameless
<1>5. CASE HardwareTold(j)
  <2>1. PICK raws, fits :
          raws \in Devices /\ End(j, origin[j], Outcome("ok", 0, fits, Names(raws)))
    BY <1>5 DEF HardwareTold
  <2>2. Fine(Names(raws))
    <3>1. raws \in Seq(DeviceName)
      BY <2>1, DevicesAssumption
    <3> QED
      BY <3>1, NamesFine
  <2>3. Fine(Outcome("ok", 0, fits, Names(raws)).names)
    BY <2>2 DEF Outcome
  <2> QED
    BY <2>1, <2>3, NameEnd
<1>6. CASE CommandFails(j)
  BY <1>6, NameEnd, Nameless DEF CommandFails
<1>7. CASE Delivered(j)
  <2>1. pc' = [pc EXCEPT ![j] = "idle"] /\ out' = [out EXCEPT ![j] = None]
    BY <1>7 DEF Delivered
  <2> QED
    BY <2>1 DEF NameInv, TypeOK
<1>8. CASE FileReadEnds(j)
  BY <1>8, NameEnd, Nameless DEF FileReadEnds
<1> QED
  BY <1>1, <1>2, <1>3, <1>4, <1>5, <1>6, <1>7, <1>8 DEF Progress

\* For any lists of devices a host reports, the disks and the adapters of a
\* machine get distinct names, unless a reported name looks like a made one.
THEOREM NamesAreDistinct == Spec => []NamesDistinct
<1>1. Init => NameInv
  BY DEF Init, NameInv
<1>2. TypeOK /\ NameInv /\ [Next]_vars => NameInv'
  <2> SUFFICES ASSUME TypeOK, NameInv, [Next]_vars PROVE NameInv'
    OBVIOUS
  <2>1. CASE UNCHANGED <<pc, out>>
    BY <2>1 DEF NameInv
  <2>2. CASE UNCHANGED vars \/ LinkFails \/ Reconnect \/ Stop \/ Tick
    BY <2>1, <2>2 DEF vars, jobVars, LinkFails, Reconnect, Stop, Tick
  <2>3. ASSUME NEW j \in Job, NEW m \in Input[j], Arrival(j, m) PROVE NameInv'
    BY <2>3, NameArrival
  <2>4. ASSUME NEW j \in Job, Progress(j) PROVE NameInv'
    BY <2>4, NameProgress
  <2> QED
    BY <2>2, <2>3, <2>4 DEF Next
<1>3. NameInv => NamesDistinct
  BY DEF NameInv, Fine, Plain, Distinct, NamesDistinct
<1>4. IInv => TypeOK
  BY DEF IInv
<1> QED
  BY <1>1, <1>2, <1>3, <1>4, Invariant, PTL DEF Spec
=============================================================================
