------------------------- MODULE AgentLifecycleProofs -------------------------
(***************************************************************************)
(* Proofs about AgentLifecycle, for any hubs, any lists a hub may push and *)
(* any ceiling of the delay.                                               *)
(***************************************************************************)
EXTENDS AgentLifecycle, TLAPS

\* Lists are handled only while connectAndRun reads or waits for them, so none
\* is between the choice of a hub and the connection to it.
HandlingInv == handling # {} => pc \in {"read", "jobs"}

Met == {"dialled", "read", "jobs", "drop", "close", "advance", "backoff"}

\* From a connection to the delay after it, the delay is the first one.
MetInv == pc \in Met /\ met => backoff = 1

IInv == TypeOK /\ IdxInRange /\ DialsListed /\ HandlingInv /\ MetInv

-----------------------------------------------------------------------------
(* Lists                                                                   *)

LEMMA First ==
  ASSUME NEW list \in Seq(Hub), list # <<>>
  PROVE  1 \in DOMAIN list /\ list[1] \in Hub
<1>1. Len(list) \in Nat /\ Len(list) # 0 /\ DOMAIN list = 1 .. Len(list)
  OBVIOUS
<1> QED
  BY <1>1

\* The position after the last one is the first.
LEMMA NextInRange ==
  ASSUME TypeOK, IdxInRange
  PROVE  NextIdx \in DOMAIN hubURLs /\ NextIdx \in Nat
<1>1. /\ Len(hubURLs) \in Nat /\ Len(hubURLs) # 0
      /\ DOMAIN hubURLs = 1 .. Len(hubURLs)
  BY DEF TypeOK
<1>2. \A n \in Nat \ {0}, i \in Nat : i % n \in 0 .. n - 1
  OBVIOUS
<1>3. activeURLIdx % Len(hubURLs) \in 0 .. Len(hubURLs) - 1
  BY <1>1, <1>2 DEF TypeOK
<1> QED
  BY <1>1, <1>3 DEF NextIdx

LEMMA NextDelayInRange ==
  ASSUME TypeOK
  PROVE  NextDelay \in 1 .. MaxBackoff
BY BoundAssumption DEF TypeOK, NextDelay, Min2

-----------------------------------------------------------------------------
(* Steps                                                                   *)

LEMMA InitInv == Init => IInv
<1> SUFFICES ASSUME Init PROVE IInv
  OBVIOUS
<1>1. /\ Configured \in Seq(Hub) /\ Configured # <<>>
      /\ 1 \in DOMAIN Configured /\ Configured[1] \in Hub
  BY ListAssumption, First
<1>2. MaxPush \in Nat /\ 1 \in 1 .. MaxBackoff
  BY BoundAssumption
<1>3. hubURLs \in Seq(Hub) /\ hubURLs # <<>> /\ activeURLIdx \in Nat /\ url \in Hub
  BY <1>1 DEF Init
<1>4. TypeOK
  <2>1. /\ pc = "check" /\ backoff = 1 /\ met = FALSE /\ stopper = "idle"
        /\ hubUp \in SUBSET Hub /\ handling \in SUBSET Pushed
        /\ jobs = 0 /\ pushes \in 0 .. MaxPush
    BY <1>2 DEF Init
  <2>2. /\ session = FALSE /\ open = FALSE /\ link = FALSE
        /\ ctxDone = FALSE /\ stopSeen = "none"
    BY DEF Init
  <2> QED
    BY <1>2, <1>3, <2>1, <2>2 DEF TypeOK
<1>5. IdxInRange /\ DialsListed /\ HandlingInv /\ MetInv
  BY <1>1 DEF Init, IdxInRange, DialsListed, HandlingInv, MetInv, Met
<1> QED
  BY <1>4, <1>5 DEF IInv

\* A step that leaves lists, delay and handled messages keeps the invariant if
\* it comes to no place that asks for more.
LEMMA Moves ==
  ASSUME IInv, TypeOK', UNCHANGED <<urlVars, handling>>,
         pc' \in {"dial", "dialled"} => pc \in {"dial", "dialled"},
         handling # {} => pc' \in {"read", "jobs"},
         pc' \in Met /\ met' => backoff' = 1
  PROVE  IInv'
BY DEF IInv, IdxInRange, DialsListed, HandlingInv, MetInv, urlVars

LEMMA StartStep ==
  ASSUME IInv, Check \/ Advance \/ Backoff
  PROVE  IInv'
<1>0. TypeOK /\ IdxInRange /\ DialsListed /\ HandlingInv /\ MetInv
  BY DEF IInv
<1>1. CASE Check
  <2>1. hubURLs[activeURLIdx] \in Hub /\ hubURLs[activeURLIdx] \in ToSet(hubURLs)
    BY <1>0 DEF TypeOK, IdxInRange, ToSet
  <2>2. TypeOK'
    BY <1>0, <1>1, <2>1 DEF Check, TypeOK, timeVars, connVars, msgVars, stopVars
  <2>3. DialsListed'
    BY <1>1, <2>1 DEF Check, DialsListed
  <2>4. IdxInRange' /\ HandlingInv' /\ MetInv'
    BY <1>0, <1>1 DEF Check, IdxInRange, HandlingInv, MetInv, Met, timeVars, msgVars
  <2> QED
    BY <2>2, <2>3, <2>4 DEF IInv
<1>2. CASE Advance
  <2>1. NextIdx \in DOMAIN hubURLs /\ NextIdx \in Nat
    BY <1>0, NextInRange
  <2>2. TypeOK'
    BY <1>0, <1>2, <2>1 DEF Advance, TypeOK, timeVars, connVars, msgVars, stopVars
  <2>3. IdxInRange'
    BY <1>2, <2>1 DEF Advance, IdxInRange
  <2>4. DialsListed' /\ HandlingInv' /\ MetInv'
    BY <1>0, <1>2 DEF Advance, DialsListed, HandlingInv, MetInv, Met, timeVars, msgVars
  <2> QED
    BY <2>2, <2>3, <2>4 DEF IInv
<1>3. CASE Backoff
  <2>1. NextDelay \in 1 .. MaxBackoff
    BY <1>0, NextDelayInRange
  <2>2. TypeOK'
    BY <1>0, <1>3, <2>1 DEF Backoff, TypeOK, urlVars, connVars, msgVars, stopVars
  <2> QED
    BY <1>0, <1>3, <2>2, Moves DEF Backoff, HandlingInv, Met, msgVars
<1> QED
  BY <1>1, <1>2, <1>3

LEMMA DialStep ==
  ASSUME IInv, DialFails \/ Dial \/ StoreSession
  PROVE  IInv'
<1>0. TypeOK /\ HandlingInv /\ MetInv
  BY DEF IInv
<1>1. CASE DialFails
  <2>1. TypeOK'
    BY <1>0, <1>1 DEF DialFails, TypeOK, urlVars, connVars, msgVars, stopVars
  <2> QED
    BY <1>0, <1>1, <2>1, Moves DEF DialFails, HandlingInv, msgVars
<1>2. CASE Dial
  <2>0. 1 \in 1 .. MaxBackoff
    BY BoundAssumption
  <2>1. TypeOK'
    BY <1>0, <1>2, <2>0 DEF Dial, TypeOK, urlVars, msgVars, stopVars
  <2> QED
    BY <1>0, <1>2, <2>1, Moves DEF Dial, HandlingInv, msgVars
<1>3. CASE StoreSession
  <2>1. TypeOK'
    BY <1>0, <1>3 DEF StoreSession, TypeOK, urlVars, timeVars, msgVars, stopVars
  <2> QED
    BY <1>0, <1>3, <2>1, Moves
    DEF StoreSession, HandlingInv, MetInv, Met, timeVars, msgVars
<1> QED
  BY <1>1, <1>2, <1>3

LEMMA CloseStep ==
  ASSUME IInv, ReadFails \/ JobsDone \/ DropSession \/ CloseConn
  PROVE  IInv'
<1>0. TypeOK /\ HandlingInv /\ MetInv
  BY DEF IInv
<1>1. TypeOK'
  <2>1. CASE ReadFails \/ JobsDone
    BY <1>0, <2>1 DEF ReadFails, JobsDone, TypeOK, urlVars, timeVars, connVars,
                      msgVars, stopVars
  <2>2. CASE DropSession \/ CloseConn
    BY <1>0, <2>2 DEF DropSession, CloseConn, TypeOK, urlVars, timeVars, msgVars,
                      stopVars
  <2> QED
    BY <2>1, <2>2
<1>2. UNCHANGED <<urlVars, timeVars, handling>>
  BY DEF ReadFails, JobsDone, DropSession, CloseConn, msgVars
<1>3. /\ pc \in Met /\ pc' \in {"jobs", "drop", "close", "advance"}
      /\ handling # {} => pc' \in {"read", "jobs"}
  BY <1>0 DEF ReadFails, JobsDone, DropSession, CloseConn, HandlingInv, Met
<1> QED
  BY <1>0, <1>1, <1>2, <1>3, Moves DEF MetInv, timeVars

LEMMA MessageStep ==
  ASSUME IInv, Receive \/ Goroutines
  PROVE  IInv'
<1>0. TypeOK /\ IdxInRange /\ DialsListed /\ HandlingInv /\ MetInv
  BY DEF IInv
<1>1. CASE Receive
  <2>1. TypeOK'
    BY <1>0, <1>1, BoundAssumption
    DEF Receive, TypeOK, urlVars, timeVars, connVars, stopVars
  <2> QED
    BY <1>0, <1>1, <2>1 DEF Receive, IInv, IdxInRange, DialsListed, HandlingInv,
                            MetInv, urlVars, timeVars
<1>2. CASE JobEnds
  <2>1. TypeOK'
    BY <1>0, <1>2 DEF JobEnds, TypeOK, urlVars, timeVars, connVars, stopVars
  <2> QED
    BY <1>0, <1>2, <2>1, Moves DEF JobEnds, HandlingInv, MetInv, timeVars
<1>3. ASSUME NEW list \in Pushed, UpdateFailoverURLs(list) PROVE IInv'
  <2>1. list \in Seq(Hub) /\ handling' \in SUBSET Pushed
    BY <1>0, <1>3, ListAssumption DEF UpdateFailoverURLs, TypeOK
  <2>2. \/ UNCHANGED <<hubURLs, activeURLIdx>>
        \/ hubURLs' = list /\ list # <<>> /\ activeURLIdx' = 1 /\ 1 \in DOMAIN list
    BY <1>3, <2>1, First DEF UpdateFailoverURLs
  <2>3. TypeOK'
    BY <1>0, <1>3, <2>1, <2>2
    DEF UpdateFailoverURLs, TypeOK, timeVars, connVars, stopVars
  <2>4. IdxInRange'
    BY <1>0, <2>2 DEF IdxInRange
  <2>5. pc' = pc /\ pc \in {"read", "jobs"}
    BY <1>0, <1>3 DEF UpdateFailoverURLs, HandlingInv
  <2>6. DialsListed' /\ HandlingInv' /\ MetInv'
    BY <1>0, <1>3, <2>5
    DEF UpdateFailoverURLs, DialsListed, HandlingInv, MetInv, timeVars
  <2> QED
    BY <2>3, <2>4, <2>6 DEF IInv
<1> QED
  BY <1>1, <1>2, <1>3 DEF Goroutines

LEMMA OutsideStep ==
  ASSUME IInv, NEW h \in Hub,
         StopBegins \/ StopCancels \/ StopCloses \/ LinkDown \/ HubGoes(h)
  PROVE  IInv'
<1>0. TypeOK /\ HandlingInv /\ MetInv
  BY DEF IInv
<1>1. TypeOK'
  <2>1. CASE StopBegins \/ StopCancels \/ StopCloses
    BY <1>0, <2>1 DEF StopBegins, StopCancels, StopCloses, TypeOK,
                      urlVars, timeVars, connVars, msgVars
  <2>2. CASE LinkDown
    BY <1>0, <2>2 DEF LinkDown, TypeOK, urlVars, timeVars, msgVars, stopVars
  <2>3. CASE HubGoes(h)
    BY <1>0, <2>3 DEF HubGoes, TypeOK, urlVars, timeVars, msgVars, stopVars
  <2> QED
    BY <2>1, <2>2, <2>3
<1>2. UNCHANGED <<pc, urlVars, timeVars, handling>>
  BY DEF StopBegins, StopCancels, StopCloses, LinkDown, HubGoes, msgVars
<1> QED
  BY <1>0, <1>1, <1>2, Moves DEF HandlingInv, MetInv, timeVars

-----------------------------------------------------------------------------
\* The inductive invariant holds in every reachable state.
THEOREM Invariant == Spec => []IInv
<1>1. IInv /\ [Next]_vars => IInv'
  <2> SUFFICES ASSUME IInv, [Next]_vars PROVE IInv'
    OBVIOUS
  <2>1. CASE UNCHANGED vars
    BY <2>1 DEF vars, urlVars, timeVars, connVars, msgVars, stopVars, IInv, TypeOK,
                IdxInRange, DialsListed, HandlingInv, MetInv
  <2>2. CASE Main
    BY <2>2, StartStep, DialStep, CloseStep DEF Main
  <2>3. CASE Receive \/ Goroutines
    BY <2>3, MessageStep
  <2>4. PICK h \in Hub : TRUE
    BY ListAssumption, First
  <2>5. CASE StopBegins \/ StopCancels \/ StopCloses \/ LinkDown
    BY <2>4, <2>5, OutsideStep
  <2>6. ASSUME NEW g \in Hub, HubGoes(g) PROVE IInv'
    BY <2>6, OutsideStep
  <2> QED
    BY <2>1, <2>2, <2>3, <2>5, <2>6 DEF Next
<1> QED
  BY <1>1, InitInv, PTL DEF Spec

\* Every variable keeps its type: the list is never empty, and the delay never
\* passes its ceiling.
THEOREM TypeCorrect == Spec => []TypeOK
<1>1. IInv => TypeOK
  BY DEF IInv
<1> QED
  BY <1>1, Invariant, PTL

\* hubURLs[activeURLIdx] never crashes the agent, whatever lists replace the one
\* that Start walks through.
THEOREM PositionValid == Spec => []IdxInRange
<1>1. IInv => IdxInRange
  BY DEF IInv
<1> QED
  BY <1>1, Invariant, PTL

\* Only hubs of the present list are dialled: jobWg.Wait lets no list arrive
\* between the choice and the dial.
THEOREM OnlyListedDialled == Spec => []DialsListed
<1>1. IInv => DialsListed
  BY DEF IInv
<1> QED
  BY <1>1, Invariant, PTL

\* After a connection the delay starts anew, for any ceiling.
THEOREM DelayStartsAnew == Spec => []FreshBackoff
<1>1. IInv => FreshBackoff
  BY DEF IInv, MetInv, Met, FreshBackoff
<1> QED
  BY <1>1, Invariant, PTL
=============================================================================
