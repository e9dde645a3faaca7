-------------------------- MODULE StoreForwardProofs --------------------------
(***************************************************************************)
(* Proofs about StoreForward, for any results and any numbers of           *)
(* connections, crashes and failing saves.                                 *)
(***************************************************************************)
EXTENDS StoreForward, SequenceTheorems, TLAPS

In(r, s)    == \E i \in 1..Len(s) : s[i] = r
Distinct(s) == \A i, j \in 1..Len(s) : s[i] = s[j] => i = j

\* The flush loop holds what it has read, some of which is written.
Working == flusher.pc \in {"write", "remove", "saving"}

\* One operation saves at a time; what it will leave was made from the file
\* as it still is.
SaveInv ==
  /\ corrupt => torn
  /\ saving.by = "nobody" => saving = Idle
  /\ \A r \in Result : task[r] = "saving" <=> saving.by = r
  /\ flusher.pc = "saving" <=> saving.by = "flush"
  /\ saving.by \in Result => saving.subs = Append(file, saving.by)
  /\ saving.by = "flush" => saving.subs = Cleaned(flusher.sent)

\* What the loop holds are still the oldest results of the file, although
\* tasks append to it.
FlushInv ==
  Working =>
    /\ \A i \in 1..flusher.sent : flusher.subs[i] \in written
    /\ \/ torn
       \/ /\ Len(flusher.subs) <= Len(file)
          /\ \A i \in 1..Len(flusher.subs) : file[i] = flusher.subs[i]

KeptInv ==
  torn \/ \A i \in 1..Len(cached) : cached[i] \in written \/ In(cached[i], file)

\* Without a fault a result is in one place at a time: with its task, in the
\* file, or written; only what the loop has written but not yet removed is in
\* two.
PlaceInv ==
  /\ ~torn
  /\ Distinct(file)
  /\ \A r \in Result : task[r] \in {"run", "add", "saving"} =>
       r \notin written /\ ~In(r, file)
  /\ \A i \in 1..Len(file) :
       (Working => i > flusher.sent) => file[i] \notin written

\* What is on the wire was written, and each result once.
WireInv ==
  /\ \A i \in 1..Len(wire) : wire[i] \in written
  /\ \A i \in 1..Len(received) : received[i] \in written
  /\ Distinct(wire) /\ Distinct(received)
  /\ \A i \in 1..Len(wire), j \in 1..Len(received) : wire[i] # received[j]

OnceInv == faults = 0 => PlaceInv /\ WireInv

-----------------------------------------------------------------------------
(* Sequences                                                               *)

LEMMA AppendFacts ==
  ASSUME NEW s \in Seq(Result), NEW r \in Result
  PROVE  /\ Append(s, r) \in Seq(Result)
         /\ Len(Append(s, r)) = Len(s) + 1 /\ Len(s) \in Nat
         /\ \A i \in 1..Len(s) : Append(s, r)[i] = s[i]
         /\ Append(s, r)[Len(s) + 1] = r
BY AppendProperties, LenProperties

\* A result that is appended to a sequence it is not in leaves it distinct.
LEMMA AppendDistinct ==
  ASSUME NEW s \in Seq(Result), NEW r \in Result, Distinct(s), ~In(r, s)
  PROVE  Distinct(Append(s, r))
<1>1. SUFFICES ASSUME NEW i \in 1..Len(s) + 1, NEW j \in 1..Len(s) + 1,
                      Append(s, r)[i] = Append(s, r)[j]
               PROVE  i = j
  BY AppendFacts DEF Distinct
<1>2. Len(s) \in Nat
  BY AppendFacts
<1>3. /\ i \in 1..Len(s) => Append(s, r)[i] = s[i] /\ s[i] # r
      /\ j \in 1..Len(s) => Append(s, r)[j] = s[j] /\ s[j] # r
      /\ Append(s, r)[Len(s) + 1] = r
  BY AppendFacts DEF In
<1>4. (i \in 1..Len(s) \/ i = Len(s) + 1) /\ (j \in 1..Len(s) \/ j = Len(s) + 1)
  BY <1>2
<1> QED
  BY <1>1, <1>3, <1>4 DEF Distinct

LEMMA TailFacts ==
  ASSUME NEW s \in Seq(Result), s # <<>>
  PROVE  /\ Tail(s) \in Seq(Result) /\ Head(s) \in Result /\ Head(s) = s[1]
         /\ Len(s) \in Nat /\ Len(s) >= 1 /\ Len(Tail(s)) = Len(s) - 1
         /\ \A i \in 1..Len(s) - 1 : Tail(s)[i] = s[i + 1]
BY HeadTailProperties, EmptySeq, LenProperties

\* What is left of the file when the n oldest results are gone.
LEMMA CleanedFacts ==
  ASSUME file \in Seq(Result), NEW n \in Nat
  PROVE  /\ Cleaned(n) \in Seq(Result)
         /\ Len(Cleaned(n)) = IF n < Len(file) THEN Len(file) - n ELSE 0
         /\ Len(file) \in Nat
         /\ \A i \in 1..Len(Cleaned(n)) : Cleaned(n)[i] = file[n + i]
<1>1. Len(file) \in Nat /\ \A i \in 1..Len(file) : file[i] \in Result
  BY LenProperties, ElementOfSeq
<1> DEFINE m == n + 1
           l == Len(file)
<1>2. m \in Int /\ l \in Int /\ \A i \in m..l : file[i] \in Result
  BY <1>1
<1>3. Cleaned(n) = SubSeq(file, m, l)
  BY DEF Cleaned
<1>4. /\ SubSeq(file, m, l) \in Seq(Result)
      /\ Len(SubSeq(file, m, l)) = IF m <= l THEN l - m + 1 ELSE 0
      /\ \A i \in 1..l - m + 1 : SubSeq(file, m, l)[i] = file[m + i - 1]
  <2> HIDE DEF m, l
  <2> QED BY <1>2, SubSeqProperties
<1>5. Len(Cleaned(n)) = IF n < l THEN l - n ELSE 0
  BY <1>1, <1>3, <1>4
<1>6. \A i \in 1..Len(Cleaned(n)) : Cleaned(n)[i] = file[n + i]
  <2>1. TAKE i \in 1..Len(Cleaned(n))
  <2>2. i \in 1..l - m + 1 /\ m + i - 1 = n + i
    BY <1>1, <1>5
  <2> QED BY <1>3, <1>4, <2>2
<1> QED
  BY <1>1, <1>3, <1>4, <1>5, <1>6
-----------------------------------------------------------------------------
(* Types                                                                   *)

\* The steps of a save.
LEMMA SaveType ==
  ASSUME TypeOK, End \/ EndBadly
  PROVE  /\ file' \in Seq(Result) /\ corrupt' \in BOOLEAN
         /\ (corrupt' => file' = <<>>) /\ torn' \in BOOLEAN
         /\ saving' \in [by : {"nobody", "flush"} \cup Result, subs : Seq(Result)]
<1>1. Idle \in [by : {"nobody", "flush"} \cup Result, subs : Seq(Result)]
  BY EmptySeq DEF Idle
<1>2. <<>> \in Seq(Result) /\ saving.subs \in Seq(Result)
  BY EmptySeq DEF TypeOK
<1>3. CASE End
  BY <1>1, <1>2, <1>3 DEF End, TypeOK
<1>4. CASE EndBadly
  <2>1. saving' = Idle
    BY <1>4 DEF EndBadly
  <2>2. \/ UNCHANGED <<file, corrupt, torn>>
        \/ file' = <<>> /\ corrupt' = TRUE /\ torn' = TRUE
    BY <1>4 DEF EndBadly
  <2>3. file \in Seq(Result) /\ corrupt \in BOOLEAN /\ torn \in BOOLEAN
        /\ (corrupt => file = <<>>)
    BY DEF TypeOK
  <2>4. corrupt' => file' = <<>>
    BY <2>2, <2>3, Zenon
  <2>5. file' \in Seq(Result) /\ corrupt' \in BOOLEAN /\ torn' \in BOOLEAN
    BY <1>2, <2>2, <2>3
  <2> QED
    BY <1>1, <2>1, <2>4, <2>5
<1> QED
  BY <1>3, <1>4

LEMMA BeginType ==
  ASSUME NEW who \in {"nobody", "flush"} \cup Result, NEW subs \in Seq(Result),
         Begin(who, subs)
  PROVE  saving' \in [by : {"nobody", "flush"} \cup Result, subs : Seq(Result)]
BY DEF Begin

LEMMA TaskType ==
  ASSUME TypeOK, NEW r \in Result, RunScheduledTask(r) PROVE TypeOK'
<1>1. CASE Execute(r)
  BY <1>1 DEF TypeOK, Execute, At, cacheVars, connVars, hubVars
<1>2. CASE Add(r)
  <2>1. Appended(r) \in Seq(Result)
    BY AppendFacts DEF Appended, TypeOK
  <2>2. saving' \in [by : {"nobody", "flush"} \cup Result, subs : Seq(Result)]
    BY <1>2, <2>1, BeginType DEF Add
  <2> QED
    BY <1>2, <2>2 DEF TypeOK, Add, At, connVars, hubVars
<1>3. CASE AddEnds(r)
  <2>1. faults' \in 0..MaxFault
    BY <1>3, BoundAssumption DEF TypeOK, AddEnds, SaveFails, Fault
  <2>2. task' \in [Result -> {"run", "add", "saving", "signal", "ended"}]
    BY <1>3 DEF TypeOK, AddEnds, At
  <2>3. cached' \in Seq(Result)
    <3>1. cached' = cached \/ cached' = Append(cached, r)
      BY <1>3 DEF AddEnds
    <3>2. cached \in Seq(Result) /\ Append(cached, r) \in Seq(Result)
      BY AppendFacts DEF TypeOK
    <3> QED
      BY <3>1, <3>2
  <2>4. End \/ EndBadly
    BY <1>3 DEF AddEnds, SaveFails
  <2>5. UNCHANGED <<trigger, connVars, flusher, hubVars, written>>
    BY <1>3 DEF AddEnds
  <2> QED
    BY <2>1, <2>2, <2>3, <2>4, <2>5, SaveType DEF TypeOK, connVars, hubVars
<1>4. CASE SignalFlush(r)
  BY <1>4 DEF TypeOK, SignalFlush, At, cacheVars, connVars, hubVars
<1> QED
  BY <1>1, <1>2, <1>3, <1>4 DEF RunScheduledTask

\* What a step of the flush loop makes of its local variables.
LEMMA FlushFields ==
  ASSUME TypeOK
  PROVE  /\ Wake => \/ flusher' = flusher
                    \/ /\ flusher'.pc = "load" /\ flusher'.session = session
                       /\ flusher'.subs = flusher.subs
                       /\ flusher'.sent = flusher.sent
         /\ PopAll => /\ flusher'.pc = IF file = <<>> THEN "select" ELSE "write"
                      /\ flusher'.session = flusher.session
                      /\ flusher'.subs = file /\ flusher'.sent = 0
         /\ WriteAccepted => /\ flusher'.pc = "write"
                             /\ flusher'.session = flusher.session
                             /\ flusher'.subs = flusher.subs
                             /\ flusher'.sent = flusher.sent + 1
         /\ StopWriting \/ RemoveOldest \/ RemoveEnds =>
              /\ flusher'.session = flusher.session
              /\ flusher'.subs = flusher.subs /\ flusher'.sent = flusher.sent
         /\ StopWriting => flusher'.pc \in {"select", "remove"}
         /\ RemoveOldest => flusher'.pc = IF corrupt THEN "select" ELSE "saving"
         /\ RemoveEnds => flusher'.pc = "select"
<1>1. Wake => \/ flusher' = flusher
              \/ /\ flusher'.pc = "load" /\ flusher'.session = session
                 /\ flusher'.subs = flusher.subs /\ flusher'.sent = flusher.sent
  BY DEF TypeOK, Wake, Session
<1>2. PopAll => /\ flusher'.pc = IF file = <<>> THEN "select" ELSE "write"
                /\ flusher'.session = flusher.session
                /\ flusher'.subs = file /\ flusher'.sent = 0
  BY DEF TypeOK, PopAll
<1>3. WriteAccepted => /\ flusher'.pc = "write"
                       /\ flusher'.session = flusher.session
                       /\ flusher'.subs = flusher.subs
                       /\ flusher'.sent = flusher.sent + 1
  BY DEF TypeOK, WriteAccepted
<1>4. StopWriting => /\ flusher'.pc \in {"select", "remove"}
                     /\ flusher'.session = flusher.session
                     /\ flusher'.subs = flusher.subs
                     /\ flusher'.sent = flusher.sent
  BY DEF TypeOK, StopWriting
<1>5. RemoveOldest => /\ flusher'.pc = IF corrupt THEN "select" ELSE "saving"
                      /\ flusher'.session = flusher.session
                      /\ flusher'.subs = flusher.subs
                      /\ flusher'.sent = flusher.sent
  BY DEF TypeOK, RemoveOldest
<1>6. RemoveEnds => /\ flusher'.pc = "select"
                    /\ flusher'.session = flusher.session
                    /\ flusher'.subs = flusher.subs
                    /\ flusher'.sent = flusher.sent
  BY DEF TypeOK, RemoveEnds
<1> QED
  BY <1>1, <1>2, <1>3, <1>4, <1>5, <1>6

\* The types of what a task produces and the cache keeps.
CacheType ==
  /\ task \in [Result -> {"run", "add", "saving", "signal", "ended"}]
  /\ file \in Seq(Result) /\ corrupt \in BOOLEAN /\ (corrupt => file = <<>>)
  /\ saving \in [by : {"nobody", "flush"} \cup Result, subs : Seq(Result)]
  /\ cached \in Seq(Result) /\ torn \in BOOLEAN

LEMMA CacheSame ==
  ASSUME TypeOK, UNCHANGED <<task, cacheVars>> PROVE CacheType'
<1>1. CacheType
  BY DEF TypeOK, CacheType
<1>2. /\ corrupt' = corrupt /\ file' = file
      /\ UNCHANGED <<task, saving, cached, torn>>
  BY DEF cacheVars
<1>3. corrupt' => file' = <<>>
  <2>1. corrupt => file = <<>>
    BY DEF TypeOK
  <2> QED
    BY <1>2, <2>1, Zenon
<1> QED
  BY <1>1, <1>2, <1>3 DEF CacheType

FlusherType ==
  /\ flusher \in [pc : {"select", "load", "write", "remove", "saving"},
                  session : 0..MaxConn, subs : Seq(Result), sent : Nat]
  /\ flusher.sent <= Len(flusher.subs)

LEMMA FlushKeepsType ==
  ASSUME TypeOK, FlushLoop PROVE FlusherType'
<1>1. /\ session \in 0..MaxConn /\ conn \in 0..MaxConn
      /\ file \in Seq(Result) /\ Len(file) \in Nat
  BY LenProperties, BoundAssumption DEF TypeOK
<1>2. FlusherType /\ Len(flusher.subs) \in Nat
  BY LenProperties DEF TypeOK, FlusherType
<1>3. flusher' = [pc |-> flusher'.pc, session |-> flusher'.session,
                  subs |-> flusher'.subs, sent |-> flusher'.sent]
  BY <1>2 DEF FlushLoop, FlusherType, Wake, PopAll, WriteAccepted,
     StopWriting, RemoveOldest, RemoveEnds
<1>4. CASE Wake
  BY <1>1, <1>2, <1>3, <1>4, FlushFields DEF FlusherType
<1>5. CASE PopAll
  BY <1>1, <1>2, <1>3, <1>5, FlushFields DEF FlusherType
<1>6. CASE WriteAccepted
  <2>1. flusher.sent + 1 <= Len(flusher.subs)
    BY <1>2, <1>6 DEF WriteAccepted, FlusherType
  <2> QED
    BY <2>1, <1>2, <1>3, <1>6, FlushFields DEF FlusherType
<1>7. CASE StopWriting \/ RemoveOldest \/ RemoveEnds
  BY <1>2, <1>3, <1>7, FlushFields DEF FlusherType
<1> QED
  BY <1>4, <1>5, <1>6, <1>7 DEF FlushLoop

LEMMA FlushType ==
  ASSUME TypeOK, FlushLoop PROVE TypeOK'
<1>1. FlusherType'
  BY FlushKeepsType
<1>2. CASE Wake \/ PopAll \/ StopWriting
  <2>1. /\ UNCHANGED <<task, cacheVars, connVars, hubVars, written, faults>>
        /\ trigger' \in {trigger, FALSE}
    BY <1>2 DEF Wake, PopAll, StopWriting
  <2> QED
    BY <1>1, <2>1, CacheSame DEF TypeOK, CacheType, FlusherType, connVars, hubVars
<1>3. CASE WriteAccepted
  <2>1. flusher.subs[flusher.sent + 1] \in Result
    BY <1>3, ElementOfSeq, LenProperties DEF WriteAccepted, TypeOK
  <2>2. written' \in SUBSET Result /\ wire' \in Seq(Result)
    BY <1>3, <2>1, AppendFacts DEF WriteAccepted, TypeOK
  <2> QED
    BY <1>1, <1>3, <2>2
    DEF TypeOK, FlusherType, WriteAccepted, cacheVars, connVars
<1>4. CASE RemoveOldest
  <2>1. Cleaned(flusher.sent) \in Seq(Result)
    BY CleanedFacts DEF TypeOK
  <2>2. saving' \in [by : {"nobody", "flush"} \cup Result, subs : Seq(Result)]
    BY <1>4, <2>1, BeginType DEF RemoveOldest, TypeOK
  <2> QED
    BY <1>1, <1>4, <2>2 DEF TypeOK, FlusherType, RemoveOldest, connVars, hubVars
<1>5. CASE RemoveEnds
  <2>1. End \/ EndBadly
    BY <1>5 DEF RemoveEnds, SaveFails
  <2>2. faults' \in 0..MaxFault
    BY <1>5, BoundAssumption DEF TypeOK, RemoveEnds, SaveFails, Fault
  <2>3. UNCHANGED <<task, cached, trigger, connVars, hubVars, written>>
    BY <1>5 DEF RemoveEnds
  <2> QED
    BY <1>1, <2>1, <2>2, <2>3, SaveType DEF TypeOK, FlusherType, connVars, hubVars
<1> QED
  BY <1>2, <1>3, <1>4, <1>5 DEF FlushLoop

\* connectAndRun, the network, the hub.
LEMMA LinkType ==
  ASSUME TypeOK, ConnectAndRun \/ LinkDown \/ HubReceives PROVE TypeOK'
<1>1. <<>> \in Seq(Result)
  BY EmptySeq
<1>2. CASE Connect
  <2>1. conn + 1 \in 0..MaxConn
    BY <1>2, BoundAssumption DEF Connect, TypeOK
  <2> QED
    BY <1>1, <1>2, <2>1 DEF TypeOK, Connect, Dialing, cacheVars
<1>3. CASE SignalConnected \/ ReadFails \/ DropSession \/ CloseConn
  <2>1. /\ UNCHANGED <<task, cacheVars, conn, link, flusher, hubVars, written, faults>>
        /\ trigger' \in {trigger, TRUE} /\ session' \in {session, 0}
        /\ dialer' \in {"dial", "read", "jobs", "close"}
    BY <1>3
    DEF SignalConnected, ReadFails, DropSession, CloseConn, Dialing
  <2> QED
    BY <2>1, CacheSame DEF TypeOK, CacheType, hubVars
<1>4. CASE LinkDown
  BY <1>1, <1>4, CacheSame DEF TypeOK, CacheType, LinkDown
<1>5. CASE HubReceives
  <2>1. wire' \in Seq(Result) /\ received' \in Seq(Result)
    BY <1>5, TailFacts, AppendFacts DEF TypeOK, HubReceives
  <2> QED
    BY <1>5, <2>1, CacheSame DEF TypeOK, CacheType, HubReceives, connVars
<1> QED
  BY <1>2, <1>3, <1>4, <1>5 DEF ConnectAndRun

LEMMA CrashType ==
  ASSUME TypeOK, Crash PROVE TypeOK'
<1>1. Resting \in [pc : {"select", "load", "write", "remove", "saving"},
                   session : 0..MaxConn, subs : Seq(Result), sent : Nat]
      /\ Resting.sent = 0 /\ Resting.subs = <<>>
  BY EmptySeq, BoundAssumption DEF Resting
<1>2. FlusherType'
  BY <1>1, EmptySeq DEF Crash, FlusherType
<1>3. End \/ EndBadly \/ UNCHANGED <<file, corrupt, saving, torn>>
  BY DEF Crash
<1>4. /\ file' \in Seq(Result) /\ corrupt' \in BOOLEAN
      /\ (corrupt' => file' = <<>>) /\ torn' \in BOOLEAN
      /\ saving' \in [by : {"nobody", "flush"} \cup Result, subs : Seq(Result)]
  BY <1>3, SaveType DEF TypeOK
<1>5. task' \in [Result -> {"run", "add", "saving", "signal", "ended"}]
  BY DEF Crash, AfterCrash
<1>6. cached' \in Seq(Result)
  <2>1. \/ cached' = cached
        \/ saving.by \in Result /\ cached' = Append(cached, saving.by)
    BY DEF Crash
  <2>2. cached \in Seq(Result)
        /\ \A r \in Result : Append(cached, r) \in Seq(Result)
    BY AppendFacts DEF TypeOK
  <2> QED
    BY <2>1, <2>2
<1>7. faults' \in 0..MaxFault
  BY BoundAssumption DEF Crash, Fault, TypeOK
<1>8. /\ trigger' = FALSE /\ session' = 0 /\ link' = FALSE /\ dialer' = "dial"
      /\ UNCHANGED <<conn, hubVars, written>>
  BY DEF Crash
<1> QED
  BY <1>2, <1>4, <1>5, <1>6, <1>7, <1>8 DEF TypeOK, FlusherType, hubVars

LEMMA TypeStep ==
  ASSUME TypeOK, [Next]_vars PROVE TypeOK'
<1>1. CASE UNCHANGED vars
  BY <1>1 DEF TypeOK, vars, cacheVars, connVars, hubVars
<1>2. CASE Next
  BY <1>2, TaskType, FlushType, LinkType, CrashType DEF Next
<1> QED
  BY <1>1, <1>2
-----------------------------------------------------------------------------
(* One save at a time                                                      *)

LEMMA ByFacts ==
  /\ Idle.by = "nobody" /\ Idle.subs = <<>>
  /\ \A r \in Result : r # "nobody" /\ r # "flush"
BY ResultAssumption DEF Idle

\* A save that ends well leaves the file with one result more, or without
\* what was written.
LEMMA EndFacts ==
  ASSUME TypeOK, SaveInv, saving # Idle, End
  PROVE  /\ \/ saving.by \in Result /\ file' = Append(file, saving.by)
            \/ saving.by = "flush" /\ file' = Cleaned(flusher.sent)
         /\ corrupt' = FALSE /\ saving' = Idle /\ UNCHANGED torn
<1>1. saving.by \in {"nobody", "flush"} \cup Result
  BY DEF TypeOK
<1>2. saving.by # "nobody"
  BY DEF SaveInv
<1> QED
  BY <1>1, <1>2 DEF SaveInv, End

LEMMA EndBadlyFacts ==
  ASSUME SaveInv, EndBadly
  PROVE  /\ saving' = Idle /\ (torn => torn') /\ (corrupt' => torn')
         /\ torn' \/ UNCHANGED <<file, corrupt, torn>>
<1>1. \/ UNCHANGED <<file, corrupt, torn>>
      \/ torn' = TRUE
  BY DEF EndBadly
<1>2. saving' = Idle /\ (corrupt => torn)
  BY DEF EndBadly, SaveInv
<1>3. CASE UNCHANGED <<file, corrupt, torn>>
  <2>1. corrupt' = corrupt /\ torn' = torn
    BY <1>3
  <2>2. (torn => torn') /\ (corrupt' => torn')
    BY <1>2, <2>1, Zenon
  <2> QED
    BY <1>2, <1>3, <2>2
<1>4. CASE torn' = TRUE
  BY <1>2, <1>4
<1> QED
  BY <1>1, <1>3, <1>4

\* When nothing is being saved, nobody is at it.
LEMMA IdleSave ==
  ASSUME saving' = Idle, corrupt' => torn', flusher'.pc # "saving",
         \A r \in Result : task'[r] # "saving"
  PROVE  SaveInv'
BY ByFacts DEF SaveInv

LEMMA TaskSave ==
  ASSUME TypeOK, SaveInv, NEW r \in Result, RunScheduledTask(r) PROVE SaveInv'
<1>1. CASE Execute(r) \/ SignalFlush(r)
  <2>1. UNCHANGED <<cacheVars, flusher>>
    BY <1>1 DEF Execute, SignalFlush
  <2>2. \A s \in Result : task'[s] = "saving" <=> task[s] = "saving"
    BY <1>1 DEF Execute, SignalFlush, At, TypeOK
  <2> QED
    BY <2>1, <2>2 DEF SaveInv, cacheVars, Cleaned
<1>2. CASE Add(r)
  <2>1. saving = Idle /\ saving'.by = r /\ saving'.subs = Append(file, r)
        /\ UNCHANGED <<file, corrupt, torn, flusher>>
    BY <1>2 DEF Add, Begin, Appended
  <2>2. \A s \in Result : task'[s] = "saving" <=> s = r
    <3>1. \A s \in Result : task[s] # "saving"
      BY <2>1, ByFacts DEF SaveInv
    <3> QED
      BY <1>2, <3>1 DEF Add, At, TypeOK
  <2>3. flusher.pc # "saving"
    BY <2>1, ByFacts DEF SaveInv
  <2>4. corrupt => torn
    BY DEF SaveInv
  <2> QED
    BY <2>1, <2>2, <2>3, <2>4, ByFacts DEF SaveInv
<1>3. CASE AddEnds(r)
  <2>1. task[r] = "saving" /\ saving.by = r
    BY <1>3 DEF AddEnds, SaveInv
  <2>2. saving' = Idle /\ (corrupt' => torn')
    <3>1. CASE End
      BY <3>1 DEF End
    <3>2. CASE EndBadly
      BY <3>2, EndBadlyFacts
    <3> QED
      BY <1>3, <3>1, <3>2 DEF AddEnds, SaveFails
  <2>3. \A s \in Result : task'[s] # "saving"
    <3>1. \A s \in Result : s # r => task[s] # "saving"
      BY <2>1 DEF SaveInv
    <3>2. \A s \in Result : task'[s] \in {"signal", "ended"} \/
                            (s # r /\ task'[s] = task[s])
      BY <1>3 DEF AddEnds, At, TypeOK
    <3> QED
      BY <3>1, <3>2
  <2>4. flusher'.pc # "saving"
    BY <1>3, <2>1, ByFacts DEF AddEnds, SaveInv
  <2> QED
    BY <2>2, <2>3, <2>4, IdleSave
<1> QED
  BY <1>1, <1>2, <1>3 DEF RunScheduledTask

LEMMA FlushSave ==
  ASSUME TypeOK, SaveInv, FlushLoop PROVE SaveInv'
<1>1. CASE Wake \/ PopAll \/ WriteAccepted \/ StopWriting
  <2>1. UNCHANGED <<task, cacheVars>>
    BY <1>1 DEF Wake, PopAll, WriteAccepted, StopWriting
  <2>2. flusher.pc # "saving"
    BY <1>1 DEF Wake, PopAll, WriteAccepted, StopWriting
  <2>3. flusher'.pc # "saving"
    BY <1>1, <2>2, FlushFields
  <2>4. saving.by # "flush"
    BY <2>2 DEF SaveInv
  <2> QED
    BY <2>1, <2>2, <2>3, <2>4 DEF SaveInv, cacheVars
<1>2. CASE RemoveOldest
  <2>1. saving = Idle /\ UNCHANGED <<task, file, corrupt, torn>>
    BY <1>2 DEF RemoveOldest
  <2>2. \A s \in Result : task'[s] # "saving"
    BY <2>1, ByFacts DEF SaveInv
  <2>3. corrupt => torn
    BY DEF SaveInv
  <2>4. CASE corrupt
    <3>1. saving' = Idle /\ flusher'.pc # "saving"
      BY <1>2, <2>1, <2>4, FlushFields DEF RemoveOldest
    <3> QED
      BY <2>1, <2>2, <2>3, <3>1, IdleSave
  <2>5. CASE ~corrupt
    <3>1. flusher'.pc = "saving" /\ flusher'.sent = flusher.sent
      BY <1>2, <2>5, FlushFields
    <3>2. saving'.by = "flush" /\ saving'.subs = Cleaned(flusher.sent)
      BY <1>2, <2>5 DEF RemoveOldest, Begin
    <3>3. saving'.subs = Cleaned(flusher.sent)'
      BY <2>1, <3>1, <3>2 DEF Cleaned
    <3> QED
      BY <2>1, <2>2, <2>3, <3>1, <3>2, <3>3, ByFacts DEF SaveInv
  <2> QED
    BY <2>4, <2>5
<1>3. CASE RemoveEnds
  <2>1. flusher.pc = "saving" /\ saving.by = "flush"
    BY <1>3 DEF RemoveEnds, SaveInv
  <2>2. saving' = Idle /\ (corrupt' => torn')
    <3>1. CASE End
      BY <3>1 DEF End
    <3>2. CASE EndBadly
      BY <3>2, EndBadlyFacts
    <3> QED
      BY <1>3, <3>1, <3>2 DEF RemoveEnds, SaveFails
  <2>3. \A s \in Result : task'[s] # "saving"
    BY <1>3, <2>1, ByFacts DEF RemoveEnds, SaveInv
  <2> QED
    BY <1>3, <2>2, <2>3, FlushFields, IdleSave
<1> QED
  BY <1>1, <1>2, <1>3 DEF FlushLoop

\* What neither a task nor the loop does leaves the cache and the loop alone.
LEMMA LinkKeeps ==
  ASSUME ConnectAndRun \/ LinkDown \/ HubReceives
  PROVE  UNCHANGED <<task, cacheVars, flusher, written, faults>>
BY DEF ConnectAndRun, Connect, SignalConnected, ReadFails, DropSession, CloseConn,
   LinkDown, HubReceives

\* What a crash leaves of the cache.
LEMMA CrashFacts ==
  ASSUME TypeOK, SaveInv, Crash
  PROVE  /\ saving' = Idle /\ (corrupt' => torn') /\ (torn => torn')
         /\ \/ torn'
            \/ UNCHANGED <<file, cached>>
            \/ /\ saving.by \in Result /\ file' = Append(file, saving.by)
               /\ cached' = Append(cached, saving.by)
            \/ /\ saving.by = "flush" /\ file' = Cleaned(flusher.sent)
               /\ UNCHANGED cached
<1>1. CASE EndBadly /\ UNCHANGED cached
  BY <1>1, EndBadlyFacts
<1>2. CASE saving = Idle /\ UNCHANGED <<file, corrupt, saving, torn, cached>>
  BY <1>2 DEF SaveInv
<1>3. CASE /\ saving # Idle /\ End
           /\ cached' = IF saving.by \in Result THEN Append(cached, saving.by)
                                                ELSE cached
  BY <1>3, EndFacts, ByFacts
<1> QED
  BY <1>1, <1>2, <1>3 DEF Crash

LEMMA SaveStep ==
  ASSUME TypeOK, SaveInv, [Next]_vars PROVE SaveInv'
<1>1. CASE UNCHANGED vars
  BY <1>1 DEF vars, cacheVars, SaveInv, Cleaned
<1>2. CASE ConnectAndRun \/ LinkDown \/ HubReceives
  BY <1>2, LinkKeeps DEF cacheVars, SaveInv, Cleaned
<1>3. CASE Crash
  <2>1. \A r \in Result : task'[r] # "saving"
    BY <1>3 DEF Crash, AfterCrash
  <2>2. flusher'.pc # "saving"
    BY <1>3 DEF Crash, Resting
  <2> QED
    BY <1>3, <2>1, <2>2, CrashFacts, IdleSave
<1> QED
  BY <1>1, <1>2, <1>3, TaskSave, FlushSave DEF Next
-----------------------------------------------------------------------------
(* The loop holds the oldest results of the file                           *)

LEMMA TaskFlush ==
  ASSUME TypeOK, SaveInv, FlushInv, NEW r \in Result, RunScheduledTask(r)
  PROVE  FlushInv'
<1>1. UNCHANGED <<flusher, written>>
  BY DEF RunScheduledTask, Execute, Add, AddEnds, SignalFlush
<1>2. torn' \/ (torn' = torn /\ (file' = file \/ file' = Append(file, r)))
  <2>1. CASE AddEnds(r)
    <3>1. saving.by = r /\ saving # Idle
      BY <2>1, ByFacts DEF AddEnds, SaveInv
    <3>2. CASE End
      BY <3>1, <3>2, EndFacts, ByFacts
    <3>3. CASE EndBadly
      BY <3>3, EndBadlyFacts
    <3> QED
      BY <2>1, <3>2, <3>3 DEF AddEnds, SaveFails
  <2>2. CASE Execute(r) \/ Add(r) \/ SignalFlush(r)
    BY <2>2 DEF Execute, Add, SignalFlush, cacheVars
  <2> QED
    BY <2>1, <2>2 DEF RunScheduledTask
<1>3. /\ file \in Seq(Result) /\ Len(file) \in Nat /\ Len(flusher.subs) \in Nat
  BY LenProperties DEF TypeOK
<1>4. CASE torn' = torn /\ file' = Append(file, r)
  <2>1. /\ Len(file') = Len(file) + 1
        /\ \A i \in 1..Len(file) : file'[i] = file[i]
    BY <1>3, <1>4, AppendFacts
  <2> QED
    BY <1>1, <1>3, <1>4, <2>1 DEF FlushInv, Working
<1> QED
  BY <1>1, <1>2, <1>4 DEF FlushInv, Working

LEMMA FlushFlush ==
  ASSUME TypeOK, FlushInv, FlushLoop PROVE FlushInv'
<1>1. CASE Wake
  <2>1. ~Working /\ flusher.pc = "select"
    BY <1>1 DEF Wake, Working
  <2>2. ~Working'
    BY <1>1, <2>1, FlushFields DEF Working
  <2> QED
    BY <2>2 DEF FlushInv
<1>2. CASE PopAll
  <2>1. flusher'.subs = file /\ flusher'.sent = 0 /\ file' = file
    BY <1>2, FlushFields DEF PopAll, cacheVars
  <2>2. Len(file) \in Nat
    BY LenProperties DEF TypeOK
  <2> QED
    BY <2>1, <2>2 DEF FlushInv
<1>3. CASE WriteAccepted
  <2>1. /\ Working /\ flusher'.subs = flusher.subs
        /\ flusher'.sent = flusher.sent + 1
        /\ written' = written \cup {flusher.subs[flusher.sent + 1]}
        /\ file' = file /\ torn' = torn
    BY <1>3, FlushFields DEF WriteAccepted, Working, cacheVars
  <2>2. flusher.sent \in Nat
    BY DEF TypeOK
  <2>3. \A i \in 1..flusher'.sent : flusher'.subs[i] \in written'
    BY <2>1, <2>2 DEF FlushInv
  <2> QED
    BY <2>1, <2>3 DEF FlushInv
<1>4. CASE StopWriting \/ RemoveOldest
  <2>1. /\ Working /\ flusher'.subs = flusher.subs /\ flusher'.sent = flusher.sent
        /\ UNCHANGED <<file, torn, written>>
    BY <1>4, FlushFields DEF StopWriting, RemoveOldest, Working, cacheVars
  <2> QED
    BY <2>1 DEF FlushInv
<1>5. CASE RemoveEnds
  BY <1>5, FlushFields DEF FlushInv, Working
<1> QED
  BY <1>1, <1>2, <1>3, <1>4, <1>5 DEF FlushLoop

LEMMA FlushStep ==
  ASSUME TypeOK, SaveInv, FlushInv, [Next]_vars PROVE FlushInv'
<1>1. CASE UNCHANGED vars
  BY <1>1 DEF vars, cacheVars, FlushInv, Working
<1>2. CASE ConnectAndRun \/ LinkDown \/ HubReceives
  BY <1>2, LinkKeeps DEF cacheVars, FlushInv, Working
<1>3. CASE Crash
  BY <1>3 DEF Crash, Resting, FlushInv, Working
<1> QED
  BY <1>1, <1>2, <1>3, TaskFlush, FlushFlush DEF Next

-----------------------------------------------------------------------------
(* No cached result is lost                                                *)

LEMMA KeptSame ==
  ASSUME KeptInv, torn' \/ UNCHANGED <<file, torn>>, UNCHANGED cached,
         written \subseteq written'
  PROVE  KeptInv'
BY DEF KeptInv, In

LEMMA KeptAppend ==
  ASSUME TypeOK, KeptInv, NEW r \in Result, file' = Append(file, r),
         cached' = Append(cached, r), UNCHANGED written, torn => torn'
  PROVE  KeptInv'
<1>1. SUFFICES ASSUME ~torn, NEW i \in 1..Len(cached')
               PROVE  cached'[i] \in written' \/ In(cached'[i], file')
  BY DEF KeptInv
<1>2. /\ Len(file') = Len(file) + 1 /\ Len(file) \in Nat /\ file'[Len(file) + 1] = r
      /\ \A j \in 1..Len(file) : file'[j] = file[j]
  BY AppendFacts DEF TypeOK
<1>3. /\ Len(cached') = Len(cached) + 1 /\ Len(cached) \in Nat
      /\ cached'[Len(cached) + 1] = r
      /\ \A j \in 1..Len(cached) : cached'[j] = cached[j]
  BY AppendFacts DEF TypeOK
<1>4. CASE i \in 1..Len(cached)
  <2>1. cached[i] \in written \/ In(cached[i], file)
    BY <1>1, <1>4 DEF KeptInv
  <2> QED
    BY <1>2, <1>3, <1>4, <2>1 DEF In
<1>5. CASE i = Len(cached) + 1
  BY <1>2, <1>3, <1>5 DEF In
<1> QED
  BY <1>3, <1>4, <1>5

\* What the loop removes has been written.
LEMMA KeptCleaned ==
  ASSUME TypeOK, FlushInv, KeptInv, Working, file' = Cleaned(flusher.sent),
         UNCHANGED <<cached, written>>, torn => torn'
  PROVE  KeptInv'
<1>1. SUFFICES ASSUME ~torn, NEW i \in 1..Len(cached)
               PROVE  cached[i] \in written \/ In(cached[i], file')
  BY DEF KeptInv
<1>2. flusher.sent \in Nat /\ Len(file) \in Nat /\ Len(flusher.subs) \in Nat
      /\ flusher.sent <= Len(flusher.subs)
  BY LenProperties DEF TypeOK
<1>3. /\ Len(file') = IF flusher.sent < Len(file) THEN Len(file) - flusher.sent ELSE 0
      /\ \A j \in 1..Len(file') : file'[j] = file[flusher.sent + j]
  BY <1>2, CleanedFacts DEF TypeOK
<1>4. CASE In(cached[i], file)
  <2>1. PICK j \in 1..Len(file) : file[j] = cached[i]
    BY <1>4 DEF In
  <2>2. CASE j <= flusher.sent
    <3>1. j \in 1..flusher.sent /\ j \in 1..Len(flusher.subs)
      BY <1>2, <2>2
    <3> QED
      BY <1>1, <2>1, <3>1 DEF FlushInv
  <2>3. CASE j > flusher.sent
    <3>1. j - flusher.sent \in 1..Len(file') /\ flusher.sent + (j - flusher.sent) = j
      BY <1>2, <1>3, <2>3
    <3> QED
      BY <1>3, <2>1, <3>1 DEF In
  <2> QED
    BY <1>2, <2>2, <2>3
<1> QED
  BY <1>1, <1>4 DEF KeptInv

LEMMA KeptStep ==
  ASSUME TypeOK, SaveInv, FlushInv, KeptInv, [Next]_vars PROVE KeptInv'
<1>1. CASE UNCHANGED vars
  BY <1>1, KeptSame DEF vars, cacheVars
<1>2. CASE ConnectAndRun \/ LinkDown \/ HubReceives
  BY <1>2, LinkKeeps, KeptSame DEF cacheVars
<1>3. ASSUME NEW r \in Result, RunScheduledTask(r) PROVE KeptInv'
  <2>1. CASE Execute(r) \/ Add(r) \/ SignalFlush(r)
    BY <2>1, KeptSame DEF Execute, Add, SignalFlush, cacheVars
  <2>2. CASE AddEnds(r) /\ End
    <3>1. saving.by = r /\ saving # Idle
      BY <2>2, ByFacts DEF AddEnds, SaveInv
    <3>2. file' = Append(file, r) /\ torn' = torn
      BY <2>2, <3>1, EndFacts, ByFacts
    <3>3. UNCHANGED written
      BY <2>2 DEF AddEnds
    <3>4. cached' = Append(cached, r) \/ (EndBadly /\ UNCHANGED cached)
      BY <2>2 DEF AddEnds, SaveFails
    <3>5. CASE EndBadly /\ UNCHANGED cached
      BY <3>3, <3>5, EndBadlyFacts, KeptSame
    <3>6. CASE cached' = Append(cached, r)
      BY <3>2, <3>3, <3>6, KeptAppend
    <3> QED
      BY <3>4, <3>5, <3>6
  <2>3. CASE AddEnds(r) /\ ~End
    <3>1. EndBadly /\ UNCHANGED <<cached, written>>
      BY <2>3 DEF AddEnds, SaveFails
    <3> QED
      BY <3>1, EndBadlyFacts, KeptSame
  <2> QED
    BY <1>3, <2>1, <2>2, <2>3 DEF RunScheduledTask
<1>4. CASE FlushLoop
  <2>1. CASE Wake \/ PopAll \/ WriteAccepted \/ StopWriting \/ RemoveOldest
    <3>1. UNCHANGED <<file, torn, cached>> /\ written \subseteq written'
      BY <2>1 DEF Wake, PopAll, WriteAccepted, StopWriting, RemoveOldest, cacheVars
    <3> QED
      BY <3>1, KeptSame
  <2>2. CASE RemoveEnds
    <3>1. saving.by = "flush" /\ saving # Idle /\ Working
      BY <2>2, ByFacts DEF RemoveEnds, SaveInv, Working
    <3>2. UNCHANGED <<cached, written>> /\ (End \/ EndBadly)
      BY <2>2 DEF RemoveEnds, SaveFails
    <3>3. CASE End
      BY <3>1, <3>2, <3>3, EndFacts, ByFacts, KeptCleaned
    <3>4. CASE EndBadly
      BY <3>2, <3>4, EndBadlyFacts, KeptSame
    <3> QED
      BY <3>2, <3>3, <3>4
  <2> QED
    BY <1>4, <2>1, <2>2 DEF FlushLoop
<1>5. CASE Crash
  <2>1. UNCHANGED written
    BY <1>5 DEF Crash
  <2>2. (torn => torn') /\
        \/ torn' \/ UNCHANGED <<file, cached>>
        \/ /\ saving.by \in Result /\ file' = Append(file, saving.by)
           /\ cached' = Append(cached, saving.by)
        \/ saving.by = "flush" /\ file' = Cleaned(flusher.sent) /\ UNCHANGED cached
    BY <1>5, CrashFacts
  <2>3. CASE torn'
    BY <2>3 DEF KeptInv
  <2>4. CASE UNCHANGED <<file, cached>>
    BY <2>1, <2>2, <2>4 DEF KeptInv, In
  <2>5. CASE /\ saving.by \in Result /\ file' = Append(file, saving.by)
             /\ cached' = Append(cached, saving.by)
    BY <2>1, <2>2, <2>5, KeptAppend
  <2>6. CASE saving.by = "flush" /\ file' = Cleaned(flusher.sent) /\ UNCHANGED cached
    <3>1. Working
      BY <2>6 DEF SaveInv, Working
    <3> QED
      BY <2>1, <2>2, <2>6, <3>1, KeptCleaned
  <2> QED
    BY <2>2, <2>3, <2>4, <2>5, <2>6
<1> QED
  BY <1>1, <1>2, <1>3, <1>4, <1>5 DEF Next
-----------------------------------------------------------------------------
(* Without a fault no result is sent twice                                 *)

\* A step after which there has been no fault is none itself.
LEMMA NoFaultStep ==
  ASSUME TypeOK, [Next]_vars, faults' = 0
  PROVE  /\ faults = 0 /\ ~Fault /\ ~Crash
         /\ \A r \in Result : AddEnds(r) => End /\ cached' = Append(cached, r)
                                            /\ At(r, "signal")
         /\ RemoveEnds => End
<1>1. faults \in Nat
  BY BoundAssumption DEF TypeOK
<1>2. ~Fault
  BY <1>1 DEF Fault
<1>3. ~SaveFails /\ ~Crash
  BY <1>2 DEF SaveFails, Crash
<1>4. faults' = faults
  <2>1. CASE UNCHANGED vars
    BY <2>1 DEF vars
  <2>2. CASE \E r \in Result : RunScheduledTask(r)
    BY <1>3, <2>2 DEF RunScheduledTask, Execute, Add, AddEnds, SignalFlush
  <2>3. CASE FlushLoop
    BY <1>3, <2>3 DEF FlushLoop, Wake, PopAll, WriteAccepted, StopWriting,
       RemoveOldest, RemoveEnds
  <2> QED
    BY <1>3, <2>1, <2>2, <2>3, LinkKeeps DEF Next
<1> QED
  BY <1>2, <1>3, <1>4 DEF AddEnds, RemoveEnds

LEMMA TaskPlace ==
  ASSUME TypeOK, SaveInv, PlaceInv, NEW r \in Result, RunScheduledTask(r),
         AddEnds(r) => End /\ At(r, "signal")
  PROVE  PlaceInv'
<1>1. UNCHANGED <<flusher, written>>
  BY DEF RunScheduledTask, Execute, Add, AddEnds, SignalFlush
<1>2. CASE Execute(r) \/ Add(r) \/ SignalFlush(r)
  <2>1. UNCHANGED <<file, torn>>
    BY <1>2 DEF Execute, Add, SignalFlush, cacheVars
  <2>2. \A s \in Result : task'[s] \in {"run", "add", "saving"} =>
                          task[s] \in {"run", "add", "saving"}
    BY <1>2 DEF Execute, Add, SignalFlush, At, TypeOK
  <2> QED
    BY <1>1, <2>1, <2>2 DEF PlaceInv, Distinct, In, Working
<1>3. CASE AddEnds(r)
  <2>1. saving.by = r /\ saving # Idle /\ task[r] = "saving"
    BY <1>3, ByFacts DEF AddEnds, SaveInv
  <2>2. file' = Append(file, r) /\ torn' = torn
    BY <1>3, <2>1, EndFacts, ByFacts
  <2>3. r \notin written /\ ~In(r, file)
    BY <2>1 DEF PlaceInv
  <2>4. Distinct(file')
    BY <2>2, <2>3, AppendDistinct DEF PlaceInv, TypeOK
  <2>5. /\ Len(file') = Len(file) + 1 /\ Len(file) \in Nat
        /\ file'[Len(file) + 1] = r
        /\ \A i \in 1..Len(file) : file'[i] = file[i]
    BY <2>2, AppendFacts DEF TypeOK
  <2>6. \A i \in 1..Len(file') : i \in 1..Len(file) \/ file'[i] = r
    BY <2>5
  <2>7. \A s \in Result : task'[s] \in {"run", "add", "saving"} =>
                          s # r /\ task[s] = task'[s]
    BY <1>3 DEF At, TypeOK
  <2>8. \A s \in Result : task'[s] \in {"run", "add", "saving"} =>
                          s \notin written' /\ ~In(s, file')
    BY <1>1, <2>5, <2>6, <2>7 DEF PlaceInv, In
  <2>9. \A i \in 1..Len(file') : (Working' => i > flusher'.sent) =>
                                 file'[i] \notin written'
    BY <1>1, <2>3, <2>5, <2>6 DEF PlaceInv, Working
  <2> QED
    BY <2>2, <2>4, <2>8, <2>9 DEF PlaceInv
<1> QED
  BY <1>2, <1>3 DEF RunScheduledTask

\* The next result of the loop is in the file, after those it has written.
LEMMA NextToWrite ==
  ASSUME TypeOK, FlushInv, PlaceInv, WriteAccepted
  PROVE  LET n == flusher.sent + 1
             r == flusher.subs[n]
         IN n \in 1..Len(file) /\ r = file[n] /\ r \in Result /\ r \notin written
<1> DEFINE n == flusher.sent + 1
<1>1. Len(flusher.subs) \in Nat /\ Len(file) \in Nat /\ flusher.sent \in Nat
  BY LenProperties DEF TypeOK
<1>2. Working /\ n \in 1..Len(flusher.subs)
  BY <1>1 DEF WriteAccepted, Working
<1>3. n \in 1..Len(file) /\ file[n] = flusher.subs[n]
  <2> HIDE DEF n
  <2> QED
    BY <1>1, <1>2 DEF FlushInv, PlaceInv
<1>4. n > flusher.sent
  BY <1>1
<1>5. file[n] \notin written
  <2> HIDE DEF n
  <2> QED
    BY <1>3, <1>4 DEF PlaceInv
<1>6. file[n] \in Result
  <2> HIDE DEF n
  <2> QED
    BY <1>3, ElementOfSeq DEF TypeOK
<1> QED
  BY <1>3, <1>5, <1>6

LEMMA WritePlace ==
  ASSUME TypeOK, FlushInv, PlaceInv, WriteAccepted PROVE PlaceInv'
<1> DEFINE n == flusher.sent + 1
<1>1. n \in 1..Len(file) /\ flusher.subs[n] = file[n]
  BY NextToWrite
<1>2. /\ written' = written \cup {file[n]}
      /\ UNCHANGED <<task, file, torn>> /\ Working /\ Working'
      /\ flusher'.sent = n /\ flusher.sent \in Nat
  BY <1>1, FlushFields DEF WriteAccepted, cacheVars, Working, TypeOK
<1>3. \A i \in 1..Len(file) : i > n => i > flusher.sent /\ i # n
  BY <1>2
<1> HIDE DEF n
<1>4. \A i \in 1..Len(file) : i > n => file[i] \notin written'
  BY <1>1, <1>2, <1>3 DEF PlaceInv, Distinct
<1>5. \A r \in Result : task[r] \in {"run", "add", "saving"} =>
                        r \notin written' /\ ~In(r, file)
  BY <1>1, <1>2 DEF PlaceInv, In
<1> QED
  BY <1>2, <1>4, <1>5 DEF PlaceInv, Distinct, In

LEMMA RemovePlace ==
  ASSUME TypeOK, SaveInv, PlaceInv, RemoveEnds, End PROVE PlaceInv'
<1>1. saving.by = "flush" /\ saving # Idle /\ Working
  BY ByFacts DEF RemoveEnds, SaveInv, Working
<1>2. file' = Cleaned(flusher.sent) /\ torn' = torn /\ UNCHANGED <<task, written>>
  BY <1>1, EndFacts, ByFacts DEF RemoveEnds
<1>3. flusher.sent \in Nat /\ Len(file) \in Nat
  BY LenProperties DEF TypeOK
<1>4. /\ Len(file') = IF flusher.sent < Len(file) THEN Len(file) - flusher.sent ELSE 0
      /\ \A j \in 1..Len(file') : file'[j] = file[flusher.sent + j]
  BY <1>2, <1>3, CleanedFacts DEF TypeOK
<1>5. \A j \in 1..Len(file') : flusher.sent + j \in 1..Len(file)
                               /\ flusher.sent + j > flusher.sent
  BY <1>3, <1>4
<1>6. Distinct(file')
  <2>1. SUFFICES ASSUME NEW i \in 1..Len(file'), NEW j \in 1..Len(file'),
                        file'[i] = file'[j]
                 PROVE  i = j
    BY DEF Distinct
  <2>2. flusher.sent + i = flusher.sent + j
    BY <1>4, <1>5, <2>1 DEF PlaceInv, Distinct
  <2> QED
    BY <1>3, <1>4, <2>2
<1>7. \A j \in 1..Len(file') : file'[j] \notin written
  BY <1>4, <1>5 DEF PlaceInv
<1>8. \A r \in Result : In(r, file') => In(r, file)
  BY <1>4, <1>5 DEF In
<1> QED
  BY <1>2, <1>6, <1>7, <1>8 DEF PlaceInv

LEMMA FlushPlace ==
  ASSUME TypeOK, SaveInv, FlushInv, PlaceInv, FlushLoop, RemoveEnds => End
  PROVE  PlaceInv'
<1>1. CASE Wake \/ PopAll
  <2>1. UNCHANGED <<task, file, torn, written>> /\ ~Working
    BY <1>1 DEF Wake, PopAll, cacheVars, Working
  <2>2. Working' => flusher'.sent = 0
    BY <1>1, <2>1, FlushFields DEF Working, Wake, PopAll
  <2> QED
    BY <2>1, <2>2 DEF PlaceInv, Distinct, In
<1>2. CASE StopWriting
  <2>1. UNCHANGED <<task, file, torn, written>> /\ Working
        /\ flusher'.sent = flusher.sent
    BY <1>2, FlushFields DEF StopWriting, cacheVars, Working
  <2>2. flusher.sent = 0 \/ Working'
    BY <1>2 DEF StopWriting, Working, TypeOK
  <2>3. \A i \in 1..Len(file) : flusher.sent = 0 => i > flusher.sent
    OBVIOUS
  <2> QED
    BY <2>1, <2>2, <2>3 DEF PlaceInv, Distinct, In
<1>3. CASE RemoveOldest
  <2>1. ~corrupt
    BY DEF PlaceInv, SaveInv
  <2>2. UNCHANGED <<task, file, torn, written>> /\ Working /\ Working'
        /\ flusher'.sent = flusher.sent
    BY <1>3, <2>1, FlushFields DEF RemoveOldest, Working
  <2> QED
    BY <2>2 DEF PlaceInv, Distinct, In
<1> QED
  BY <1>1, <1>2, <1>3, WritePlace, RemovePlace DEF FlushLoop

LEMMA PlaceStep ==
  ASSUME TypeOK, SaveInv, FlushInv, PlaceInv, [Next]_vars, faults' = 0
  PROVE  PlaceInv'
<1>1. CASE UNCHANGED vars
  BY <1>1 DEF vars, cacheVars, PlaceInv, Distinct, In, Working
<1>2. CASE ConnectAndRun \/ LinkDown \/ HubReceives
  BY <1>2, LinkKeeps DEF cacheVars, PlaceInv, Distinct, In, Working
<1> QED
  BY <1>1, <1>2, NoFaultStep, TaskPlace, FlushPlace DEF Next

LEMMA WriteWire ==
  ASSUME TypeOK, FlushInv, PlaceInv, WireInv, WriteAccepted PROVE WireInv'
<1> DEFINE r == flusher.subs[flusher.sent + 1]
<1>1. r \in Result /\ r \notin written
  BY NextToWrite
<1>2. /\ written' = written \cup {r} /\ received' = received
      /\ wire' = wire \/ wire' = Append(wire, r)
  BY DEF WriteAccepted
<1>3. wire \in Seq(Result)
  BY DEF TypeOK
<1> HIDE DEF r
<1>4. CASE wire' = wire
  BY <1>2, <1>4 DEF WireInv, Distinct
<1>5. CASE wire' = Append(wire, r)
  <2>1. ~In(r, wire)
    BY <1>1 DEF WireInv, In
  <2>2. Distinct(wire')
    BY <1>1, <1>3, <1>5, <2>1, AppendDistinct DEF WireInv
  <2>3. /\ Len(wire') = Len(wire) + 1 /\ Len(wire) \in Nat
        /\ wire'[Len(wire) + 1] = r
        /\ \A i \in 1..Len(wire) : wire'[i] = wire[i]
    BY <1>1, <1>3, <1>5, AppendFacts
  <2>4. \A i \in 1..Len(wire') : wire'[i] = r \/ (i \in 1..Len(wire) /\ wire'[i] = wire[i])
    BY <2>3
  <2> QED
    BY <1>1, <1>2, <2>2, <2>4 DEF WireInv, Distinct
<1> QED
  BY <1>2, <1>4, <1>5

LEMMA ReceiveWire ==
  ASSUME TypeOK, WireInv, HubReceives PROVE WireInv'
<1> DEFINE r == Head(wire)
<1>1. /\ r \in Result /\ r = wire[1] /\ Len(wire) \in Nat /\ Len(wire) >= 1
      /\ Len(wire') = Len(wire) - 1
      /\ \A i \in 1..Len(wire) - 1 : wire'[i] = wire[i + 1]
  BY TailFacts DEF TypeOK, HubReceives
<1>2. received' = Append(received, r) /\ UNCHANGED written
  BY DEF HubReceives
<1> HIDE DEF r
<1>3. /\ Len(received') = Len(received) + 1 /\ Len(received) \in Nat
      /\ received'[Len(received) + 1] = r
      /\ \A i \in 1..Len(received) : received'[i] = received[i]
  BY <1>1, <1>2, AppendFacts DEF TypeOK
<1>4. 1 \in 1..Len(wire) /\ \A i \in 1..Len(wire') : i + 1 \in 1..Len(wire) /\ i + 1 # 1
  BY <1>1
<1>5. ~In(r, received)
  BY <1>1, <1>4 DEF WireInv, In
<1>6. Distinct(received')
  BY <1>1, <1>2, <1>5, AppendDistinct DEF WireInv, TypeOK
<1>7. Distinct(wire')
  <2>1. SUFFICES ASSUME NEW i \in 1..Len(wire'), NEW j \in 1..Len(wire'),
                        wire'[i] = wire'[j]
                 PROVE  i = j
    BY DEF Distinct
  <2>2. wire'[i] = wire[i + 1] /\ wire'[j] = wire[j + 1]
    BY <1>1
  <2>3. i + 1 = j + 1
    BY <1>4, <2>1, <2>2 DEF WireInv, Distinct
  <2> QED
    BY <1>1, <2>3
<1>8. \A i \in 1..Len(wire') : wire'[i] \in written' /\ wire'[i] # r
                               /\ \A j \in 1..Len(received) : wire'[i] # received[j]
  BY <1>1, <1>2, <1>4 DEF WireInv, Distinct
<1>9. \A i \in 1..Len(received') : received'[i] = r \/
                                   (i \in 1..Len(received) /\ received'[i] = received[i])
  BY <1>3
<1>10. r \in written'
  BY <1>1, <1>2, <1>4 DEF WireInv
<1> QED
  BY <1>2, <1>6, <1>7, <1>8, <1>9, <1>10 DEF WireInv

LEMMA WireStep ==
  ASSUME TypeOK, FlushInv, PlaceInv, WireInv, [Next]_vars, faults' = 0
  PROVE  WireInv'
<1>1. CASE UNCHANGED <<hubVars, written>>
  BY <1>1 DEF hubVars, WireInv, Distinct
<1>2. CASE Connect \/ LinkDown
  <2>1. wire' = <<>> /\ UNCHANGED <<received, written>> /\ Len(<<>>) = 0
    BY <1>2, EmptySeq DEF Connect, LinkDown
  <2> QED
    BY <2>1 DEF WireInv, Distinct
<1>3. CASE UNCHANGED vars
  BY <1>1, <1>3 DEF vars
<1>4. ASSUME NEW r \in Result, RunScheduledTask(r) PROVE WireInv'
  BY <1>1, <1>4 DEF RunScheduledTask, Execute, Add, AddEnds, SignalFlush
<1>5. CASE Wake \/ PopAll \/ StopWriting \/ RemoveOldest \/ RemoveEnds
  BY <1>1, <1>5 DEF Wake, PopAll, StopWriting, RemoveOldest, RemoveEnds
<1>6. CASE SignalConnected \/ ReadFails \/ DropSession \/ CloseConn
  BY <1>1, <1>6 DEF SignalConnected, ReadFails, DropSession, CloseConn
<1> QED
  BY <1>2, <1>3, <1>4, <1>5, <1>6, NoFaultStep, WriteWire, ReceiveWire
  DEF Next, FlushLoop, ConnectAndRun

-----------------------------------------------------------------------------
(* The hub hears of results in the order of the cache                      *)

\* x comes before y in the sequence c.
Before(x, y, c) == \E m, n \in 1..Len(c) : m < n /\ c[m] = x /\ c[n] = y

\* s takes results from c, in the order of c.
Sorted(s, c) ==
  /\ \A i \in 1..Len(s) : In(s[i], c)
  /\ \A i, j \in 1..Len(s) : i < j => Before(s[i], s[j], c)

\* The same, but results that are in s already may come again.
FirstSorted(s, c) ==
  /\ \A i \in 1..Len(s) : In(s[i], c)
  /\ \A i, j \in 1..Len(s) :
       i < j => (\E k \in 1..i : s[k] = s[j]) \/ Before(s[i], s[j], c)

\* y comes again, or after all of s.
After(y, s, c) == In(y, s) \/ \A i \in 1..Len(s) : Before(s[i], y, c)

\* A result more at the end of c changes the order of none of the others and is
\* after all of them.
LEMMA BeforeGrows ==
  ASSUME NEW c \in Seq(Result), NEW r \in Result
  PROVE  /\ \A x, y : Before(x, y, c) => Before(x, y, Append(c, r))
         /\ \A x : In(x, c) => In(x, Append(c, r)) /\ Before(x, r, Append(c, r))
         /\ In(r, Append(c, r))
<1> DEFINE d == Append(c, r)
<1>1. /\ Len(d) = Len(c) + 1 /\ Len(c) \in Nat /\ d[Len(c) + 1] = r
      /\ \A i \in 1..Len(c) : d[i] = c[i]
  BY AppendFacts
<1>2. 1..Len(c) \subseteq 1..Len(d) /\ Len(c) + 1 \in 1..Len(d)
      /\ \A i \in 1..Len(c) : i < Len(c) + 1
  BY <1>1
<1> HIDE DEF d
<1>3. \A x, y : Before(x, y, c) => Before(x, y, d)
  BY <1>1, <1>2 DEF Before
<1>4. \A x : In(x, c) => In(x, d) /\ Before(x, r, d)
  BY <1>1, <1>2 DEF In, Before
<1>5. In(r, d)
  BY <1>1, <1>2 DEF In
<1> QED
  BY <1>3, <1>4, <1>5 DEF d

LEMMA OrderGrows ==
  ASSUME NEW c \in Seq(Result), NEW r \in Result
  PROVE  /\ \A s : Sorted(s, c) => Sorted(s, Append(c, r))
         /\ \A s : FirstSorted(s, c) => FirstSorted(s, Append(c, r))
         /\ \A y, s : After(y, s, c) => After(y, s, Append(c, r))
BY BeforeGrows DEF Sorted, FirstSorted, After

\* A sequence in the order of c stays so when c and it get the same result.
LEMMA SortedAppend ==
  ASSUME NEW s \in Seq(Result), NEW c \in Seq(Result), NEW r \in Result, Sorted(s, c)
  PROVE  Sorted(Append(s, r), Append(c, r))
<1> DEFINE d == Append(c, r)
           t == Append(s, r)
<1>1. /\ Len(t) = Len(s) + 1 /\ Len(s) \in Nat /\ t[Len(s) + 1] = r
      /\ \A i \in 1..Len(s) : t[i] = s[i]
  BY AppendFacts
<1>2. Sorted(s, d) /\ In(r, d) /\ \A i \in 1..Len(s) : Before(s[i], r, d)
  BY OrderGrows, BeforeGrows DEF Sorted
<1>3. \A i \in 1..Len(t) : i \in 1..Len(s) \/ i = Len(s) + 1
  BY <1>1
<1>4. \A i, j \in 1..Len(t) : i < j => i \in 1..Len(s)
  BY <1>1
<1> HIDE DEF d, t
<1>5. \A i \in 1..Len(t) : In(t[i], d)
  BY <1>1, <1>2, <1>3 DEF Sorted
<1>6. ASSUME NEW i \in 1..Len(t), NEW j \in 1..Len(t), i < j
      PROVE  Before(t[i], t[j], d)
  <2>1. i \in 1..Len(s) /\ t[i] = s[i]
    BY <1>1, <1>4, <1>6
  <2>2. CASE j \in 1..Len(s)
    BY <1>1, <1>2, <1>6, <2>1, <2>2 DEF Sorted
  <2>3. CASE j = Len(s) + 1
    BY <1>1, <1>2, <2>1, <2>3
  <2> QED
    BY <1>3, <2>2, <2>3
<1> QED
  BY <1>5, <1>6 DEF Sorted, d, t

\* What is left when the first n are taken away is in order too.
LEMMA SortedPart ==
  ASSUME NEW s, NEW t, NEW c, NEW n \in Nat, Sorted(s, c), Len(t) \in Nat,
         \A i \in 1..Len(t) : n + i \in 1..Len(s) /\ t[i] = s[n + i]
  PROVE  Sorted(t, c)
<1>1. \A i, j \in 1..Len(t) : i < j => n + i < n + j
  OBVIOUS
<1> QED
  BY <1>1 DEF Sorted

\* A result that comes again, or after all the others, keeps the order.
LEMMA FirstSortedAppend ==
  ASSUME NEW s \in Seq(Result), NEW c, NEW r \in Result, FirstSorted(s, c),
         In(r, c), After(r, s, c)
  PROVE  FirstSorted(Append(s, r), c)
<1> DEFINE t == Append(s, r)
<1>1. /\ Len(t) = Len(s) + 1 /\ Len(s) \in Nat /\ t[Len(s) + 1] = r
      /\ \A i \in 1..Len(s) : t[i] = s[i]
  BY AppendFacts
<1>2. /\ \A i \in 1..Len(t) : i \in 1..Len(s) \/ i = Len(s) + 1
      /\ \A i, j \in 1..Len(t) : i < j => i \in 1..Len(s)
      /\ \A i \in 1..Len(s) : 1..i \subseteq 1..Len(s)
  BY <1>1
<1> HIDE DEF t
<1>3. \A i \in 1..Len(t) : In(t[i], c)
  BY <1>1, <1>2 DEF FirstSorted
<1>4. ASSUME NEW i \in 1..Len(t), NEW j \in 1..Len(t), i < j
      PROVE  (\E k \in 1..i : t[k] = t[j]) \/ Before(t[i], t[j], c)
  <2>1. i \in 1..Len(s) /\ t[i] = s[i] /\ \A k \in 1..i : t[k] = s[k]
    BY <1>1, <1>2, <1>4
  <2>2. CASE j \in 1..Len(s)
    BY <1>1, <1>4, <2>1, <2>2 DEF FirstSorted
  <2>3. CASE j = Len(s) + 1 /\ ~In(r, s)
    BY <1>1, <2>1, <2>3 DEF After
  <2>4. CASE j = Len(s) + 1 /\ In(r, s)
    <3>1. PICK m \in 1..Len(s) : s[m] = r
      BY <2>4 DEF In
    <3>2. CASE m <= i
      <4>1. m \in 1..i
        BY <3>2
      <4> QED
        BY <1>1, <2>1, <2>4, <3>1, <4>1
    <3>3. CASE i < m
      <4>1. (\E k \in 1..i : s[k] = s[m]) \/ Before(s[i], s[m], c)
        BY <2>1, <3>3 DEF FirstSorted
      <4> QED
        BY <1>1, <2>1, <2>4, <3>1, <4>1
    <3> QED
      BY <1>1, <2>1, <3>2, <3>3
  <2> QED
    BY <1>2, <2>2, <2>3, <2>4
<1> QED
  BY <1>3, <1>4 DEF FirstSorted, t

\* What comes after all of a sequence comes after a result more.
LEMMA AfterAppend ==
  ASSUME NEW s \in Seq(Result), NEW c, NEW r \in Result, NEW y, After(y, s, c),
         y = r \/ In(y, s) \/ Before(r, y, c)
  PROVE  After(y, Append(s, r), c)
<1> DEFINE t == Append(s, r)
<1>1. /\ Len(t) = Len(s) + 1 /\ Len(s) \in Nat /\ t[Len(s) + 1] = r
      /\ \A i \in 1..Len(s) : t[i] = s[i]
  BY AppendFacts
<1>2. /\ \A i \in 1..Len(t) : i \in 1..Len(s) \/ i = Len(s) + 1
      /\ 1..Len(s) \subseteq 1..Len(t) /\ Len(s) + 1 \in 1..Len(t)
  BY <1>1
<1> HIDE DEF t
<1>3. In(y, s) \/ y = r => In(y, t)
  BY <1>1, <1>2 DEF In
<1>4. CASE Before(r, y, c) /\ ~In(y, s)
  BY <1>1, <1>2, <1>4 DEF After
<1> QED
  BY <1>3, <1>4 DEF After, t

\* When the end of the sequence is lost, what was in it comes after the rest.
LEMMA OrderCut ==
  ASSUME NEW s \in Seq(Result), NEW t \in Seq(Result), NEW c, FirstSorted(s \o t, c)
  PROVE  /\ FirstSorted(s, c)
         /\ \A y : After(y, s \o t, c) => After(y, s, c)
<1> DEFINE u == s \o t
<1>1. /\ Len(u) = Len(s) + Len(t) /\ Len(s) \in Nat /\ Len(t) \in Nat
      /\ \A i \in 1..Len(s) + Len(t) : u[i] = IF i <= Len(s) THEN s[i] ELSE t[i - Len(s)]
  BY ConcatProperties, LenProperties
<1>2. /\ 1..Len(s) \subseteq 1..Len(u) /\ \A i \in 1..Len(s) : u[i] = s[i]
      /\ \A i \in 1..Len(s) : 1..i \subseteq 1..Len(s)
      /\ \A i \in 1..Len(s), j \in 1..Len(u) : j \notin 1..Len(s) => i < j
  BY <1>1
<1> HIDE DEF u
<1>3. FirstSorted(u, c)
  BY DEF u
<1>4. FirstSorted(s, c)
  BY <1>2, <1>3 DEF FirstSorted
<1>5. ASSUME NEW y, After(y, u, c), ~In(y, s), NEW i \in 1..Len(s)
      PROVE  Before(s[i], y, c)
  <2>1. CASE In(y, u)
    <3>1. PICK j \in 1..Len(u) : u[j] = y
      BY <2>1 DEF In
    <3>2. j \notin 1..Len(s)
      BY <1>2, <1>5, <3>1 DEF In
    <3>3. (\E k \in 1..i : u[k] = u[j]) \/ Before(u[i], u[j], c)
      BY <1>2, <1>3, <3>2 DEF FirstSorted
    <3>4. ~ \E k \in 1..i : u[k] = u[j]
      BY <1>2, <1>5, <3>1 DEF In
    <3> QED
      BY <1>2, <3>1, <3>3, <3>4
  <2>2. CASE ~In(y, u)
    BY <1>2, <1>5, <2>2 DEF After
  <2> QED
    BY <2>1, <2>2
<1> QED
  BY <1>4, <1>5 DEF After, u

\* What the hub has received and what is on its way to it.
Got == received \o wire

LEMMA GotFacts ==
  ASSUME TypeOK
  PROVE  /\ Got \in Seq(Result)
         /\ Len(received) \in Nat /\ Len(Got) = Len(received) + Len(wire)
         /\ \A i \in 1..Len(received) : i \in 1..Len(Got) /\ Got[i] = received[i]
<1>1. received \in Seq(Result) /\ wire \in Seq(Result)
      /\ Len(received) \in Nat /\ Len(wire) \in Nat
  BY LenProperties DEF TypeOK
<1> QED
  BY <1>1, ConcatProperties DEF Got

LEMMA OneResult ==
  ASSUME NEW r \in Result PROVE <<r>> \in Seq(Result)
OBVIOUS

\* A message sent is one more on its way.
LEMMA GotSent ==
  ASSUME TypeOK, NEW r \in Result, wire' = Append(wire, r), received' = received
  PROVE  Got' = Append(Got, r)
<1>1. received \in Seq(Result) /\ wire \in Seq(Result) /\ <<r>> \in Seq(Result)
  BY OneResult DEF TypeOK
<1>2. Append(wire, r) = wire \o <<r>>
  BY <1>1, AppendIsConcat
<1>3. received \o (wire \o <<r>>) = (received \o wire) \o <<r>>
  BY <1>1, ConcatAssociative
<1>4. received \o wire \in Seq(Result)
  BY <1>1, ConcatProperties
<1>5. (received \o wire) \o <<r>> = Append(received \o wire, r)
  BY <1>4, AppendIsConcat
<1> QED
  BY <1>2, <1>3, <1>5 DEF Got

\* A message that arrives is so in the place where it was on its way.
LEMMA GotArrives ==
  ASSUME TypeOK, HubReceives PROVE Got' = Got
<1> DEFINE r == Head(wire)
           t == Tail(wire)
<1>1. /\ received \in Seq(Result) /\ wire \in Seq(Result) /\ wire # <<>>
      /\ received' = Append(received, r) /\ wire' = t
  BY DEF TypeOK, HubReceives
<1>2. /\ r = wire[1] /\ r \in Result /\ t \in Seq(Result)
      /\ 1 \in 1..Len(wire) /\ Len(wire) \in 1..Len(wire)
  BY <1>1, TailFacts
<1>3. wire = <<r>> \o t
  <2>1. SubSeq(wire, 1, Len(wire)) = <<wire[1]>> \o SubSeq(wire, 1 + 1, Len(wire))
    BY <1>1, <1>2, SubSeqRecursiveFirst
  <2>2. SubSeq(wire, 1, Len(wire)) = wire /\ t = SubSeq(wire, 2, Len(wire))
    BY <1>1, SubSeqFull, TailIsSubSeq
  <2> QED
    BY <1>2, <2>1, <2>2
<1> HIDE DEF r, t
<1>4. Append(received, r) = received \o <<r>> /\ <<r>> \in Seq(Result)
  BY <1>1, <1>2, AppendIsConcat, OneResult
<1>5. (received \o <<r>>) \o t = received \o (<<r>> \o t)
  BY <1>1, <1>2, <1>4, ConcatAssociative
<1> QED
  BY <1>1, <1>3, <1>4, <1>5 DEF Got

\* The file and the cache's history: results are kept in the order of their
\* arrival, and each is added once.
CacheOrder ==
  /\ Distinct(cached) /\ Sorted(file, cached)
  /\ \A r \in Result : task[r] \in {"run", "add", "saving"} => ~In(r, cached)

\* While the loop writes, what it holds is what the file begins with, or, of a
\* file that was torn, comes before what is in the file since; what it has
\* counted is with the hub or on its way as long as its connection holds.
LoopOrder ==
  /\ flusher.session <= conn
  /\ flusher.pc = "write" =>
       /\ Sorted(flusher.subs, cached)
       /\ \/ /\ Len(flusher.subs) <= Len(file)
             /\ \A i \in 1..Len(flusher.subs) : file[i] = flusher.subs[i]
          \/ \A i \in 1..Len(flusher.subs), j \in 1..Len(file) :
               Before(flusher.subs[i], file[j], cached)
       /\ flusher.session = conn /\ link =>
            \A i \in 1..flusher.sent : In(flusher.subs[i], Got)

\* y is still to be sent, perhaps again.
Waiting(y) ==
  \/ In(y, file)
  \/ /\ flusher.pc = "write"
     /\ \E i \in 1..Len(flusher.subs) : i > flusher.sent /\ flusher.subs[i] = y

\* What the hub got is in order, and what is still to be sent comes after it,
\* unless the hub has it already.
HubOrder ==
  /\ FirstSorted(Got, cached)
  /\ \A y \in Result : Waiting(y) => After(y, Got, cached)

OrderInv == CacheOrder /\ LoopOrder /\ HubOrder

\* An operation that adds nothing leaves the file in order.
LEMMA KeepCache ==
  ASSUME TypeOK, CacheOrder, UNCHANGED cached,
         file' = file \/ file' = <<>> \/ file' = Cleaned(flusher.sent),
         \A r \in Result : task'[r] \in {"run", "add", "saving"}
                             => task[r] \in {"run", "add", "saving"}
  PROVE  CacheOrder'
<1>1. CASE file' = file
  BY <1>1 DEF CacheOrder
<1>2. CASE file' = <<>>
  BY <1>2, EmptySeq DEF CacheOrder, Sorted
<1>3. CASE file' = Cleaned(flusher.sent)
  <2>1. flusher.sent \in Nat /\ Len(file) \in Nat
    BY LenProperties DEF TypeOK
  <2>2. /\ Len(file') = IF flusher.sent < Len(file) THEN Len(file) - flusher.sent ELSE 0
        /\ \A i \in 1..Len(file') : file'[i] = file[flusher.sent + i]
    BY <1>3, <2>1, CleanedFacts DEF TypeOK
  <2>3. Len(file') \in Nat
        /\ \A i \in 1..Len(file') : flusher.sent + i \in 1..Len(file)
    BY <2>1, <2>2
  <2>4. Sorted(file', cached)
    BY <2>1, <2>2, <2>3, SortedPart DEF CacheOrder
  <2> QED
    BY <2>4 DEF CacheOrder
<1> QED
  BY <1>1, <1>2, <1>3

\* So does a result that is added for the first time.
LEMMA GrowCache ==
  ASSUME TypeOK, CacheOrder, NEW r \in Result, ~In(r, cached),
         file' = Append(file, r), cached' = Append(cached, r),
         \A s \in Result : task'[s] \in {"run", "add", "saving"}
                             => s # r /\ task[s] \in {"run", "add", "saving"}
  PROVE  CacheOrder'
<1>1. file \in Seq(Result) /\ cached \in Seq(Result)
  BY DEF TypeOK
<1>2. Distinct(cached') /\ Sorted(file', cached')
  BY <1>1, AppendDistinct, SortedAppend DEF CacheOrder
<1>3. \A s : In(s, cached') => In(s, cached) \/ s = r
  BY <1>1, AppendFacts DEF In
<1> QED
  BY <1>2, <1>3 DEF CacheOrder

\* The hub's part when nothing is added and nothing sent.
LEMMA KeepHub ==
  ASSUME HubOrder, UNCHANGED <<cached, hubVars>>,
         \A y \in Result : Waiting(y)' => Waiting(y)
  PROVE  HubOrder'
BY DEF HubOrder, Got, hubVars

\* The hub's part when a result is added: it comes after all the others.
LEMMA GrowHub ==
  ASSUME TypeOK, HubOrder, NEW r \in Result, file' = Append(file, r),
         cached' = Append(cached, r), UNCHANGED hubVars,
         flusher' = flusher \/ flusher'.pc # "write"
  PROVE  HubOrder'
<1>1. file \in Seq(Result) /\ cached \in Seq(Result) /\ Got' = Got
  BY DEF TypeOK, Got, hubVars
<1>2. /\ Len(file') = Len(file) + 1 /\ Len(file) \in Nat /\ file'[Len(file) + 1] = r
      /\ \A i \in 1..Len(file) : file'[i] = file[i]
  BY <1>1, AppendFacts
<1>3. \A i \in 1..Len(file') : i \in 1..Len(file) \/ i = Len(file) + 1
  BY <1>2
<1>4. \A y \in Result : Waiting(y)' => Waiting(y) \/ y = r
  BY <1>2, <1>3 DEF Waiting, In
<1>5. After(r, Got, cached')
  BY <1>1, BeforeGrows DEF HubOrder, FirstSorted, After
<1> QED
  BY <1>1, <1>4, <1>5, OrderGrows DEF HubOrder

\* The loop's part when it does not write, or nothing is added and its
\* connection does not change.
LEMMA KeepLoop ==
  ASSUME TypeOK, LoopOrder, flusher'.session <= conn',
         \/ flusher'.pc # "write"
         \/ /\ flusher' = flusher /\ UNCHANGED <<cached, hubVars>>
            /\ file' = file \/ file' = <<>>
            /\ conn' = conn /\ (link' => link)
  PROVE  LoopOrder'
<1>1. CASE flusher'.pc # "write"
  BY <1>1 DEF LoopOrder
<1>2. CASE /\ flusher' = flusher /\ UNCHANGED <<cached, hubVars>>
           /\ conn' = conn /\ (link' => link) /\ file' = file
  BY <1>2 DEF LoopOrder, Got, hubVars
<1>3. CASE /\ flusher' = flusher /\ UNCHANGED <<cached, hubVars>>
           /\ conn' = conn /\ (link' => link) /\ file' = <<>>
  <2>1. Len(file') = 0
    BY <1>3, EmptySeq
  <2> QED
    BY <1>3, <2>1 DEF LoopOrder, Got, hubVars
<1> QED
  BY <1>1, <1>2, <1>3

\* The loop's part when a result is added.
LEMMA GrowLoop ==
  ASSUME TypeOK, LoopOrder, NEW r \in Result, file' = Append(file, r),
         cached' = Append(cached, r), flusher' = flusher,
         UNCHANGED <<connVars, hubVars>>
  PROVE  LoopOrder'
<1>1. /\ file \in Seq(Result) /\ cached \in Seq(Result) /\ Got' = Got
      /\ Len(flusher.subs) \in Nat /\ UNCHANGED <<conn, link>>
  BY LenProperties DEF TypeOK, Got, hubVars, connVars
<1>2. /\ Len(file') = Len(file) + 1 /\ Len(file) \in Nat /\ file'[Len(file) + 1] = r
      /\ \A i \in 1..Len(file) : file'[i] = file[i]
  BY <1>1, AppendFacts
<1>3. \A i \in 1..Len(file') : i \in 1..Len(file) \/ i = Len(file) + 1
  BY <1>2
<1> SUFFICES ASSUME flusher.pc = "write" PROVE LoopOrder'
  BY <1>1 DEF LoopOrder
<1>4. Sorted(flusher.subs, cached) /\ Sorted(flusher.subs, cached')
  BY <1>1, OrderGrows DEF LoopOrder
<1>5. \/ /\ Len(flusher.subs) <= Len(file')
         /\ \A i \in 1..Len(flusher.subs) : file'[i] = flusher.subs[i]
      \/ \A i \in 1..Len(flusher.subs), j \in 1..Len(file') :
           Before(flusher.subs[i], file'[j], cached')
  <2>1. CASE /\ Len(flusher.subs) <= Len(file)
             /\ \A i \in 1..Len(flusher.subs) : file[i] = flusher.subs[i]
    <3>1. \A i \in 1..Len(flusher.subs) : i \in 1..Len(file)
      BY <1>1, <1>2, <2>1
    <3> QED
      BY <1>1, <1>2, <2>1, <3>1
  <2>2. CASE \A i \in 1..Len(flusher.subs), j \in 1..Len(file) :
               Before(flusher.subs[i], file[j], cached)
    <3>1. \A i \in 1..Len(flusher.subs) : Before(flusher.subs[i], r, cached')
      BY <1>1, <1>4, BeforeGrows DEF Sorted
    <3>2. \A i \in 1..Len(flusher.subs), j \in 1..Len(file) :
            Before(flusher.subs[i], file[j], cached')
      BY <1>1, <2>2, BeforeGrows
    <3> QED
      BY <1>2, <1>3, <3>1, <3>2
  <2> QED
    BY <2>1, <2>2 DEF LoopOrder
<1> QED
  BY <1>1, <1>4, <1>5 DEF LoopOrder

\* A save that goes wrong leaves the file or empties it.
LEMMA BadEnd == EndBadly => file' = file \/ file' = <<>>
BY DEF EndBadly

\* What is to be sent after the loop has stopped writing, or gone on, was so
\* before.
LEMMA StillWaiting ==
  ASSUME TypeOK, file' = file \/ file' = <<>> \/ file' = Cleaned(flusher.sent),
         flusher' = flusher \/ flusher'.pc # "write"
  PROVE  \A y \in Result : Waiting(y)' => Waiting(y)
<1>1. flusher.sent \in Nat /\ Len(file) \in Nat
  BY LenProperties DEF TypeOK
<1>2. \A y \in Result : In(y, file') => In(y, file)
  <2>1. CASE file' = Cleaned(flusher.sent)
    <3>1. /\ Len(file') = IF flusher.sent < Len(file) THEN Len(file) - flusher.sent ELSE 0
          /\ \A i \in 1..Len(file') : file'[i] = file[flusher.sent + i]
      BY <1>1, <2>1, CleanedFacts DEF TypeOK
    <3>2. \A i \in 1..Len(file') : flusher.sent + i \in 1..Len(file)
      BY <1>1, <3>1
    <3> QED
      BY <3>1, <3>2 DEF In
  <2>2. CASE file' = <<>>
    BY <2>2, EmptySeq DEF In
  <2> QED
    BY <2>1, <2>2
<1> QED
  BY <1>2 DEF Waiting

LEMMA TaskOrder ==
  ASSUME TypeOK, SaveInv, OrderInv, NEW r \in Result, RunScheduledTask(r)
  PROVE  OrderInv'
<1>1. UNCHANGED <<flusher, connVars, hubVars>> /\ CacheOrder /\ LoopOrder /\ HubOrder
      /\ UNCHANGED conn /\ UNCHANGED link /\ flusher'.session <= conn'
  BY DEF RunScheduledTask, Execute, Add, AddEnds, SignalFlush, OrderInv, LoopOrder, connVars
<1>2. CASE /\ UNCHANGED cached /\ (file' = file \/ file' = <<>>)
           /\ \A s \in Result : task'[s] \in {"run", "add", "saving"}
                                  => task[s] \in {"run", "add", "saving"}
  BY <1>1, <1>2, KeepCache, KeepLoop, KeepHub, StillWaiting DEF OrderInv
<1>3. CASE Execute(r) \/ Add(r) \/ SignalFlush(r)
  <2>1. UNCHANGED <<file, cached>>
    BY <1>3 DEF Execute, Add, SignalFlush, cacheVars
  <2>2. \A s \in Result : task'[s] \in {"run", "add", "saving"}
                            => task[s] \in {"run", "add", "saving"}
    BY <1>3 DEF Execute, Add, SignalFlush, At, TypeOK
  <2> QED
    BY <1>2, <2>1, <2>2
<1>4. CASE AddEnds(r)
  <2>1. saving.by = r /\ saving # Idle /\ task[r] = "saving"
    BY <1>4, ByFacts DEF AddEnds, SaveInv
  <2>2. \A s \in Result : task'[s] \in {"run", "add", "saving"}
                            => s # r /\ task[s] \in {"run", "add", "saving"}
    BY <1>4 DEF AddEnds, At, TypeOK
  <2>3. CASE End /\ cached' = Append(cached, r)
    <3>1. file' = Append(file, r)
      BY <2>1, <2>3, EndFacts, ByFacts
    <3>2. ~In(r, cached)
      BY <1>1, <2>1 DEF CacheOrder
    <3> QED
      BY <1>1, <2>2, <2>3, <3>1, <3>2, GrowCache, GrowLoop, GrowHub DEF OrderInv
  <2>4. CASE EndBadly /\ UNCHANGED cached
    BY <1>2, <2>2, <2>4, BadEnd
  <2> QED
    BY <1>4, <2>3, <2>4 DEF AddEnds, SaveFails
<1> QED
  BY <1>3, <1>4 DEF RunScheduledTask

LEMMA CrashOrder ==
  ASSUME TypeOK, SaveInv, OrderInv, Crash PROVE OrderInv'
<1>1. /\ UNCHANGED <<conn, hubVars>> /\ flusher'.pc # "write" /\ flusher'.session = 0
      /\ CacheOrder /\ LoopOrder /\ HubOrder
  BY DEF Crash, Resting, OrderInv
<1>2. LoopOrder'
  <2>1. flusher'.session <= conn'
    BY <1>1, BoundAssumption DEF TypeOK
  <2> QED
    BY <1>1, <2>1, KeepLoop
<1>3. \A s \in Result : AfterCrash(s) \in {"run", "add", "saving"}
                          => task[s] \in {"run", "add", "saving"}
  BY DEF AfterCrash, TypeOK
<1>4. CASE /\ UNCHANGED cached
           /\ file' = file \/ file' = <<>> \/ file' = Cleaned(flusher.sent)
           /\ \A s \in Result : task'[s] \in {"run", "add", "saving"}
                                  => task[s] \in {"run", "add", "saving"}
  BY <1>1, <1>2, <1>4, KeepCache, KeepHub, StillWaiting DEF OrderInv
<1>5. CASE (EndBadly \/ UNCHANGED file) /\ UNCHANGED cached
           /\ task' = [r \in Result |-> AfterCrash(r)]
  BY <1>3, <1>4, <1>5, BadEnd
<1>6. CASE /\ saving # Idle /\ End
           /\ task' = [r \in Result |-> IF r = saving.by THEN "ended" ELSE AfterCrash(r)]
           /\ cached' = IF saving.by \in Result THEN Append(cached, saving.by) ELSE cached
  <2>1. \A s \in Result : task'[s] \in {"run", "add", "saving"}
                            => s # saving.by /\ task[s] \in {"run", "add", "saving"}
    BY <1>3, <1>6
  <2>2. CASE saving.by = "flush" /\ file' = Cleaned(flusher.sent)
    BY <1>4, <1>6, <2>1, <2>2, ByFacts
  <2>3. CASE saving.by \in Result /\ file' = Append(file, saving.by)
    <3>1. PICK r \in Result : r = saving.by
      BY <2>3
    <3>2. ~In(r, cached)
      BY <1>1, <3>1 DEF SaveInv, CacheOrder
    <3>3. file' = Append(file, r) /\ cached' = Append(cached, r)
      BY <1>6, <2>3, <3>1
    <3>4. CacheOrder'
      BY <1>1, <2>1, <3>1, <3>2, <3>3, GrowCache
    <3>5. HubOrder'
      BY <1>1, <3>3, GrowHub
    <3> QED
      BY <1>2, <3>4, <3>5 DEF OrderInv
  <2> QED
    BY <1>6, <2>2, <2>3, EndFacts
<1> QED
  BY <1>5, <1>6 DEF Crash

\* A result that is sent comes after all the hub has got, or again, and all that
\* wait then come after it.
LEMMA WriteOrder ==
  ASSUME TypeOK, OrderInv, WriteAccepted PROVE OrderInv'
<1>1. PICK n : n = flusher.sent + 1
  OBVIOUS
<1>2. PICK r : r = flusher.subs[n]
  OBVIOUS
<1>3. /\ CacheOrder /\ LoopOrder /\ HubOrder /\ UNCHANGED <<task, file, cached, conn, link>>
      /\ flusher.pc = "write" /\ flusher.session = conn
      /\ flusher'.pc = "write" /\ flusher'.session = conn
      /\ flusher'.subs = flusher.subs /\ flusher'.sent = n
      /\ received' = received /\ wire' = IF link THEN Append(wire, r) ELSE wire
  BY <1>1, <1>2, FlushFields DEF OrderInv, WriteAccepted, Writable, cacheVars, connVars
<1>4. /\ n \in 1..Len(flusher.subs) /\ n > flusher.sent /\ r \in Result
      /\ flusher.sent \in Nat /\ Len(flusher.subs) \in Nat /\ Len(file) \in Nat
      /\ \A i \in 1..n : i = n \/ i \in 1..flusher.sent
      /\ \A i \in Nat : i > n => i > flusher.sent
  <2>1. flusher.subs \in Seq(Result) /\ flusher.sent \in Nat /\ Len(flusher.subs) \in Nat
        /\ Len(file) \in Nat /\ flusher.sent < Len(flusher.subs)
    BY LenProperties DEF TypeOK, WriteAccepted
  <2>2. n \in 1..Len(flusher.subs)
    BY <1>1, <2>1
  <2> QED
    BY <1>1, <1>2, <2>1, <2>2, ElementOfSeq
<1>5. CacheOrder'
  BY <1>3 DEF CacheOrder
<1>6. /\ Sorted(flusher.subs, cached)
      /\ \/ /\ Len(flusher.subs) <= Len(file)
            /\ \A i \in 1..Len(flusher.subs) : file[i] = flusher.subs[i]
         \/ \A i \in 1..Len(flusher.subs), j \in 1..Len(file) :
              Before(flusher.subs[i], file[j], cached)
      /\ link => \A i \in 1..flusher.sent : In(flusher.subs[i], Got)
  BY <1>3 DEF LoopOrder
<1>7. \A y \in Result : Waiting(y)' => Waiting(y)
  BY <1>3, <1>4 DEF Waiting
<1>8. CASE ~link
  <2>1. Got' = Got
    BY <1>3, <1>8 DEF Got
  <2>2. LoopOrder'
    BY <1>3, <1>6, <1>8 DEF LoopOrder, TypeOK
  <2> QED
    BY <1>3, <1>5, <1>7, <2>1, <2>2 DEF OrderInv, HubOrder
<1>9. CASE link
  <2>1. Got' = Append(Got, r) /\ Got \in Seq(Result)
    BY <1>3, <1>4, <1>9, GotSent, GotFacts
  <2>2. Waiting(r) /\ In(r, cached)
    BY <1>2, <1>3, <1>4, <1>6 DEF Waiting, Sorted
  <2>3. FirstSorted(Got', cached)
    BY <1>3, <1>4, <2>1, <2>2, FirstSortedAppend DEF HubOrder
  <2>4. ASSUME NEW y \in Result, Waiting(y)'
        PROVE  y = r \/ In(y, Got) \/ Before(r, y, cached)
    <3>1. CASE \E i \in 1..Len(flusher.subs) : i > n /\ flusher.subs[i] = y
      BY <1>2, <1>4, <1>6, <3>1 DEF Sorted
    <3>2. CASE In(y, file)
      <4>1. PICK k \in 1..Len(file) : file[k] = y
        BY <3>2 DEF In
      <4>2. CASE /\ Len(flusher.subs) <= Len(file)
                 /\ \A i \in 1..Len(flusher.subs) : file[i] = flusher.subs[i]
        <5>1. n \in 1..Len(file) /\ file[n] = r
          BY <1>2, <1>4, <4>2
        <5>2. CASE k > n
          BY <1>3, <4>1, <5>1, <5>2 DEF CacheOrder, Sorted
        <5>3. CASE k <= n
          <6>1. k = n \/ (k \in 1..flusher.sent /\ k \in 1..Len(flusher.subs))
            BY <1>4, <4>1, <5>3
          <6> QED
            BY <1>6, <1>9, <4>1, <4>2, <5>1, <6>1
        <5> QED
          BY <1>4, <4>1, <5>2, <5>3
      <4>3. CASE \A i \in 1..Len(flusher.subs), j \in 1..Len(file) :
                   Before(flusher.subs[i], file[j], cached)
        BY <1>2, <1>4, <4>1, <4>3
      <4> QED
        BY <1>6, <4>2, <4>3
    <3> QED
      BY <1>3, <2>4, <3>1, <3>2 DEF Waiting
  <2>5. \A y \in Result : Waiting(y)' => After(y, Got', cached)
    BY <1>3, <1>4, <1>7, <2>1, <2>4, AfterAppend DEF HubOrder
  <2>6. LoopOrder'
    <3>1. \A i \in 1..n : In(flusher.subs[i], Got')
      BY <1>2, <1>4, <1>6, <1>9, <2>1, BeforeGrows
    <3> QED
      BY <1>3, <1>6, <3>1 DEF LoopOrder, TypeOK
  <2> QED
    BY <1>3, <1>5, <2>3, <2>5, <2>6 DEF OrderInv, HubOrder
<1> QED
  BY <1>8, <1>9 DEF TypeOK

LEMMA FlushOrder ==
  ASSUME TypeOK, SaveInv, OrderInv, FlushLoop PROVE OrderInv'
<1>0. CacheOrder /\ LoopOrder /\ HubOrder /\ conn \in Nat /\ session <= conn
  BY BoundAssumption DEF OrderInv, TypeOK
<1>1. CASE /\ UNCHANGED <<task, cached, hubVars>> /\ flusher'.pc # "write"
           /\ file' = file \/ file' = <<>> \/ file' = Cleaned(flusher.sent)
           /\ flusher'.session <= conn'
  BY <1>0, <1>1, KeepCache, KeepLoop, KeepHub, StillWaiting DEF OrderInv
<1>2. CASE Wake
  <2>1. UNCHANGED <<task, file, cached, hubVars, conn>> /\ flusher.pc = "select"
    BY <1>2 DEF Wake, cacheVars, connVars
  <2> QED
    BY <1>0, <1>1, <1>2, <2>1, FlushFields DEF LoopOrder
<1>3. CASE PopAll
  <2>1. UNCHANGED <<task, file, cached, conn>> /\ UNCHANGED hubVars
    BY <1>3 DEF PopAll, cacheVars, connVars
  <2>2. /\ flusher'.subs = file /\ flusher'.sent = 0
        /\ flusher'.session = flusher.session /\ Len(file) \in Nat
    BY <1>3, FlushFields, LenProperties DEF TypeOK
  <2>3. CacheOrder'
    BY <1>0, <2>1, KeepCache
  <2>4. LoopOrder'
    BY <1>0, <2>1, <2>2 DEF LoopOrder, CacheOrder
  <2>5. \A y \in Result : Waiting(y)' => Waiting(y)
    BY <2>1, <2>2 DEF Waiting, In
  <2> QED
    BY <1>0, <2>1, <2>3, <2>4, <2>5, KeepHub DEF OrderInv
<1>4. CASE StopWriting \/ RemoveOldest
  <2>1. UNCHANGED <<task, file, cached, hubVars, conn>>
    BY <1>4 DEF StopWriting, RemoveOldest, cacheVars, connVars
  <2> QED
    BY <1>0, <1>1, <1>4, <2>1, FlushFields DEF LoopOrder
<1>5. CASE RemoveEnds
  <2>1. UNCHANGED <<task, cached, hubVars, conn>> /\ (End \/ EndBadly)
        /\ flusher.pc = "saving"
    BY <1>5 DEF RemoveEnds, connVars, SaveFails
  <2>2. saving.by = "flush" /\ saving # Idle
    BY <2>1, ByFacts DEF SaveInv
  <2>3. file' = file \/ file' = <<>> \/ file' = Cleaned(flusher.sent)
    BY <2>1, <2>2, EndFacts, ByFacts, BadEnd
  <2> QED
    BY <1>0, <1>1, <1>5, <2>1, <2>3, FlushFields DEF LoopOrder
<1> QED
  BY <1>2, <1>3, <1>4, <1>5, WriteOrder DEF FlushLoop

\* When a connection ends or begins, what was on its way is lost; what the hub
\* has is in order still, and what was lost comes after it.
LEMMA LinkOrder ==
  ASSUME TypeOK, OrderInv, ConnectAndRun \/ LinkDown \/ HubReceives PROVE OrderInv'
<1>0. /\ CacheOrder /\ LoopOrder /\ HubOrder /\ conn \in Nat
      /\ UNCHANGED <<task, file, cached, flusher>>
  BY LinkKeeps, BoundAssumption DEF OrderInv, TypeOK, cacheVars
<1>1. CacheOrder' /\ \A y \in Result : Waiting(y)' => Waiting(y)
  BY <1>0 DEF CacheOrder, Waiting
<1>2. CASE Connect \/ LinkDown
  <2>1. received' = received /\ wire' = <<>> /\ received \in Seq(Result)
        /\ wire \in Seq(Result)
    BY <1>2 DEF Connect, LinkDown, TypeOK
  <2>2. Got' = received
    BY <2>1, ConcatEmptySeq DEF Got
  <2>3. HubOrder'
    BY <1>0, <1>1, <2>1, <2>2, OrderCut DEF HubOrder, Got
  <2>4. flusher.session <= conn' /\ ~(flusher.session = conn' /\ link')
    <3>1. flusher.session \in Nat /\ flusher.session <= conn
      BY <1>0, BoundAssumption DEF LoopOrder, TypeOK
    <3> QED
      BY <1>0, <1>2, <3>1 DEF Connect, LinkDown
  <2>5. LoopOrder'
    BY <1>0, <2>4 DEF LoopOrder
  <2> QED
    BY <1>1, <2>3, <2>5 DEF OrderInv
<1>3. CASE SignalConnected \/ ReadFails \/ DropSession \/ CloseConn \/ HubReceives
  <2>1. UNCHANGED <<conn, link>>
    BY <1>3 DEF SignalConnected, ReadFails, DropSession, CloseConn, HubReceives, connVars
  <2>2. Got' = Got
    <3>1. CASE UNCHANGED hubVars
      BY <3>1 DEF Got, hubVars
    <3> QED
      BY <1>3, <3>1, GotArrives DEF SignalConnected, ReadFails, DropSession, CloseConn
  <2>3. LoopOrder' /\ HubOrder'
    BY <1>0, <1>1, <2>1, <2>2 DEF LoopOrder, HubOrder
  <2> QED
    BY <1>1, <2>3 DEF OrderInv
<1> QED
  BY <1>2, <1>3 DEF ConnectAndRun

LEMMA OrderStep ==
  ASSUME TypeOK, SaveInv, OrderInv, [Next]_vars PROVE OrderInv'
<1>1. CASE UNCHANGED vars
  BY <1>1 DEF vars, cacheVars, connVars, hubVars, OrderInv, CacheOrder, LoopOrder,
              HubOrder, Waiting, Got
<1> QED
  BY <1>1, TaskOrder, FlushOrder, LinkOrder, CrashOrder DEF Next

-----------------------------------------------------------------------------
(* Store and forward implements Outbox.                                    *)

\* Only what the cache has taken is written.
StoredInv == \A r \in written : In(r, cached)

LEMMA StoredStep ==
  ASSUME TypeOK, SaveInv, OrderInv, StoredInv, [Next]_vars PROVE StoredInv'
<1>1. CASE UNCHANGED <<written, cached>>
  BY <1>1 DEF StoredInv
<1>2. CASE WriteAccepted
  <2>1. flusher.sent + 1 \in 1..Len(flusher.subs) /\ flusher.pc = "write"
    BY <1>2, LenProperties DEF WriteAccepted, TypeOK
  <2>2. In(flusher.subs[flusher.sent + 1], cached)
    BY <2>1 DEF OrderInv, LoopOrder, Sorted
  <2> QED
    BY <1>2, <2>2 DEF WriteAccepted, cacheVars, StoredInv
<1>3. CASE \E r \in Result : written' = written /\ cached' = Append(cached, r)
  <2>1. PICK r \in Result : written' = written /\ cached' = Append(cached, r)
    BY <1>3
  <2>2. \A x : In(x, cached) => In(x, cached')
    BY <2>1, AppendFacts DEF In, TypeOK
  <2> QED
    BY <2>1, <2>2 DEF StoredInv
<1>4. CASE Crash \/ \E r \in Result : RunScheduledTask(r)
  BY <1>1, <1>3, <1>4
  DEF Crash, RunScheduledTask, Execute, Add, AddEnds, SignalFlush, cacheVars
<1>5. CASE \/ UNCHANGED vars \/ ConnectAndRun \/ LinkDown \/ HubReceives
           \/ Wake \/ PopAll \/ StopWriting \/ RemoveOldest \/ RemoveEnds
  BY <1>1, <1>5, LinkKeeps
  DEF vars, Wake, PopAll, StopWriting, RemoveOldest, RemoveEnds, cacheVars
<1> QED
  BY <1>2, <1>4, <1>5 DEF Next, FlushLoop

LEMMA ToSetIn ==
  ASSUME NEW s \in Seq(Result), NEW x PROVE x \in ToSet(s) <=> In(x, s)
BY LenProperties DEF ToSet, In

\* What is stored no more and has not been written.
Lost == ToSet(cached) \ (ToSet(file) \cup written)

BoxSame == UNCHANGED <<file, written, Lost, torn>>

\* A result that the file holds is there once, and the cache has taken it.
LEMMA FileOnce ==
  ASSUME TypeOK, CacheOrder
  PROVE  Distinct(file) /\ \A i \in 1..Len(file) : file[i] \in ToSet(cached)
<1>1. \A x, y : Before(x, y, cached) => x # y
  BY DEF Before, CacheOrder, Distinct
<1>2. Len(file) \in Nat /\ \A i \in 1..Len(file) : In(file[i], cached)
  BY LenProperties DEF TypeOK, CacheOrder, Sorted
<1>3. Distinct(file)
  BY <1>1, <1>2 DEF CacheOrder, Sorted, Distinct
<1> QED
  BY <1>2, <1>3, ToSetIn DEF TypeOK

\* Add is Store.
LEMMA AddStores ==
  ASSUME TypeOK, CacheOrder, StoredInv, NEW r \in Result, ~In(r, cached),
         file' = Append(file, r), cached' = Append(cached, r),
         UNCHANGED <<written, torn>>
  PROVE  Box!Store(r)
<1>1. r \notin written /\ r \notin ToSet(cached)
  BY ToSetIn DEF StoredInv, TypeOK
<1>2. r \notin ToSet(file)
  <2>1. ~In(r, file)
    BY <1>1, FileOnce DEF In
  <2> QED
    BY <2>1, ToSetIn DEF TypeOK
<1>3. \A s \in Seq(Result) : ToSet(Append(s, r)) = ToSet(s) \cup {r}
  <2>1. TAKE s \in Seq(Result)
  <2>2. \A x : In(x, Append(s, r)) <=> In(x, s) \/ x = r
    <3>1. /\ Len(Append(s, r)) = Len(s) + 1 /\ Append(s, r)[Len(s) + 1] = r
          /\ \A i \in 1..Len(s) : Append(s, r)[i] = s[i]
      BY AppendFacts
    <3>2. \A i \in 1..Len(s) + 1 : i \in 1..Len(s) \/ i = Len(s) + 1
      BY AppendFacts
    <3>3. Len(s) + 1 \in 1..Len(s) + 1 /\ \A i \in 1..Len(s) : i \in 1..Len(s) + 1
      BY AppendFacts
    <3> QED
      BY <3>1, <3>2, <3>3, Zenon DEF In
  <2> QED
    BY <2>2, ToSetIn, AppendFacts
<1>4. Lost' = Lost
  BY <1>1, <1>3 DEF Lost, TypeOK
<1> QED
  BY <1>1, <1>2, <1>4 DEF Box!Store, Box!ToSet, ToSet, Lost

\* A save that is cut short is Spoil.
LEMMA BadEndSpoils ==
  ASSUME TypeOK, CacheOrder, EndBadly, UNCHANGED <<cached, written>>
  PROVE  BoxSame \/ Box!Spoil
<1>1. CASE UNCHANGED <<file, torn>>
  BY <1>1 DEF BoxSame, Lost
<1>2. CASE file' = <<>> /\ torn' = TRUE
  <2>1. Len(file) \in Nat /\ DOMAIN file = 1..Len(file)
    BY LenProperties DEF TypeOK
  <2>2. SubSeq(file, Len(file) + 1, Len(file)) = <<>>
    BY <2>1, CleanedFacts, EmptySeq DEF TypeOK, Cleaned
  <2>3. ToSet(<<>>) = {} /\ ToSet(file) = {file[i] : i \in 1..Len(file)}
    BY <2>1 DEF ToSet
  <2>4. ToSet(file) \subseteq ToSet(cached)
    BY <2>3, FileOnce
  <2>5. Lost' = Lost \cup ({file[i] : i \in 1..Len(file)} \ written)
    BY <1>2, <2>3, <2>4 DEF Lost
  <2> QED
    BY <1>2, <2>2, <2>5 DEF Box!Spoil, Box!Leave, Lost
<1> QED
  BY <1>1, <1>2 DEF EndBadly

\* RemoveOldest is Forget of as many results as there are; they have been
\* written, unless a save was cut short before.
LEMMA CleaningForgets ==
  ASSUME TypeOK, CacheOrder, FlushInv, flusher.pc = "saving",
         file' = Cleaned(flusher.sent), UNCHANGED <<cached, written, torn>>
  PROVE  BoxSame \/ \E n \in 1..Len(file) : Box!Forget(n)
<1>0. /\ Len(file) \in Nat /\ file \in Seq(Result)
      /\ flusher.sent \in Nat /\ Len(flusher.subs) \in Nat
      /\ flusher.sent <= Len(flusher.subs)
  BY LenProperties DEF TypeOK
<1>1. PICK n \in Nat : \/ flusher.sent < Len(file) /\ n = flusher.sent
                       \/ Len(file) <= flusher.sent /\ n = Len(file)
  BY <1>0
<1>2. n <= Len(file) /\ file' = SubSeq(file, n + 1, Len(file))
  <2>1. CASE flusher.sent < Len(file)
    <3>1. n = flusher.sent /\ n <= Len(file)
      BY <1>0, <1>1, <2>1
    <3> QED
      BY <3>1 DEF Cleaned
  <2>2. CASE Len(file) <= flusher.sent
    <3>1. Len(file') = 0 /\ file' \in Seq(Result)
      BY <1>0, <2>2, CleanedFacts
    <3>2. n = Len(file) /\ n + 1 > Len(file)
      BY <1>0, <1>1, <2>2
    <3>3. SubSeq(file, n + 1, Len(file)) = <<>>
      BY <1>0, <3>2, SubSeqEmpty
    <3> QED
      BY <3>1, <3>2, <3>3, EmptySeq, <1>0
  <2> QED
    BY <1>0, <2>1, <2>2
<1>3. CASE n = 0
  <2>1. file' = SubSeq(file, 1, Len(file))
    BY <1>2, <1>3
  <2>2. file' = file
    BY <1>0, <2>1, SubSeqFull
  <2> QED
    BY <2>2 DEF BoxSame, Lost
<1>4. CASE n \in 1..Len(file)
  <2>1. /\ file' \in Seq(Result) /\ Len(file') = Len(file) - n
        /\ \A i \in 1..Len(file') : file'[i] = file[n + i]
    <3>1. file' = Cleaned(n)
      BY <1>2 DEF Cleaned
    <3>2. n < Len(file) \/ Len(file) - n = 0
      BY <1>0, <1>2
    <3> QED
      BY <1>0, <3>1, <3>2, CleanedFacts
  <2>2. \A x : In(x, file) <=> In(x, file') \/ \E i \in 1..n : file[i] = x
    <3>1. ASSUME NEW i \in 1..Len(file), i > n PROVE In(file[i], file')
      <4>1. i - n \in 1..Len(file') /\ n + (i - n) = i
        BY <1>0, <2>1, <3>1
      <4> QED
        BY <2>1, <4>1 DEF In
    <3>2. \A i \in 1..Len(file') : n + i \in 1..Len(file)
      BY <1>0, <2>1
    <3>3. \A i \in 1..n : i \in 1..Len(file)
      BY <1>0, <1>4
    <3>4. \A i \in 1..Len(file) : i > n \/ i \in 1..n
      BY <1>0
    <3>5. ASSUME NEW x, In(x, file) PROVE In(x, file') \/ \E i \in 1..n : file[i] = x
      BY <3>1, <3>4, <3>5 DEF In
    <3>6. ASSUME NEW x, In(x, file') \/ \E i \in 1..n : file[i] = x PROVE In(x, file)
      BY <2>1, <3>2, <3>3, <3>6 DEF In
    <3> QED
      BY <3>5, <3>6
  <2>3. \A i \in 1..n : file[i] \in ToSet(cached) /\ ~In(file[i], file')
    <3>1. TAKE i \in 1..n
    <3>2. i \in 1..Len(file) /\ \A k \in 1..Len(file') : n + k \in 1..Len(file) /\ n + k # i
      BY <1>0, <1>4, <2>1
    <3>3. \A k \in 1..Len(file') : file'[k] = file[n + k]
      BY <2>1
    <3>4. Distinct(file) /\ file[i] \in ToSet(cached)
      BY <3>2, FileOnce
    <3>5. \A k \in 1..Len(file') : file'[k] # file[i]
      BY <3>2, <3>3, <3>4 DEF Distinct
    <3> QED
      BY <3>4, <3>5 DEF In
  <2>4. Lost' = Lost \cup ({file[i] : i \in 1..n} \ written)
    <3>1. \A x : x \in ToSet(file) <=> x \in ToSet(file') \/ x \in {file[i] : i \in 1..n}
      BY <1>0, <2>1, <2>2, ToSetIn
    <3>2. \A x \in {file[i] : i \in 1..n} : x \in ToSet(cached) /\ x \notin ToSet(file')
      BY <2>1, <2>3, ToSetIn
    <3>3. Lost' = ToSet(cached) \ (ToSet(file') \cup written)
      BY DEF Lost
    <3> QED
      BY <3>1, <3>2, <3>3 DEF Lost
  <2>5. ~torn => Lost' = Lost
    <3>1. SUFFICES ASSUME ~torn PROVE \A i \in 1..n : file[i] \in written
      BY <2>4
    <3>2. Working
      BY DEF Working
    <3>3. \A i \in 1..n : i \in 1..flusher.sent /\ i \in 1..Len(flusher.subs)
      BY <1>0, <1>1
    <3> QED
      BY <3>1, <3>2, <3>3 DEF FlushInv
  <2>6. Box!Forget(n)
    BY <1>2, <1>4, <2>4, <2>5 DEF Box!Forget, Box!Leave, Lost
  <2> QED
    BY <1>4, <2>6
<1> QED
  BY <1>0, <1>2, <1>3, <1>4

\* WriteMessage is Send when the result is in the file: all that is before it
\* has been written.  Otherwise the loop has the only copy.
LEMMA WriteSends ==
  ASSUME TypeOK, FlushInv, OrderInv, WriteAccepted
  PROVE  \/ BoxSame
         \/ \E i \in 1..Len(file) : Box!Send(i)
         \/ \E r \in Result : Box!SendCopy(r)
<1>1. PICK n \in Nat : n = flusher.sent + 1
  BY DEF TypeOK
<1>2. PICK r : r = flusher.subs[n]
  OBVIOUS
<1>3. /\ flusher.pc = "write" /\ written' = written \cup {r}
      /\ UNCHANGED <<file, cached, torn>>
      /\ n \in 1..Len(flusher.subs) /\ Len(flusher.subs) \in Nat
      /\ Len(file) \in Nat /\ \A i \in 1..n - 1 : i \in 1..flusher.sent
  <2>1. /\ flusher.sent \in Nat /\ Len(flusher.subs) \in Nat /\ Len(file) \in Nat
        /\ flusher.sent < Len(flusher.subs)
    BY LenProperties DEF WriteAccepted, TypeOK
  <2>2. n \in 1..Len(flusher.subs) /\ \A i \in 1..n - 1 : i \in 1..flusher.sent
    BY <1>1, <2>1
  <2>3. written' = written \cup {flusher.subs[flusher.sent + 1]}
    BY DEF WriteAccepted
  <2> QED
    BY <1>1, <1>2, <2>1, <2>2, <2>3 DEF WriteAccepted, cacheVars
<1>4. r \in Result /\ r \in ToSet(cached)
  BY <1>2, <1>3, ElementOfSeq, ToSetIn DEF OrderInv, LoopOrder, Sorted, TypeOK
<1>5. \A i \in 1..n - 1 : flusher.subs[i] \in written
  BY <1>3 DEF FlushInv, Working
<1>6. Lost' = Lost \ {r}
  BY <1>3 DEF Lost
<1>7. CASE r \in written
  BY <1>3, <1>6, <1>7 DEF BoxSame, Lost
<1>8. CASE r \in Lost
  BY <1>3, <1>4, <1>6, <1>8 DEF Box!SendCopy, Lost
<1>9. CASE r \in ToSet(file)
  <2>1. Lost' = Lost
    BY <1>6, <1>9 DEF Lost
  <2>2. PICK j \in 1..Len(file) : file[j] = r
    BY <1>9, ToSetIn DEF In, TypeOK
  <2>3. ~Before(r, file[j], cached)
    BY <2>2 DEF Before, OrderInv, CacheOrder, Distinct
  <2>4. /\ Len(flusher.subs) <= Len(file)
        /\ \A i \in 1..Len(flusher.subs) : file[i] = flusher.subs[i]
    BY <1>2, <1>3, <2>3 DEF OrderInv, LoopOrder
  <2>5. /\ n \in 1..Len(file) /\ file[n] = r
        /\ \A i \in 1..n - 1 : file[i] = flusher.subs[i]
    BY <1>2, <1>3, <2>4
  <2>6. Box!Send(n)
    BY <1>3, <1>5, <2>1, <2>5 DEF Box!Send, Lost
  <2> QED
    BY <2>5, <2>6
<1> QED
  BY <1>4, <1>7, <1>8, <1>9 DEF Lost

\* Every step is a step of Outbox or leaves it as it is.
LEMMA BoxStep ==
  ASSUME TypeOK, SaveInv, FlushInv, OrderInv, StoredInv, [Next]_vars
  PROVE  BoxSame \/ Box!Next
<1>1. CASE UNCHANGED <<file, cached, written, torn>>
  BY <1>1 DEF BoxSame, Lost
<1>2. CacheOrder
  BY DEF OrderInv
<1>3. CASE \/ UNCHANGED vars \/ ConnectAndRun \/ LinkDown \/ HubReceives
           \/ Wake \/ PopAll \/ StopWriting \/ RemoveOldest
  BY <1>1, <1>3, LinkKeeps
  DEF vars, Wake, PopAll, StopWriting, RemoveOldest, cacheVars
<1>4. CASE WriteAccepted
  BY <1>4, WriteSends DEF Box!Next
<1>5. CASE RemoveEnds
  <2>1. flusher.pc = "saving" /\ UNCHANGED <<cached, written>> /\ (End \/ EndBadly)
    BY <1>5 DEF RemoveEnds, SaveFails
  <2>2. CASE End
    <3>1. saving.by = "flush" /\ saving # Idle
      BY <2>1, ByFacts DEF SaveInv
    <3>2. file' = Cleaned(flusher.sent) /\ UNCHANGED torn
      BY <2>2, <3>1, EndFacts, ByFacts
    <3> QED
      BY <1>2, <2>1, <3>2, CleaningForgets DEF Box!Next
  <2> QED
    BY <1>2, <2>1, <2>2, BadEndSpoils DEF Box!Next
<1>6. ASSUME NEW r \in Result, RunScheduledTask(r) PROVE BoxSame \/ Box!Next
  <2>1. CASE Execute(r) \/ Add(r) \/ SignalFlush(r)
    BY <1>1, <2>1 DEF Execute, Add, SignalFlush, cacheVars
  <2>2. CASE AddEnds(r) /\ End /\ cached' = Append(cached, r)
    <3>1. saving.by = r /\ saving # Idle /\ UNCHANGED written
      BY <2>2, ByFacts DEF AddEnds, SaveInv
    <3>2. file' = Append(file, r) /\ UNCHANGED torn
      BY <2>2, <3>1, EndFacts, ByFacts
    <3>3. ~In(r, cached)
      BY <1>2, <2>2 DEF AddEnds, CacheOrder
    <3> QED
      BY <1>2, <2>2, <3>1, <3>2, <3>3, AddStores DEF Box!Next
  <2>3. CASE AddEnds(r) /\ EndBadly /\ UNCHANGED cached
    BY <1>2, <2>3, BadEndSpoils DEF Box!Next, AddEnds
  <2> QED
    BY <1>6, <2>1, <2>2, <2>3 DEF RunScheduledTask, AddEnds, SaveFails
<1>7. CASE Crash
  <2>1. CASE EndBadly /\ UNCHANGED cached
    BY <1>2, <1>7, <2>1, BadEndSpoils DEF Box!Next, Crash
  <2>2. CASE UNCHANGED <<file, torn, cached>>
    BY <1>1, <1>7, <2>2 DEF Crash
  <2>3. CASE /\ saving # Idle /\ End
             /\ cached' = IF saving.by \in Result THEN Append(cached, saving.by) ELSE cached
    <3>1. UNCHANGED <<written, torn>>
      BY <1>7, <2>3, EndFacts DEF Crash
    <3>2. CASE saving.by = "flush" /\ file' = Cleaned(flusher.sent)
      BY <1>2, <2>3, <3>1, <3>2, ByFacts, CleaningForgets DEF SaveInv, Box!Next
    <3>3. CASE saving.by \in Result /\ file' = Append(file, saving.by)
      <4>1. PICK r \in Result : r = saving.by
        BY <3>3
      <4>2. ~In(r, cached)
        BY <1>2, <4>1 DEF SaveInv, CacheOrder
      <4>3. file' = Append(file, r) /\ cached' = Append(cached, r)
        BY <2>3, <3>3, <4>1
      <4> QED
        BY <1>2, <3>1, <4>2, <4>3, AddStores DEF Box!Next
    <3> QED
      BY <2>3, <3>2, <3>3, EndFacts
  <2> QED
    BY <1>7, <2>1, <2>2, <2>3 DEF Crash
<1> QED
  BY <1>3, <1>4, <1>5, <1>6, <1>7 DEF Next, FlushLoop

-----------------------------------------------------------------------------
(* Theorems                                                                *)

\* The inductive invariant.
IInv ==
  TypeOK /\ SaveInv /\ FlushInv /\ KeptInv /\ OnceInv /\ OrderInv /\ StoredInv

LEMMA InitIInv ==
  ASSUME Init PROVE IInv
<1>1. <<>> \in Seq(Result) /\ Len(<<>>) = 0
  BY EmptySeq
<1>2. /\ Resting \in [pc : {"select", "load", "write", "remove", "saving"},
                      session : 0..MaxConn, subs : Seq(Result), sent : Nat]
      /\ Resting.sent = 0 /\ Resting.subs = <<>> /\ Resting.pc = "select"
  BY <1>1, BoundAssumption DEF Resting
<1>3. Idle \in [by : {"nobody", "flush"} \cup Result, subs : Seq(Result)]
  BY <1>1 DEF Idle
<1>4. TypeOK
  <2>1. /\ file \in Seq(Result) /\ corrupt \in BOOLEAN /\ (corrupt => file = <<>>)
        /\ wire \in Seq(Result) /\ received \in Seq(Result) /\ cached \in Seq(Result)
    BY <1>1 DEF Init
  <2>2. /\ flusher \in [pc : {"select", "load", "write", "remove", "saving"},
                        session : 0..MaxConn, subs : Seq(Result), sent : Nat]
        /\ flusher.sent <= Len(flusher.subs)
    BY <1>1, <1>2 DEF Init
  <2>3. task \in [Result -> {"run", "add", "saving", "signal", "ended"}]
    BY DEF Init
  <2>4. conn \in 0..MaxConn /\ session \in {0, conn} /\ faults \in 0..MaxFault
    BY BoundAssumption DEF Init
  <2>5. /\ trigger \in BOOLEAN /\ link \in BOOLEAN /\ torn \in BOOLEAN
        /\ dialer \in {"dial", "signal", "read", "jobs", "close"}
        /\ written \in SUBSET Result
    BY DEF Init
  <2> QED
    BY <1>3, <2>1, <2>2, <2>3, <2>4, <2>5 DEF Init, TypeOK
<1>5. SaveInv
  BY <1>2, ByFacts DEF Init, SaveInv
<1>6. FlushInv /\ KeptInv
  BY <1>1, <1>2 DEF Init, FlushInv, KeptInv, Working
<1>7. OnceInv
  BY <1>1 DEF Init, OnceInv, PlaceInv, WireInv, Distinct, In
<1>8. OrderInv
  <2>1. Got = <<>>
    BY <1>1, ConcatEmptySeq DEF Init, Got
  <2>2. flusher.session = 0 /\ 0 <= conn
    BY DEF Init, Resting
  <2> QED
    BY <1>1, <1>2, <2>1, <2>2 DEF Init, OrderInv, CacheOrder, LoopOrder, HubOrder, Distinct,
       Sorted, FirstSorted, Waiting, In
<1>9. StoredInv
  BY DEF Init, StoredInv
<1> QED
  BY <1>4, <1>5, <1>6, <1>7, <1>8, <1>9 DEF IInv

LEMMA StepIInv ==
  ASSUME IInv, [Next]_vars PROVE IInv'
<1>1. /\ TypeOK /\ SaveInv /\ FlushInv /\ KeptInv /\ OnceInv /\ OrderInv
      /\ StoredInv
  BY DEF IInv
<1>2. OnceInv'
  BY <1>1, NoFaultStep, PlaceStep, WireStep DEF OnceInv
<1> QED
  BY <1>1, <1>2, TypeStep, SaveStep, FlushStep, KeptStep, OrderStep, StoredStep
  DEF IInv

\* The inductive invariant holds in every state.
THEOREM Invariant == Spec => []IInv
BY InitIInv, StepIInv, PTL DEF Spec

\* Every variable keeps its type: above all, the loop never counts more
\* results than it holds, and a torn file reads as an empty one.
THEOREM TypeCorrect == Spec => []TypeOK
<1>1. IInv => TypeOK
  BY DEF IInv
<1> QED
  BY <1>1, Invariant, PTL

\* A result the cache has taken stays in the file until a WriteMessage has
\* accepted it, unless a save was cut short: RemoveOldest removes what the
\* flush wrote, whatever tasks, connections and restarts do meanwhile.
THEOREM KeepsUntilWritten == Spec => []CachedUntilWritten
<1>1. IInv => CachedUntilWritten
  <2>1. SUFFICES ASSUME TypeOK, KeptInv, ~torn
                 PROVE  ToSet(cached) \subseteq ToSet(file) \cup written
    BY DEF IInv, CachedUntilWritten
  <2>2. DOMAIN cached = 1..Len(cached) /\ DOMAIN file = 1..Len(file)
    BY <2>1, LenProperties DEF TypeOK
  <2> QED
    BY <2>1, <2>2 DEF KeptInv, In, ToSet
<1> QED
  BY <1>1, Invariant, PTL

\* Without a crash or a failing save the hub receives no result twice, however
\* often the connection breaks while the loop writes.
THEOREM SendsOnce == Spec => []NoDuplicates
<1>1. IInv => NoDuplicates
  <2>1. SUFFICES ASSUME TypeOK, Distinct(received)
                 PROVE  IsInjective(received)
    BY DEF IInv, OnceInv, WireInv, NoDuplicates
  <2>2. DOMAIN received = 1..Len(received)
    BY <2>1, LenProperties DEF TypeOK
  <2> QED
    BY <2>1, <2>2 DEF Distinct, IsInjective
<1> QED
  BY <1>1, Invariant, PTL

\* InOrder: the hub first hears of results in the order in which they were
\* cached, although files are torn, messages lost and results sent again.
THEOREM InCacheOrder == Spec => []InOrder
<1>1. IInv => InOrder
  <2> SUFFICES ASSUME TypeOK, Distinct(cached), FirstSorted(Got, cached),
                      NEW i \in DOMAIN received, NEW j \in DOMAIN received, i < j,
                      \A k \in 1 .. j - 1 : received[k] # received[j]
               PROVE  (CHOOSE n \in DOMAIN cached : cached[n] = received[i])
                        < (CHOOSE n \in DOMAIN cached : cached[n] = received[j])
    BY DEF IInv, OrderInv, CacheOrder, HubOrder, InOrder
  <2>1. /\ DOMAIN cached = 1..Len(cached) /\ DOMAIN received = 1..Len(received)
        /\ Len(received) \in Nat
    BY LenProperties DEF TypeOK
  <2>2. /\ i \in 1..Len(Got) /\ j \in 1..Len(Got) /\ Got[j] = received[j]
        /\ \A k \in 1..i : k \in 1 .. j - 1 /\ Got[k] = received[k]
        /\ Got[i] = received[i]
    BY <2>1, GotFacts
  <2>3. Before(received[i], received[j], cached)
    BY <2>2 DEF FirstSorted
  <2>4. PICK m \in 1..Len(cached), n \in 1..Len(cached) :
          m < n /\ cached[m] = received[i] /\ cached[n] = received[j]
    BY <2>3 DEF Before
  <2>5. (CHOOSE k \in DOMAIN cached : cached[k] = received[i]) = m
    BY <2>1, <2>4 DEF Distinct
  <2>6. (CHOOSE k \in DOMAIN cached : cached[k] = received[j]) = n
    BY <2>1, <2>4 DEF Distinct
  <2> QED
    BY <2>4, <2>5, <2>6
<1> QED
  BY <1>1, Invariant, PTL

\* Store and forward keeps the promise of Outbox: a result leaves the file when
\* it and all before it have been written, once, and none is lost unless a save
\* was cut short before, whatever tasks, connections, failing saves and crashes
\* come in between.
THEOREM Implements == Spec => ImplementsOutbox
<1>1. Init => Box!Init
  BY DEF Init, Box!Init, ToSet
<1>2. IInv /\ [Next]_vars =>
        [Box!Next]_<<file, written, ToSet(cached) \ (ToSet(file) \cup written), torn>>
  BY BoxStep DEF IInv, BoxSame, Lost
<1> QED
  BY <1>1, <1>2, Invariant, PTL DEF Spec, ImplementsOutbox, Box!Spec, Box!outboxVars
=============================================================================
