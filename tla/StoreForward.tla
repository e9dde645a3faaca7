---------------------------- MODULE StoreForward ----------------------------
(***************************************************************************)
(* Store and forward in the agent (agent/client.go, agent/cache.go): the   *)
(* goroutines of scheduled tasks append results to the disk cache, the     *)
(* flush loop writes what the cache holds to the current session and then  *)
(* removes as many results as it wrote, and connections come and go.       *)
(*                                                                         *)
(* The cache is one file under DiskCache.mu.  An operation reads it, then  *)
(* os.WriteFile truncates and rewrites it: between the two (saving) other  *)
(* operations wait, but a crash or a full disk may leave a file that no    *)
(* longer parses.  A result is one run of a scheduled task; a run that a   *)
(* crash interrupts starts over.                                           *)
(*                                                                         *)
(* Connections are numbered; the flush loop keeps the session it started   *)
(* with, which may be an old one.  A write to a connection the network no  *)
(* longer carries may still succeed: the kernel takes the bytes.  A new    *)
(* connection finds nothing of the old one under way: a hub serves it only *)
(* when it has closed the old one (HubRegistry).                           *)
(***************************************************************************)
EXTENDS Naturals, Sequences, SequencesExt, FiniteSets

CONSTANTS
  Result,     \* the results of scheduled tasks
  MaxConn,    \* bound on the connections the agent makes
  MaxFault    \* bound on crashes and failed saves

ASSUME BoundAssumption  == MaxConn \in Nat /\ MaxFault \in Nat
ASSUME ResultAssumption == {"nobody", "flush"} \cap Result = {}

VARIABLES
  task,      \* where the goroutine that produces each result is
  file,      \* the results in the cache file; an absent file has none
  corrupt,   \* the file does not parse
  saving,    \* the save in progress: the operations that wait have to wait
  trigger,   \* the channel triggerFlush, of capacity one
  session,   \* the connection of a.session, or 0
  conn,      \* the number of the latest connection, 0 before the first
  link,      \* the network carries it
  dialer,    \* where connectAndRun is
  flusher,   \* the flush loop: [pc, session, subs, sent]
  wire,      \* submissions on their way to the hub
  cached,    \* history: the results Add has stored, in that order
  written,   \* history: the results a WriteMessage has accepted
  received,  \* history: the submissions the hub has received, in that order
  torn,      \* history: a crash or a full disk has cut a save short
  faults

cacheVars == <<file, corrupt, saving, cached, torn>>
connVars  == <<session, conn, link, dialer>>
hubVars   == <<wire, received>>
vars == <<task, cacheVars, trigger, connVars, flusher, hubVars, written,
          faults>>

Idle == [by |-> "nobody", subs |-> <<>>]
Resting == [pc |-> "select", session |-> 0, subs |-> <<>>, sent |-> 0]

TypeOK ==
  /\ task \in [Result -> {"run", "add", "saving", "signal", "ended"}]
  /\ file \in Seq(Result) /\ corrupt \in BOOLEAN /\ (corrupt => file = <<>>)
  /\ saving \in [by : {"nobody", "flush"} \cup Result, subs : Seq(Result)]
  /\ trigger \in BOOLEAN /\ link \in BOOLEAN
  /\ conn \in 0 .. MaxConn /\ session \in {0, conn}
  /\ dialer \in {"dial", "signal", "read", "jobs", "close"}
  /\ flusher \in [pc : {"select", "load", "write", "remove", "saving"},
                  session : 0 .. MaxConn, subs : Seq(Result), sent : Nat]
  /\ flusher.sent <= Len(flusher.subs)
  /\ wire \in Seq(Result) /\ received \in Seq(Result) /\ cached \in Seq(Result)
  /\ written \in SUBSET Result /\ torn \in BOOLEAN
  /\ faults \in 0 .. MaxFault

Init ==
  /\ task = [r \in Result |-> "run"]
  /\ file = <<>> /\ corrupt = FALSE /\ saving = Idle
  /\ trigger = FALSE
  /\ session = 0 /\ conn = 0 /\ link = FALSE /\ dialer = "dial"
  /\ flusher = Resting
  /\ wire = <<>> /\ received = <<>> /\ cached = <<>>
  /\ written = {} /\ torn = FALSE /\ faults = 0

-----------------------------------------------------------------------------
(* The disk cache.  Begin and End frame the os.WriteFile of a save.        *)

Begin(who, subs) == saving = Idle /\ saving' = [by |-> who, subs |-> subs]

\* The save succeeds.
End ==
  /\ file' = saving.subs /\ corrupt' = FALSE /\ saving' = Idle
  /\ UNCHANGED torn

\* The save does not happen, or stops after the file was truncated; removing
\* the file cannot stop half way.
EndBadly ==
  /\ saving # Idle /\ saving' = Idle
  /\ \/ UNCHANGED <<file, corrupt, torn>>
     \/ saving.subs # <<>> /\ file' = <<>> /\ corrupt' = TRUE /\ torn' = TRUE

Fault == faults < MaxFault /\ faults' = faults + 1

\* os.WriteFile or os.Remove returns an error.
SaveFails == Fault /\ EndBadly

\* Fault: the newest result goes first.
Prepended(r) == <<r>> \o file

\* What Add saves: a file that does not parse counts as empty.
Appended(r) == Append(file, r)

\* Fault: the slice starts one place too early.
CleanedLess(n) == IF Len(file) < n THEN <<>> ELSE SubSeq(file, n, Len(file))

\* What RemoveOldest(n) leaves; when nothing is left the file is removed.
Cleaned(n) == SubSeq(file, n + 1, Len(file))

-----------------------------------------------------------------------------
(* runScheduledTask.                                                       *)

At(r, label) == task' = [task EXCEPT ![r] = label]

Execute(r) ==
  /\ task[r] = "run"
  /\ At(r, "add")
  /\ UNCHANGED <<cacheVars, trigger, connVars, flusher, hubVars, written,
                 faults>>

Add(r) ==
  /\ task[r] = "add"
  /\ Begin(r, Appended(r))
  /\ At(r, "saving")
  /\ UNCHANGED <<file, corrupt, cached, torn, trigger, connVars, flusher,
                 hubVars, written, faults>>

AddEnds(r) ==
  /\ task[r] = "saving"
  /\ \/ /\ End /\ UNCHANGED faults
        /\ cached' = Append(cached, r)
        /\ At(r, "signal")
     \/ SaveFails /\ At(r, "ended") /\ UNCHANGED cached
  /\ UNCHANGED <<trigger, connVars, flusher, hubVars, written>>

\* select { case a.triggerFlush <- struct{}{}: default: }
SignalFlush(r) ==
  /\ task[r] = "signal"
  /\ trigger' = TRUE
  /\ At(r, "ended")
  /\ UNCHANGED <<cacheVars, connVars, flusher, hubVars, written, faults>>

RunScheduledTask(r) == Execute(r) \/ Add(r) \/ AddEnds(r) \/ SignalFlush(r)

-----------------------------------------------------------------------------
(* The flush loop.                                                         *)

\* Fault: the loop keeps the first session it was given.
SessionOnce == IF flusher.session # 0 THEN flusher.session ELSE session

\* flushCache reads a.session under a.mu.
Session == session

\* The ticker or the trigger wakes the loop; without a session it waits on.
Wake ==
  /\ flusher.pc = "select"
  /\ trigger' \in {trigger, FALSE}
  /\ flusher' = IF session = 0 THEN flusher
                ELSE [flusher EXCEPT !.pc = "load", !.session = Session]
  /\ UNCHANGED <<task, cacheVars, connVars, hubVars, written, faults>>

\* PopAll, which removes nothing; of a file that does not parse, or of an
\* empty one, nothing can be sent.
PopAll ==
  /\ flusher.pc = "load" /\ saving = Idle
  /\ flusher' = [flusher EXCEPT !.pc = IF file = <<>> THEN "select" ELSE "write",
                                !.subs = file, !.sent = 0]
  /\ UNCHANGED <<task, cacheVars, trigger, connVars, hubVars, written, faults>>

\* The connection the loop writes to has not been closed by the agent.
Writable == flusher.session = conn /\ dialer # "dial"

\* A write that succeeds: the message is on the wire, or lost with the link.
WriteAccepted ==
  /\ flusher.pc = "write" /\ flusher.sent < Len(flusher.subs)
  /\ Writable
  /\ LET r == flusher.subs[flusher.sent + 1] IN
       /\ written' = written \cup {r}
       /\ wire' = IF link THEN Append(wire, r) ELSE wire
  /\ flusher' = [flusher EXCEPT !.sent = @ + 1]
  /\ UNCHANGED <<task, cacheVars, trigger, connVars, received, faults>>

\* Fault: the count goes on over a failed write.
StopWritingLate ==
  /\ flusher.pc = "write"
  /\ flusher.sent = Len(flusher.subs) \/ ~(Writable /\ link)
  /\ flusher' = [flusher EXCEPT !.pc = "remove", !.sent = Len(flusher.subs)]
  /\ UNCHANGED <<task, cacheVars, trigger, connVars, hubVars, written, faults>>

\* All are written, or a write fails and ends the loop.
StopWriting ==
  /\ flusher.pc = "write"
  /\ flusher.sent = Len(flusher.subs) \/ ~(Writable /\ link)
  /\ flusher' = [flusher EXCEPT !.pc = IF flusher.sent = 0 THEN "select"
                                       ELSE "remove"]
  /\ UNCHANGED <<task, cacheVars, trigger, connVars, hubVars, written, faults>>

\* RemoveOldest of a file that does not parse is an error, and logged.
RemoveOldest ==
  /\ flusher.pc = "remove" /\ saving = Idle
  /\ IF corrupt
       THEN UNCHANGED saving /\ flusher' = [flusher EXCEPT !.pc = "select"]
       ELSE /\ Begin("flush", Cleaned(flusher.sent))
            /\ flusher' = [flusher EXCEPT !.pc = "saving"]
  /\ UNCHANGED <<task, file, corrupt, cached, torn, trigger, connVars, hubVars,
                 written, faults>>

RemoveEnds ==
  /\ flusher.pc = "saving"
  /\ (End /\ UNCHANGED faults) \/ SaveFails
  /\ flusher' = [flusher EXCEPT !.pc = "select"]
  /\ UNCHANGED <<task, cached, trigger, connVars, hubVars, written>>

FlushLoop ==
  Wake \/ PopAll \/ WriteAccepted \/ StopWriting \/ RemoveOldest \/ RemoveEnds

-----------------------------------------------------------------------------
(* connectAndRun, the network and the hub.                                 *)

Dialing(label) == dialer' = label

Connect ==
  /\ dialer = "dial" /\ conn < MaxConn
  /\ conn' = conn + 1 /\ session' = conn + 1 /\ link' = TRUE
  /\ wire' = <<>>
  /\ Dialing("signal")
  /\ UNCHANGED <<task, cacheVars, trigger, flusher, received, written, faults>>

SignalConnected ==
  /\ dialer = "signal"
  /\ trigger' = TRUE
  /\ Dialing("read")
  /\ UNCHANGED <<task, cacheVars, session, conn, link, flusher, hubVars,
                 written, faults>>

\* ReadMessage fails; jobs that still run are waited for.
ReadFails ==
  /\ dialer = "read" /\ ~link
  /\ Dialing("jobs")
  /\ UNCHANGED <<task, cacheVars, trigger, session, conn, link, flusher,
                 hubVars, written, faults>>

DropSession ==
  /\ dialer = "jobs"
  /\ session' = 0
  /\ Dialing("close")
  /\ UNCHANGED <<task, cacheVars, trigger, conn, link, flusher, hubVars,
                 written, faults>>

CloseConn ==
  /\ dialer = "close"
  /\ Dialing("dial")
  /\ UNCHANGED <<task, cacheVars, trigger, session, conn, link, flusher,
                 hubVars, written, faults>>

ConnectAndRun ==
  Connect \/ SignalConnected \/ ReadFails \/ DropSession \/ CloseConn

\* The network fails, or the hub goes away, with what is under way.
LinkDown ==
  /\ link /\ link' = FALSE
  /\ wire' = <<>>
  /\ UNCHANGED <<task, cacheVars, trigger, session, conn, dialer, flusher,
                 received, written, faults>>

HubReceives ==
  /\ wire # <<>>
  /\ wire' = Tail(wire)
  /\ received' = Append(received, Head(wire))
  /\ UNCHANGED <<task, cacheVars, trigger, connVars, flusher, written, faults>>

AfterCrash(r) == IF task[r] \in {"signal", "ended"} THEN "ended" ELSE "run"

\* The process dies and starts again, perhaps in the middle of a save, whose
\* outcome is then the old file, the new one or a torn one.
Crash ==
  /\ Fault
  /\ \/ /\ EndBadly \/ (saving = Idle /\ UNCHANGED <<file, corrupt, saving, torn>>)
        /\ task' = [r \in Result |-> AfterCrash(r)]
        /\ UNCHANGED cached
     \/ /\ saving # Idle /\ End
        /\ task' = [r \in Result |->
                      IF r = saving.by THEN "ended" ELSE AfterCrash(r)]
        /\ cached' = IF saving.by \in Result THEN Append(cached, saving.by)
                                             ELSE cached
  /\ trigger' = FALSE /\ session' = 0 /\ link' = FALSE /\ dialer' = "dial"
  /\ flusher' = Resting
  /\ UNCHANGED <<conn, hubVars, written>>

Next ==
  \/ \E r \in Result : RunScheduledTask(r)
  \/ FlushLoop \/ ConnectAndRun
  \/ LinkDown \/ HubReceives \/ Crash

Spec == Init /\ [][Next]_vars

\* The goroutines are scheduled and the hub reads what arrives.  Nothing is
\* asked of the network.
FairSpec ==
  /\ Spec
  /\ \A r \in Result : WF_vars(RunScheduledTask(r))
  /\ WF_vars(FlushLoop) /\ WF_vars(ConnectAndRun) /\ WF_vars(HubReceives)

-----------------------------------------------------------------------------
(* Properties.                                                             *)

\* A result that the cache has taken stays there until it has been written
\* to a session: the flush removes what it wrote and nothing else, although
\* tasks append and connections change while it writes.  It also survives a
\* crash, unless a save is cut short, which loses the whole file.
CachedUntilWritten == torn \/ ToSet(cached) \subseteq ToSet(file) \cup written

\* Store and forward implements Outbox, with the cache file for its queue and
\* WriteMessage for going out: a result leaves the file when it and all older
\* ones have been written, and is added to it once, although tasks append while
\* the loop writes, connections change, saves fail and the agent crashes.  Only
\* a save that is cut short loses results.
Box == INSTANCE Outbox WITH
         queue <- file, out <- written, spoilt <- torn,
         lost <- ToSet(cached) \ (ToSet(file) \cup written)

ImplementsOutbox == Box!Spec

\* The hub gets no result twice, unless the agent crashed, or a save failed,
\* between writing results and removing them.
NoDuplicates == faults = 0 => IsInjective(received)

\* The hub first hears of results in the order in which they were cached,
\* whatever fails and whenever the agent crashes.
InOrder ==
  LET First(i) == \A j \in 1 .. i - 1 : received[j] # received[i]
      Place(i) == CHOOSE n \in DOMAIN cached : cached[n] = received[i]
  IN \A i, j \in DOMAIN received :
       i < j /\ First(j) => Place(i) < Place(j)

\* While a connection holds, the flush loop gets every cached result out.
Stable == session # 0 /\ link
FlushedWhileConnected ==
  \A r \in Result :
    Stable /\ r \in ToSet(file) ~> ~Stable \/ r \notin ToSet(file)
=============================================================================
