--------------------------- MODULE ServerScheduler ---------------------------
(***************************************************************************)
(* The agent's scheduler (agent/client.go): each list of schedules that    *)
(* SyncSchedules gets, and the one loaded from disk at the start, starts a *)
(* goroutine per task under a new context and cancels the context of the   *)
(* list before.  Such a goroutine does not keep its context: it reads      *)
(* a.schedCtx each time it enters a select.                                *)
(*                                                                         *)
(* Lists are numbered; list n has context n, a child of a.ctx.  Time is    *)
(* abstract: a timer may fire at any moment, also at the moment in which   *)
(* the context is cancelled, and select then takes either.  How the hub    *)
(* turns a schedule into a task, an interval in seconds or zero, is        *)
(* SyncAgentSchedules in hub/server.go.                                    *)
(***************************************************************************)
EXTENDS Naturals, FiniteSets

CONSTANTS
  Entry,    \* the hub's schedules for this agent
  Type,     \* the schedule_type of each
  MaxList   \* bound on the lists, those loaded from disk included

ASSUME TypeAssumption ==
  Type \in [Entry -> {"interval", "at", "once"}]
ASSUME MaxListAssumption == MaxList \in Nat

VARIABLES
  phase,      \* whether run_at of an "at" schedule lies ahead, is now, or over
  n,          \* the number of the current list
  tasks,      \* the current list, also in the cache file
  cancelled,  \* the contexts of lists that are cancelled
  stopped,    \* a.ctx is cancelled
  go,         \* each goroutine: [pc, ctx], ctx the context it waits for
  missed      \* history: the goroutines that the last list did not find waiting,
              \* or whose timer fired although their context was cancelled

listVars == <<phase, n, tasks, cancelled, stopped>>
schedulerVars == <<listVars, go, missed>>

Goroutine == (1 .. MaxList) \X Entry
Kind == {"ticking", "single"}

SchedulerTypeOK ==
  /\ phase \in [Entry -> {"future", "now", "past"}]
  /\ n \in 0 .. MaxList
  /\ tasks \in SUBSET (Entry \X Kind)
  /\ cancelled \in SUBSET (1 .. n)
  /\ stopped \in BOOLEAN
  /\ go \in [Goroutine -> [pc : {"idle", "begin", "loop", "wait", "run",
                                 "runOnce", "ended"},
                           ctx : 0 .. MaxList]]
  /\ \A g \in Goroutine : go[g].pc # "idle" => g[1] <= n
  /\ missed \in SUBSET Goroutine

SchedulerInit ==
  /\ phase = [s \in Entry |-> "future"]
  /\ n = 0 /\ tasks = {}
  /\ cancelled = {} /\ stopped = FALSE
  /\ go = [g \in Goroutine |-> [pc |-> "idle", ctx |-> 0]]
  /\ missed = {}

-----------------------------------------------------------------------------
(* Lists.                                                                  *)

\* What SyncAgentSchedules makes of a schedule: an "at" schedule becomes an
\* interval of the time that is left, zero at the very moment, and is left out
\* when it is over.
TaskOf(s) ==
  CASE Type[s] = "interval" -> {<<s, "ticking">>}
    [] Type[s] = "once"     -> {<<s, "single">>}
    [] Type[s] = "at"       -> CASE phase[s] = "future" -> {<<s, "ticking">>}
                                 [] phase[s] = "now"    -> {<<s, "single">>}
                                 [] phase[s] = "past"   -> {}

\* Fault: the goroutines start before the new context is there.
StartedEarly(list) ==
  [g \in Goroutine |->
     IF g[1] # n + 1 THEN go[g]
     ELSE IF <<g[2], "single">> \in list THEN [pc |-> "runOnce", ctx |-> 0]
     ELSE IF <<g[2], "ticking">> \in list THEN [pc |-> "wait", ctx |-> n]
     ELSE go[g]]

\* startServerScheduler: a goroutine for each task of a list.
Started(list) ==
  [g \in Goroutine |->
     IF g[1] # n + 1 THEN go[g]
     ELSE IF <<g[2], "single">> \in list THEN [pc |-> "runOnce", ctx |-> 0]
     ELSE IF <<g[2], "ticking">> \in list THEN [pc |-> "begin", ctx |-> 0]
     ELSE go[g]]

\* Fault: a := shadows a.schedCancel, which stays that of the first list.
CancelFirst == cancelled' = cancelled \cup {1}

\* a.schedCancel()
CancelOld == cancelled' = cancelled \cup ({n} \ {0})

\* SyncSchedules of what the hub has for the agent at this time.
SyncSchedules(known) ==
  /\ n \in 1 .. MaxList - 1
  /\ missed' = {g \in Goroutine : go[g].pc \in {"begin", "loop", "run"}}
  /\ tasks' = UNION {TaskOf(s) : s \in known}
  /\ CancelOld
  /\ n' = n + 1
  /\ go' = Started(tasks')
  /\ UNCHANGED <<phase, stopped>>

\* Start, also after a stop or a crash: the list in the cache file is run.
Start ==
  /\ n < MaxList
  /\ n' = n + 1
  /\ stopped' = FALSE
  /\ cancelled' = 1 .. n
  /\ go' = [g \in Goroutine |->
              IF g[1] <= n THEN [pc |-> "ended", ctx |-> 0] ELSE Started(tasks)[g]]
  /\ missed' = {}
  /\ UNCHANGED <<phase, tasks>>

\* Stop cancels a.ctx, the parent of every context.
Stop ==
  /\ ~stopped /\ stopped' = TRUE
  /\ UNCHANGED <<phase, n, tasks, cancelled, go, missed>>

\* The time of an "at" schedule comes, and passes.
TimePasses(s) ==
  /\ phase[s] # "past" /\ Type[s] = "at"
  /\ phase' = [phase EXCEPT ![s] = IF @ = "future" THEN "now" ELSE "past"]
  /\ UNCHANGED <<n, tasks, cancelled, stopped, go, missed>>

-----------------------------------------------------------------------------
(* The goroutine of a task.                                                *)

\* Fault: a context made from context.Background().
CancelledAlone(c) == c \in cancelled

Cancelled(c) == stopped \/ c \in cancelled

Goto(g, label) == go' = [go EXCEPT ![g].pc = label]

\* The goroutine enters a select, the first one or the one of the loop.
Select(g) ==
  /\ go[g].pc \in {"begin", "loop"}
  /\ go' = [go EXCEPT ![g] = [pc |-> "wait", ctx |-> n]]
  /\ UNCHANGED <<listVars, missed>>

\* The select takes the timer or the ticker.
Fire(g) ==
  /\ go[g].pc = "wait"
  /\ missed' = IF Cancelled(go[g].ctx) THEN missed \cup {g} ELSE missed
  /\ Goto(g, "run")
  /\ UNCHANGED listVars

\* The select takes Done.
Finish(g) ==
  /\ go[g].pc = "wait" /\ Cancelled(go[g].ctx)
  /\ Goto(g, "ended")
  /\ UNCHANGED <<listVars, missed>>

\* runScheduledTask, to its end.
RunScheduledTask(g) ==
  /\ go[g].pc \in {"run", "runOnce"}
  /\ Goto(g, IF go[g].pc = "run" THEN "loop" ELSE "ended")
  /\ UNCHANGED <<listVars, missed>>

Step(g) == Select(g) \/ Fire(g) \/ Finish(g) \/ RunScheduledTask(g)

SchedulerNext ==
  \/ \E known \in SUBSET Entry : SyncSchedules(known)
  \/ Start \/ Stop
  \/ \E s \in Entry : TimePasses(s)
  \/ \E g \in Goroutine : Step(g)

SchedulerSpec == SchedulerInit /\ [][SchedulerNext]_schedulerVars

\* Goroutines are scheduled, and a select that is entered again and again with
\* two cases ready takes each of them some time: Go chooses at random.
SchedulerFairSpec ==
  /\ SchedulerSpec
  /\ \A g \in Goroutine : WF_schedulerVars(Step(g)) /\ SF_schedulerVars(Finish(g))

-----------------------------------------------------------------------------
(* Properties.                                                             *)

Alive(g) == go[g].pc \in {"begin", "loop", "wait", "run"}

\* While the agent runs, every task of the current list that recurs has its
\* goroutine: neither the end of the lists before nor the re-reading of
\* a.schedCtx makes one stop.
CurrentRuns ==
  ~stopped =>
    \A s \in Entry : <<s, "ticking">> \in tasks /\ n > 0 => Alive(<<n, s>>)

\* Stop ends the goroutines of every list.
StopEnds ==
  stopped ~> ~stopped \/ \A g \in Goroutine : go[g].pc \in {"idle", "ended"}

\* The goroutines of older lists end, those that escaped an earlier list
\* included, whatever the other goroutines do.  The exception are those that
\* were between two selects when the last list came, or went on because their
\* timer fired: they read a.schedCtx anew and wait for the context of the new
\* list, until the next one.
OldEnd ==
  \A g \in Goroutine :
    g[1] < n /\ g \notin missed ~> go[g].pc \in {"idle", "ended"} \/ g \in missed
=============================================================================
