# A TLA+ verification of redborder-hub-satellite

redborder-hub-satellite connects remote *agents* (satellites) to one or more
*hubs*. An agent opens a websocket to a hub; the hub dispatches jobs over it as
JSON-RPC requests, sends it lists of schedules to run on its own, and receives
the results of those. Hubs form a mesh in which they share keys, schedules and
dispatches.

This directory holds TLA+ modules of the parts of the program whose
correctness depends on the order of events, on failures, on time or on
boundaries, the TLC configurations that check them, and proofs, for every value
of the constants, of the safety of all of them. `PROJECT.json` maps every
definition to the lines it models and lists the runs, the mutants that show each
property can fail, the finding, the hazards and the theorems.

Run a check with `tlc -workers 2 -config X.cfg MCModule.tla`, a proof with
`tlapm Module.tla`.

## 1. Inventory

### Parts and how they interact

    REST client                                        other hubs
        |  /dispatch /schedules                            |  /internal/...
        v                                                  v
    +---------------------------------- hub -------------------------------+
    | HTTP handlers --> DispatchJob --> registry (h.mu) --> AgentConnection|
    |      |                |                                 send channel |
    |      |                +--> peers (DispatchJobToPeer)    pending map  |
    |      +--> schedules (schedulesMu) --> SyncAgentSchedules --^         |
    |      +--> peers (peersMu) --> AddPeer, SyncAllToPeer, broadcasts     |
    +-----------------------------------|----------------------------------+
                                        | websocket: readPump, writePump
    +-------------------------------- agent -------------------------------+
    | Start: dial, connectAndRun, back off, next URL    a.session          |
    |    +--> a goroutine per message: jobs, sync_schedules, failover URLs |
    | task goroutines --> DiskCache --> triggerFlush --> flush loop -------+
    +----------------------------------------------------------------------+

| part | state | operations | what is hard | what makes it correct |
|---|---|---|---|---|
| **Agent connection** `hub/server.go` 56-233, 846-910 | `send` channel, `pending` map, `closeOnce`, `done`, a channel per call | `DispatchJob`, the pumps, `handleIncomingMessage`, `Close` | responses, time-outs and `Close` race for the channels of calls | no panic, no leak, no wrong answer, everybody returns |
| **Registry** `hub/server.go` 272-293, 1079-1099 | `connections` under `h.mu` | `register`, `unregister`, from the handlers and both pumps | `Close` inside `register`'s critical section; deletion by ID | a served agent is found, a closed connection is not, nobody waits for ever |
| **Store and forward** `agent/cache.go`, `agent/client.go` 796-916 | the cache file, `triggerFlush`, `a.session` | `Add`, `PopAll`, `RemoveOldest`, `flushCache` | adding while flushing, reconnection, crashes between two steps, in-place writes | no result is lost, duplicated or stuck, order is kept |
| **Schedule sync** `hub/server.go` 306-353, 500-557, `agent/client.go` 340-355 | `schedules`, the lists under way, what the agent runs | `AddSchedule`, `DeleteSchedule`, `SyncAgentSchedules`, `SyncSchedules` | copy under one lock, send under none; drops; a goroutine per message | the agent ends up with the hub's list |
| **Agent scheduler** `agent/client.go` 732-794 | `schedCtx`, a goroutine per task and list | `startServerScheduler`, `SyncSchedules`, `Stop` | goroutines read a shared context variable | current tasks run, old ones end, one-off ones run once |
| **Agent life cycle** `agent/client.go` 121-306, 357-378 | URL list and position, delay, session | `Start`, `connectAndRun`, `update_failover_urls`, `Stop` | the list changes while it is walked; `Stop` races with dialling | a hub is found, indices stay valid, `Stop` ends everything |
| **Hub cluster** `hub/server.go` 355-420, 559-765, `cmd/hub/main.go` 206-322 | peers, key files, schedules of each hub | registration, gossip, broadcasts, full sync | posts lost and reordered, restarts | mesh forms, data reaches all hubs, deletions stick |
| **Dispatch proxy** `hub/server.go` 767-844, `cmd/hub/main.go` 102-145 | one HTTP call per hub | `DispatchJob`, `DispatchJobToPeer` | stale connections, an agent that moves | no loops, one execution, true errors |
| **Authentication** `hub/server.go` 913-1070, 720-765, `common/crypto.go`, `cmd/agent/main.go` | key files of hubs and satellites, posts of keys | `ServeHTTP` before the upgrade, `SavePublicKeyPEM`, `SavePeerPublicKey`, `BroadcastKeySync` | two first connections of one ID; key files written in place, without a lock, by several writers; a stat and a load of one file at two moments | an ID has one key, at all hubs, and nobody gets past it by token |
| **Keepalive** `hub/server.go` 28-35, 128-232, `agent/client.go` 273-283 | ticker, two read deadlines | ping, pong, `SetReadDeadline` | periods and delays that add up; a direction that stops without a sign | a living connection is kept, a dead one is noticed at both ends |
| **Job parameters** `common/metrics.go` | none | `Validate` and `BuildCLIArgs` of each kind | defaults, bounds and aliases that must agree in two functions | the command line is what the request asked for |
| **Jobs of an agent** `agent/client.go` 299-378, 435-730, 918-1250, `agent/vmware_hardware.go` | `jobWg`, one context per job, what a job has found so far | `handleRequest`, `runScheduledTask`, the executors, custom commands, discovery in batches, device names | one deadline over many commands; a failure that reads as a success; batch edges; the wait of a broken connection for its jobs | truthful results, bounded waits, whole inventories |
| REST handlers `cmd/hub/main.go` | none | checks and status codes | | their effects are modelled where they act; the checks are not |
| Configuration, `common/rpc.go`, packaging | none | | | CONSTANTS and records of the models |

### Hazards

`PROJECT.json` lists each hazard at its line with the properties that cover it,
or with a note that says why none can.
The main kinds are: interleavings of goroutines around a lock that is given up
(`Close` against responses, `SyncAgentSchedules`, `Stop`), shared variables read
late (`a.schedCtx`, `a.session`), file writes that are not atomic (cache, key
files), posts and messages that are lost or overtake each other, restarts that
lose one half of a shared state, deadlines that add up (keepalive, jobs behind a
broken connection), and partial failures of a job with several commands.

## 2. Modules

| module | models | MC module, configuration | proofs |
|---|---|---|---|
| `RPCCalls` | the abstract promise of the RPC layer to its callers | property of `Conn` | |
| `AgentConnection` | one connection, its calls and its pumps | `MCAgentConnection`: `Conn` | `AgentConnectionProofs` |
| `Outbox` | the abstract promise of store and forward | property of `Cache` | |
| `HubRegistry` | all connections and `h.mu` | `MCHubRegistry`: `Registry`, `RegistryReplace` | `HubRegistryProofs` |
| `StoreForward` | disk cache, flush loop and session | `MCStoreForward`: `Cache` | `StoreForwardProofs` |
| `ScheduleSync` | the schedules of hub and agents | `MCScheduleSync`: `Sync` | `ScheduleProofs` |
| `ServerScheduler` | the goroutines of an agent's tasks | `MCServerScheduler`: `Sched` | `ScheduleProofs` |
| `AgentLifecycle` | Start, connectAndRun, failover, Stop | `MCAgentLifecycle`: `Life` | `AgentLifecycleProofs` |
| `HubCluster` | the mesh of hubs and their schedules | `MCHubCluster`: `Cluster` | `HubRegistryProofs` |
| `DispatchProxy` | one dispatch through several hubs | `MCDispatchProxy`: `Proxy` | `DispatchProxyProofs` |
| `HubAuth` | who may connect under an ID; key files and their exchange | `MCHubAuth`: `Auth` | `HubAuthProofs` |
| `Keepalive` | ping, pong and the deadlines of both ends | `MCKeepalive`: `Keepalive` | `AgentConnectionProofs` |
| `JobParams` | validation and command lines of the built-in jobs, as operators | through `AgentJobs` | `AgentJobsProofs` |
| `AgentJobs` | the jobs of an agent, from message to answer | `MCAgentJobs`: `Jobs` | `AgentJobsProofs` |

The modules meet at named interfaces. In `AgentConnection` the registry's lock is held
for longer than a step only by a replacement, of this or of another connection;
`HubRegistry` shows how it comes to that and that it never ends. `RPCCalls` is what
`DispatchProxy` uses of a connection: answered, rejected, or unknown.
`ScheduleSync` hands lists to `ServerScheduler`, whose tasks produce the results
of `StoreForward`; both use sessions that `AgentLifecycle` makes.
`HubCluster` calls `AddSchedule` and its kin, whose local half is
`ScheduleSync`, and its peers are the lists that `AgentLifecycle` is pushed.
`HubAuth` comes before the registration of `HubRegistry`, and its keys travel
along the mesh of `HubCluster`. `Keepalive` says when the pumps of
`AgentConnection` see a dead network, which there may happen at any time. What
`AgentLifecycle` and `StoreForward` call a job is in `AgentJobs`, which takes its
parameters through `JobParams`; it shows which jobs a time-out ends, and that
`JobEnds` of `AgentLifecycle` assumes it of the others.

### Granularity

One action is what the code does without giving another goroutine a chance to
see the middle: a critical section, a channel operation, an atomic operation or
a file operation. A Go `select` is one action per ready case. Where a
definition in a module is called "Fault: ...", it is a plausible wrong version of
the definition below it; nothing uses it but the mutants of `PROJECT.json`.

### State and code, module by module

**AgentConnection.** `pending` holds the calls whose channel is in the Go map,
keyed by `id[c]`; `buf` and `chClosed` are the calls' channels (capacity 1);
`send` is the channel of capacity 256 (1 in the runs, so that it is full
often). `DispatchJob(c)` is the program counter `pc[c]`: `Lookup`,
`NextRequestID`, `RegisterPending`, `Enqueue`, `Await`, `Cleanup`. `ReadPump` and
`WritePump` take messages, `Close` is `CloseBegin`, `CloseConn`, `Unregister`,
`FailPending`, run by a pump or by the `register` that replaces the connection
(`Replace`, which then holds the registry's lock: `locked`). A send on or a close of a closed channel, or a write to the nil
map, sets `panicked`. The agent is what its code does with a request: it may
answer each once, in any order, at any time (`AgentReply`).

**HubRegistry.** A goroutine is a connection and a role. `mu` is the mutex where
it is held over several steps, which only `register` does, while it runs `Close`
of the connection it replaces. `once` is `closeOnce`, whose second caller waits
for the first.

**StoreForward.** `file` and `corrupt` are the cache file; `saving` is a write in
progress, which holds `DiskCache.mu`. `flusher` is the flush loop with its local
variables. Connections have numbers, and a session that the loop took before a
reconnection is an old number. `link` may fail unnoticed: writes still succeed.
A crash keeps the file and starts everything else anew. What is under way on an
old connection does not arrive after messages of a new one: a hub starts to
serve a connection only when the old one is closed (`HubRegistry`).
The model has no `Stop`: it ends the loop and keeps the file, like a crash.
As an `Outbox` its queue is the file; what has gone out is what a `WriteMessage` has
accepted; a result is lost when `Add` has stored it, no write has accepted it
and the file no longer has it, although the loop may hold a copy and still send it
(`SendCopy`). `Add` is `Store`, a write is `Send`, `RemoveOldest` is `Forget`, each at the end of
its save or at a crash in it, and a save that is cut short is `Spoil`.

**ScheduleSync.** `schedules` is the hub's map, `call` the local variables of each
`SyncAgentSchedules` that runs, `send` the connection's channel, `handling` the
messages the agent has a goroutine for, `running` its list and cache file. A
schedule is named by the request that put it, so two versions of one ID differ.
`calm` remembers, for each agent, that since it last connected no change for it came
before the one before had settled, and none took a schedule from it unseen.

**ServerScheduler.** A goroutine is the number of a list and a schedule; `go`
holds its place and the context it evaluated when it entered its `select`. `n`
is the current list, `cancelled` the cancelled contexts, `stopped` a.ctx; `missed`
remembers the goroutines that the last list did not find waiting, or whose timer fired
although their context was cancelled. Its operators bear the name of
the module where `ScheduleSync` has ones like them (`SchedulerInit`, `SchedulerSpec`),
and those of `Keepalive` do for the sake of `AgentConnection`, so that one module of proofs can
extend both, as do those of `HubCluster` for the sake of `HubRegistry`. The hub's side, the interval it derives from the schedule's type and the time, is `TaskOf`.

**AgentLifecycle.** `pc` is the place of `Start` and `connectAndRun`, `handling`
and `jobs` the goroutines that `jobWg` counts, `stopper` the place of `Stop`, and
`stopSeen` whether the session it has found is that of the last connection or of an
earlier one.
Positions start at 1.

**HubCluster.** Posts under way are sets of records by receiver, since every post
has a goroutine of its own. `used` limits each put to one occurrence. `scene` is
a configuration chosen at the start: the seeds of each hub and the bounds on what
else happens, so that one run checks a chain and a pair. Keys go the same ways as
schedules and are in `HubAuth`, whose hubs all know each other.

**DispatchProxy.** `stack` holds the hubs that are at work, the origin first;
`at` are the registries that hold a connection of the agent, of which at most
`live` works.

**HubAuth.** The satellites are those that use one agent ID, by right or not; a
key is named by the satellite that has it. `at[s]` is the place of a satellite and
of its handler in `ServeHTTP`: `load` (the check of the key file and the signature),
`save`, `write` (the first registration, `Truncate` and `Register`), `stat` and
`token` (the branch for clients without a key), `in`. `file[h]` is the ID's key file at
hub h, which is absent, torn, or one satellite's. `saving` are the handlers of
`/internal/sync-key` between opening and writing the file. A key file is always of
the same length, so writers that overlap leave it whole or torn, and never mixed.
`contended` remembers that a second key was registered at a hub the first had not
reached, `cut` the hubs at which a write was cut short.

**Keepalive.** Time is in seconds. `beat` follows the one heartbeat that is under way: due
(behind another write), a ping, a pong. `left` are the two read deadlines. `Pass`
lets a second go by unless something has to happen first. `works` are the
directions that carry frames; `broken` counts since one stopped.

**JobParams.** For each kind `Normal` is the structure as `Validate` leaves it and
`Accepts` whether it returns no error. A text is empty, blank, one that the
regular expression accepts, or one that it refuses; texts with a meaning of their own
(versions, levels, protocols) are spelt out, and what else each may be called is a
`CASE` as in the code (`VersionOf`, `LevelOf`, `AuthOf`, `PrivOf`). `BuildCLIArgs` returns the set of
flags with their values.

**AgentJobs.** A job is a goroutine for a message or a run of a task. `left[j]` counts down its
context and then its write. `work[j]` is what it has found so far: the command at
work, the inventory, the batches asked about. A job ends in one place (`End`), with
the answer's code, the exit code inside it and whether the hub can read it.
`link`, `held` and `Waited` are `connectAndRun` behind a broken connection, which
waits for `jobWg`. A configured command may keep its job for any time past its deadline,
since `cmd.Run` waits for the pipes that processes it has started may hold, and a read of a file
has no deadline at all (`Unbounded`). Five abstractions: the programs of the built-in methods
start no others, so that their jobs go on once they are killed;
of several writes into a dead connection the first waits for its deadline and the
others fail with it; messages that carry a result or an error take no step, as the
agent drops them; the list of a discovery is the set of machines in it, in whatever order and as
often as govc names them; the pattern of a parameter rule is the set of texts it lets through.

## 3. Runs

Passing runs check the properties; the run that ends in a violation shows where
the code does not do what a comment says.

| run | question | bounds |
|---|---|---|
| conn | Do the calls, pumps and `Close` of a connection ever panic, leak, block the reader or break the promise of `RPCCalls`? Does `Close` release every call unless the registry's lock is held for good, and is every call on a living connection answered? | 2 calls, send capacity 1, 1 other message |
| registry | Is a served connection always found, and a closed one never? Do broken connections leave and registrations end, as long as no connection is being replaced? | 2 agents, 3 connections, at any time |
| registry_replace | (violation) Does `register` get past closing a predecessor? | as before |
| cache | Is the promise of `Outbox` kept: is a result stored once, written the oldest first, and kept until written, unless a save was cut short? Is none sent twice without a fault, and does the hub get the order with any? Does every cached result get out while a connection holds? | 2 results, 2 connections, 2 crashes or failing saves |
| sync | Does an agent only ever run lists of the hub, and nothing of old connections? With requests for it one after the other, or after a reconnection, does it end up with the hub's list, whatever goes on for other agents? | 3 requests, 2 schedules, 2 connections, capacity 1, 1 hub restart |
| sched | Does every recurring task of the current list have a living goroutine? Does `Stop` end them all? Do the goroutines of older lists end, but for those that were at work when a list came? | 2 schedules, one of which has a given time, 3 lists, restarts of the agent |
| life | Is the position valid, is only a listed hub dialled? Is a hub that stays up found, and does `Stop` end `Start`, unless there is a connection it has not found? | 3 hubs, lists of length 1, 2, 3 and 0, 3 messages, ceiling 8 s |
| cluster | Do hubs whose seeds form a chain all come to know each other for good? Does a schedule that stays come to all hubs, whoever restarts? | chain: 3 hubs, 1 restart; pair: 2 hubs, 1 schedule, 1 deletion, 1 loss, 1 restart, overlapping rounds |
| proxy | One hop only; is "not connected" true? One execution unless a connection breaks under the job | 4 hubs, 2 moves |
| auth | Does an ID stand for one key? Does nobody who dialled past a key file get in by token? Are key files whole, and does the key come to every hub? | 2 hubs, 2 satellites of one ID, one without a key pair at first, one that starts without its key at times, 1 crash, failing write or lost post |
| keepalive | Is a working connection kept? Is a dead one given up at both ends in time? | the code's times, a write of 1 s before the ping, delays of 2 s; everything may stop |
| jobs | Does reconnecting wait no longer than the longest job and one write, but for file reads and pipes that are still open? Does no failure read as a success? Are inventories whole, SNMP levels kept, device names distinct? | 2 jobs; one takes any of some 130 messages and tasks, the other two; times of 1 to 3 s; 3 machines in batches of 2 |

**Properties with an exception.** Some promises hold only as long as something
does not happen. The models let it happen all the same, and the properties name
it: a replacement in `HubRegistry` (`Replacing`) and in `AgentConnection` (`locked` in
`CloseReleasesCalls`: a call that waits for its answer is then left to its context), a save cut
short (`torn`), a list that comes at a busy moment (`calm` in `ScheduleSync`; `missed` in
`ServerScheduler`, for the goroutines that were busy), a
connection that is not the one `Stop` has found (`StopEnds`), the time in which a job is
waited for that no deadline ends (`held` in `AgentJobs` does not count it), a connection that breaks under
a job (`broke`), a schedule that is deleted or changed (`SchedulesReplicate`), a
second key before the first has arrived (`contended`), a write of a key file cut
short (`cut`), delays that use up the deadline (`Slack`), a disk whose own name looks
like one the agent makes (`NamesDistinct`). Section 4 says which of these are defects.

**Why the bounds are enough.** Two calls are needed for one to displace or to
receive the other's response, and a send channel of one place is full as soon as
one message waits. Three connections let a late `Close` meet a
successor and another agent's registration. Two results let one be added before
or during the flush of the other. Two overlapping synchronisations and a third for the
connection are the smallest case of overtaking on each of the three ways (copy,
channel, goroutines). Three hubs are the smallest mesh in which one learns of
another through a third; in the four-hub proxy one hub is only known by
others, and a circle is possible. Numbered lists beyond three repeat the relation
of current, previous and older. Two satellites of one ID are the smallest conflict of keys,
and two hubs the smallest exchange; each hub may have two writers of its file.
`keepalive` runs with the real numbers. In `jobs` three machines in batches of two
make a full batch and a rest, the times make every order of the ends of two jobs
possible, and the parameters of a kind take every combination of the cases that
its validation tells apart for one or two fields at a time. Where a theorem of section 5
states a property, no bound matters.

**Deadlock.** TLC checks it except where the program may come to rest: all
requests made, all lists sent, Start returned, the dispatch finished, both ends
closed, the agent stopped. The deadlock of the registry is found as a failure of
`ReplacementEnds`.

**Fairness.** Weak fairness of a goroutine's steps says that the Go scheduler
runs it when it can run; blocked steps are not enabled. Nothing is asked of the
network, of agents (but `AgentAnswers` where a call's answer is the question) or
of clients. `SF_vars(Finish(g))` in `ServerScheduler` says that a goroutine which enters
a `select` again and again with Done and a timer both ready takes Done some time,
since Go picks among ready cases at random. In `HubCluster` tickers tick, and posts
arrive but for a bounded number of losses; reordering is free. In `HubAuth` rounds
are made, posts that were not lost arrive, and a writer that has opened a file goes on; nothing is asked of
satellites. In `AgentLifecycle` jobs are assumed to end. Of the built-in kinds that follows from
their time-outs; of a file that is read, and of processes that hold the pipes of a configured
command, it is an assumption about the machine the agent runs on, without which the agent
may wait for a job for ever and find no hub (finding 17). `sync`, `proxy`, `keepalive` and `jobs`
check safety only, two of them about time that passes in steps.

## 4. Findings

One run ends in a violation: `register` closes the connection it replaces while it
holds `h.mu`, which `Close` needs, so the registry is blocked for good
(`registry_replace`; that it never recovers is the theorem `WedgedForEver`). For the calls on
any connection that breaks from then on it means that `Close` stops in `unregister`, before it gets
to the pending map: those that wait for an answer are released by their contexts alone
(`locked` in `CloseReleasesCalls`).

The others are the exceptions in the properties of the passing runs, and cases
the models show on the way to them, without a run of their own:

1. A task that runs while a new list comes keeps its goroutine for ever, beside
   the new one, because it reads `a.schedCtx` again (`agent/client.go` 753; the
   exception `missed` of `OldEnd`).
2. A deleted schedule comes back from peers that have not heard of the deletion
   (`hub/server.go` 346; the exception `deleted` of `SchedulesReplicate`).
3. A result counts as delivered when the socket has taken it, and is lost with
   the connection: `Outbox` promises no more than that it goes out.
4. A save that is cut short loses the whole cache (`Spoil` in `Outbox`). If the agent
   lives on, as with a full disk, it may lose more: a loop that is writing what
   it read before then removes as many results as it wrote, which are now others,
   added since and not written (`Forget` when `spoilt`).
5. Overlapping changes of schedules leave a connected agent with an old list:
   two calls of `SyncAgentSchedules` overtake each other, a full channel drops the
   newer list, or the agent handles the two messages in the other order. The next
   connection repairs it (`calm` in `Settled`).
6. A schedule that is put again for another agent is not taken from the first
   (`MovesFrom` in `ScheduleSync`).
7. "once" schedules run again with every list, and "at" schedules, which the hub
   turns into intervals, run again and again (`TaskOf` and `Started`), although
   the README says once.
8. A `Stop` that overlaps the making of a connection does not end `Start`, which reads
   that connection for as long as it lasts: `Stop` has found no session, or closes
   the one it found, of the connection before (`stopSeen` in the exception of `StopEnds`).
9. Two satellites that use one ID for the first time at two hubs, or at one hub
   at the same moment, are both let in; the key whose post comes last wins
   (`contended` in `OneIdentity`).
10. A key file whose write was cut short shuts its satellite out of that hub until
    a peer that has the key sends it (`cut`, and `Lost` in `KeyEverywhere`).
11. Pings come every 54 s and deadlines are 60 s; a write before a ping may take
    10 s. Six seconds are enough for the network, not for a write that is slow
    (`Slack` in `KeptAlive`). Deadlines are put off by pings and pongs alone, not
    by other messages, although the repository's README (line 44) says that any
    received message does.
12. The hub reads messages of at most 512 KB. A `file_read` may return 1 MB and a
    command two outputs of 512 KB: the hub drops the connection over such an answer.
13. A dispatch is given up after 15 s, while custom commands may take 60 s and
    VMware jobs 300 s.
14. A host with disks named "a-2", "a", "a" gets one name twice.
15. An argument of a custom command that is an absent optional parameter is left
    out, but the flag before it stays (`FinalArgs`).
16. A ping of n packets takes about n seconds, and its time-out may be less.
17. A configured command that leaves a process behind which keeps its output open, or a
    `file_read` of a file that does not answer (a pipe, a hung file system), holds its job past
    any time-out (`agent/client.go` 981-988, 1061-1071). After a broken connection the agent
    does not connect again before that job ends (`Unbounded`, which `OutageBounded` leaves
    out of the time it counts).
18. An answer of `govc vm.info` that is no JSON is passed over: the discovery succeeds without
    the machines of that batch (`leftOut` in `WholeInventory`).

## 5. Proofs

The theorems hold for every value of the constants that satisfies the named
assumptions of the module; all steps are checked by tlapm.

**AgentConnectionProofs.** `IInv` of `AgentConnection` is inductive: types
(`TypeOK`), identities (`IDInv`), channels (`ChannelInv`) and the origin of each
message (`MessageInv`). `NoPanic` alone is not inductive: that `Close` closes no channel twice needs that a
channel is in the map, or in the hands of readPump, or closed, never two of
these; and that readPump delivers to its own call needs that IDs are unique and
that each message under way carries the ID of the call it is about. Each action
has a lemma for each of the four parts that it can disturb. From `IInv` follow `TypeCorrect`, `NeverPanics`,
`NothingLeaks`, `ReaderRunsOn`, and, by a step simulation, `Implements`:
the connection implements `RPCCalls` for any number of calls and any capacity of
the send channel.

The second part of the module is about `Keepalive`, the timers of the same connection.
For all periods with `Hold + 2 * Delay < PingPeriod`: how far the
heartbeat is and how long ago its tick was (`BeatInv`), how far away each deadline is
for each place of the heartbeat (`AliveInv`), and how much time is left since something
stopped (`BrokenInv`). Linear arithmetic does the rest, one step per action: `LivingKept` and
`DeadLeft`.

**HubRegistryProofs.** `IInv` of `HubRegistry`: types and who holds the mutex,
one runner of `Close` per connection (`OnceInv`), the life of the goroutines of
a connection (`LifeInv`) and the registry against them (`RegistryInv`).
`ServedIsRegistered` needs the last: a late `Close` cannot remove a successor
because the successor's handler is either before `register` or blocked in it.
From it follow `TypeCorrect`, `Reachable`, `NoGhostEver`, and with it
`WedgedForEver`.

The second part of the module is about `HubCluster`. What its run checks is liveness;
what that liveness rests on is `ClusterInv`: types; only hubs that take part know
others, are known and register (`MeshInv`); whatever a hub has or a post carries, a client put, and
whatever a post deletes, a client deleted (`Genuine`); and a hub that has learnt of another
is known to it, or has a registration under way there (`Mutual`). The last is about
`AddPeer` and its callers: a hub learns of others from a registration, whose sender it then
knows, or from the answer to its own, which lists peers. In each case it must announce
itself to exactly those that are new to it, in the same step as it takes them in (the
lemma `Learns`). A post that is lost or a restart breaks `Mutual`
for a while, which the round every 15 seconds repairs; it is stated for runs without these.
The theorems are `OnlyFromClients` and `KnownToEachOther`, for any hubs, seeds and
schedules.

**StoreForwardProofs.** `CachedUntilWritten`, which says that nothing is lost before it is
written, speaks of the cache and of what was
written, but between them is the count the flush loop removes by. The inductive
invariant says what that count is worth: one save at a time, made from the file as
it still is (`SaveInv`); what the loop holds are still the oldest results of the
file, and those it counts are written (`FlushInv`); hence removing loses nothing
(`KeptInv`). `NoDuplicates` needs that without a fault each result is in one place,
with its task, in the file or written, but for those written and not yet removed
(`PlaceInv`), and that the wire carries written results once (`WireInv`). That
"nobody" and "flush" name no result is the assumption `ResultAssumption`.

`InOrder` is about what the hub has received, and is far from inductive: a result may be
received, written and lost, waiting in the loop's copy, in the file, or in two of these at
once. `OrderInv` compares all of them with `cached`, the order in which results
were added. `Got` is what the hub received followed by what is on the wire. The
file, and the loop's copy of its head, are in the order of `cached` (`CacheOrder`,
`LoopOrder`); the first occurrences in `Got` are, too; and a result that is still to be
sent comes after all of `Got` unless it is there already (`HubOrder`). The step that
matters is a write: what the loop has counted is in `Got` as long as its connection
holds, so what it writes next comes after everything that is there for the first time.
After a torn save the copy in the loop is no longer the head of the file; then all of
it comes before what was added since. `Sorted`, `FirstSorted` and `After` have lemmas of
their own (what an append, a cut and a growing order do to them).

`Implements` is the refinement of `Outbox`, by a step simulation from all of these. An
`Add` is a `Store` because a result that its task still has was never stored or written,
not even when a crash made the task start over (`CacheOrder`, and `StoredInv`: only what
was stored is written). A write is a `Send` in its turn because the loop's copy is the head
of the file and what it has counted is written (`FlushInv`), and a `SendCopy` of a lost result
when a torn save has taken the file from under it (`LoopOrder`). A removal is a `Forget` of what the
loop wrote, which loses nothing while no save was cut short; that what is removed is in the
file once, so that it does leave, follows from `CacheOrder`.

**ScheduleProofs.** Two halves, one for each module.

`SyncInv` of `ScheduleSync`: types; every list that is under way anywhere, in the hands of a
caller, in the channel or in a goroutine of the agent, is one the hub had for that agent
(`ListInv`); callers hold the present connection or an older one, and what is under way to a
connected agent came over the present one (`ConnInv`, which needs `jobWg.Wait`, and that a caller which looked up an old connection
offers its list to that one's channel). `Settled` only
speaks of quiet agents; the invariant behind it, `CalmInv`, says of a calm agent at any
moment that everything on its way to it is the list the hub has for it, and that it
runs that list or something is on its way, a caller that has yet to copy it included. A
change that comes while nothing is under way keeps this because its caller is under way
from then on; a new connection restores it because its handler is. From it follow `OnlyHubLists`,
`NothingOld` and `SettlesRight`, for any agents, requests, connections and capacity.

`SchedulerInv` of `ServerScheduler`: types; the current context is not cancelled, and a
goroutine that waits does so for the context of its own list or of a later one, which it
read late (`ContextInv`); a schedule is in a list as recurring or as single, never both
(`OneKind`, from the hub's `TaskOf`); and `CurrentRuns`, which is inductive with these.

**HubAuthProofs.** `IInv` is `TypeOK`, `HandlerInv` (where handlers may be, and that one
who came late waits for a rejection), `OneIdentity` and `WholeUnlessCut`, which are
inductive together. The step that matters is the first registration: that its
key is the only one known, or `contended` is set. `TokenShutOut` follows because
`os.Stat` finds a torn file as well: once there is a file, it never goes away.

**AgentLifecycleProofs.** `DialsListed` is not inductive: that no list arrives
between the choice of a hub and the connection needs `HandlingInv`, that lists are
handled only while the agent reads or waits, which is what `jobWg.Wait` is for. `MetInv`
carries the fresh delay from a connection to the wait after it (`DelayStartsAnew`).

**DispatchProxyProofs.** `ShapeInv` is the stack: the origin alone, or waiting for one
peer it does not ask again. `RunInv` says who may still act once the job has run, and
`FoundInv` that an agent which stays is not at the hubs that were looked at. They
give `NoLoop`, `OneRun` and `TrulyNotConnected` for any mesh.

**AgentJobsProofs.** That a job's deadline is bounded rests on the validation of
its parameters (`DeadlineBound`). `TimesInv` and `HeldInv` add the time waited and the
time left of each job behind a broken connection: together they never grow, because a second of the
wait is counted only if it brings every job that is waited for nearer to its deadline. A job that
outlasts its deadline adds nothing, and its answer then takes one write. `HurtInv`
relates a failed command to the result of its job. They give `WaitIsBounded` and
`ResultsAreTrue` for any number of jobs and any messages.

`LinesKeepTheirLevel` is a fact about `Validate` and `BuildCLIArgs` (`FlagsOf`: whatever
the parameters, a line of version 3 that passed validation has the flags of its level) carried
through the steps of a job by `LineInv`. `SweepInv` says of a discovery at work that it
has asked about exactly the machines before the next batch, and lists each of them unless govc's
answers left it out. `NextBatch` and `NextList` take it from batch to batch, for any inventory, any
answers and any size of a batch, to `InventoryIsWhole`.

`NamesAreDistinct` follows the devices of a host one by one (`AddedFine`): after each, the names
given are distinct, a name is the device's own or its own with a number after it, and that
number is at most how many devices of that name there are so far, so that the next one is new. `NameInv` carries the names to the job's result.

`Names` is a recursive function on the numbers up to a length. That such a function
satisfies its equation is the lemma `Recursion`: its values up to n exist for each n, since there is otherwise a smallest n for which they do not (`Least`, from the
library's theorem that the order of Nat is well founded, and not from its
induction theorems, which take an operator as a parameter).

The assumptions are those on CONSTANTS, each named in the module that declares them
and evaluated by TLC in the runs: bounds are numbers, capacities are at least one, names of
one kind are not names of another, the input of `AgentJobs` has the fields that
decoding its JSON gives it, and a device's name is a stem and the numbers after it.
`TypeOK` is a theorem in the modules with proofs, of its own or as a part of the
invariant. The inductive invariants were checked with TLC on the runs' instances before they were proved.

Only model-checked is liveness, since fairness and ENABLED are beyond the prover. What
the run of `HubCluster` checks is liveness; its theorems are the safety under it.

Every safety property that a run checks, and each of the two refinements, is a theorem.

## 6. What is not modelled

- Wording, logging, TLS, and what a number in a result is: the parsers of the
  output of ping, traceroute and net-snmp, and the reading of sizes, addresses and
  other fields out of govc's JSON.
- The contents of regular expressions and path patterns, the matching of IP
  addresses, the encodings of keys, and that ed25519 and PEM do what they promise.
- The REST API's checks of its input and its status codes; reading configuration.
- `Stop` in `StoreForward`: it ends the loop and keeps the file, like a crash.
- A torn schedules cache file: it reads as no schedules, and the next
  connection brings the list.
- The data race of `a.schedCtx` beyond reading an old or a new value.
- Several agent IDs in `HubAuth`: files and posts of different IDs do not meet.
- Peers of different knowledge in `HubAuth`; how hubs come to know each other is
  `HubCluster`.
- The order in which Go iterates over a map is arbitrary where it matters
  (`DispatchProxy`).

## 7. Possible extensions

Every component with control of its own is modelled, and its safety is proved. The models
meet at the interfaces of section 2; the one composition that would say more is that of
`ScheduleSync` with `ServerScheduler`: what a connected agent executes against what the
hub has. Their inductive invariants are the two halves of its proof.
