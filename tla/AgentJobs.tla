------------------------------ MODULE AgentJobs ------------------------------
(***************************************************************************)
(* The jobs of one agent (agent/client.go, agent/vmware_hardware.go): what *)
(* handleRequest does with a message of the hub and runScheduledTask with  *)
(* a task, the external commands a job runs under its one context, the     *)
(* result it makes of them, and the connection that cannot be replaced     *)
(* before the jobs it brought have ended (jobWg).                          *)
(*                                                                         *)
(* Time is discrete.  left[j] counts down to the deadline of job j's       *)
(* context and, once a request has a result, of its write: of several      *)
(* writes to a connection that no longer takes data the first one waits    *)
(* WriteWait and the others fail with it.                                  *)
(*                                                                         *)
(* The programs of the built-in methods are taken to start no others, so   *)
(* that one past its deadline is killed and its job goes on at once.  Not  *)
(* so a configured command: cmd.Run also waits for whoever holds the pipes *)
(* of its output, and processes it has started may hold them for any time  *)
(* after it has exited or was killed.  A read of a file has no context at  *)
(* all and may take any time too.                                          *)
(*                                                                         *)
(* sync_schedules and update_failover_urls are only answered here; what    *)
(* they do is in ScheduleSync and AgentLifecycle.                          *)
(***************************************************************************)
EXTENDS JobParams, Sequences, SequencesExt, FiniteSets

CONSTANTS
  Job,        \* goroutines that run jobs, bounded
  Input,      \* the messages and tasks each of them may be given
  Command,    \* the configured custom commands, by name
  Longest,    \* no job's context lasts longer
  WriteWait,  \* the deadline of a write to the connection
  HubLimit,   \* the largest message the hub reads, in KB
  Size,       \* sizes of outputs and files, in KB
  Inventory,  \* the virtual machines of a host, in the order govc lists them
  BatchSize,  \* how many of them one vm.info is about (50 in the code)
  Devices,    \* the lists of disk names, or of adapter names, a host reports
  None

PingLike == {"ping", "traceroute"}
SNMP     == {"snmpwalk", "snmpget"}
VMware   == {"discover", "hardware"}
BuiltIn  == PingLike \cup SNMP \cup VMware
Lists    == {"sync_schedules", "update_failover_urls"}

FileRead(c) == Command[c].type = "file_read"
Reads    == {c \in DOMAIN Command : FileRead(c)} \ BuiltIn
Programs == DOMAIN Command \ (BuiltIn \cup Reads)
Time(c)     == Positive(Command[c].timeout, 60)

ASSUME LongestAssumption ==
  /\ Longest \in Nat /\ WriteWait \in Nat
  /\ \A f \in Family : Limit[f] <= Longest
  /\ \A c \in DOMAIN Command : Time(c) \in 1..Longest

ASSUME InputAssumption ==
  \A j \in Job : \A m \in Input[j] :
     /\ m.kind \in {"request", "garbage", "oldVersion"}
     /\ m.method \in BuiltIn /\ m.decodes => m.params.timeout \in Int
     /\ m.method \in SNMP /\ m.decodes => m.params \in SNMPParams

ASSUME BatchAssumption == BatchSize \in Nat \ {0} /\ Inventory \in Seq(STRING)

\* A name of a device is a stem and the numbers that were put after it.
DeviceName == [stem : STRING, tail : Seq(Nat)]

ASSUME DevicesAssumption == Devices \subseteq Seq(DeviceName)

VARIABLES
  pc,       \* "idle", "running" or "ended"
  origin,   \* "hub" for a request, "task" for a scheduled task
  method,   \* the method of its message or task
  left,     \* seconds to the deadline, 0 if it has passed or there is none
  work,     \* what the job has found out so far
  out,      \* its result
  hurt,     \* history: one of its commands has failed or was killed
  link,     \* "up" while connectAndRun reads the connection
  held,     \* for how long it has then waited for jobs all before their deadlines
  stopped   \* Stop has cancelled a.ctx

jobVars == <<pc, origin, method, left, work, out, hurt>>
vars == <<jobVars, link, held, stopped>>

Request(m) == m.kind = "request"

-----------------------------------------------------------------------------
(* Parameters and results                                                  *)

Normal(m) ==
  CASE m.method = "ping"       -> PingNormal(m.params)
    [] m.method = "traceroute" -> TracerouteNormal(m.params)
    [] m.method \in SNMP       -> SNMPNormal(m.params)
    [] m.method \in VMware     -> VMwareNormal(m.params)

FamilyOf(name) == IF name \in VMware THEN "vmware" ELSE "net"

Accepts(m) ==
  /\ InTime(m.params, FamilyOf(m.method))
  /\ CASE m.method = "ping"    -> PingAccepts(Normal(m))
       [] m.method = "traceroute" -> TracerouteAccepts(Normal(m))
       [] m.method \in SNMP       -> SNMPAccepts(Normal(m))
       [] m.method = "discover"   -> DiscoverAccepts(Normal(m))
       [] m.method = "hardware"   -> HardwareAccepts(Normal(m))

\* The value of a parameter passes its rule if it is an allowed one and the
\* rule's expression matches it.
RulesHold(c, p) ==
  \A x \in DOMAIN Command[c].rule :
     IF x \in DOMAIN p THEN p[x] \in Command[c].rule[x].passes
                       ELSE ~Command[c].rule[x].required

\* An argument "$x" is the value of x, or nothing when x is not given.
FinalArgs(c, p) ==
  LET kept == SelectSeq(Command[c].args,
                        LAMBDA a : a.param => a.text \in DOMAIN p)
  IN [i \in DOMAIN kept |-> IF kept[i].param THEN p[kept[i].text]
                                             ELSE kept[i].text]

\* The file a file_read is to read: "path", or else "file".
PathOf(p) ==
  IF "path" \in DOMAIN p /\ p["path"] # "" THEN p["path"]
  ELSE IF "file" \in DOMAIN p THEN p["file"] ELSE ""

\* Whether a job can be started at all.
Starts(m) ==
  /\ m.decodes
  /\ IF m.method \in BuiltIn THEN Accepts(m)
     ELSE IF FileRead(m.method)
          THEN PathOf(m.params) \in Command[m.method].paths \ {""}
          ELSE Command[m.method].executable /\ RulesHold(m.method, m.params)

\* The seconds its context lasts; executeFileRead has none.
Deadline(m) ==
  IF m.method \in BuiltIn
  THEN Seconds(m.params.timeout, FamilyOf(m.method))
  ELSE IF FileRead(m.method) THEN 0 ELSE Time(m.method)

Line(m) ==
  IF m.method \in SNMP THEN BuildCLIArgs(SNMPNormal(m.params))
  ELSE IF m.method \in BuiltIn \cup Reads THEN {}
  ELSE FinalArgs(m.method, m.params)

\* A virtual machine is looked up by name unless its identifier is given.
FirstCommand(m) ==
  IF m.method = "discover" THEN "find"
  ELSE IF m.method # "hardware" THEN "main"
  ELSE IF Trim(m.params.uuid) # "" \/ Trim(m.params.vmName) = "vm-1" THEN "info"
  ELSE "find"

NoWork  == [cmd |-> "none", line |-> {}, found |-> <<>>, at |-> 1,
            asked |-> <<>>, vms |-> {}, leftOut |-> {}]
NewWork(m) == [NoWork EXCEPT !.cmd = FirstCommand(m), !.line = Line(m)]

\* exit: the exit code in the result, 0 if it has none; names: of devices.
Outcome(code, exit, fits, names) ==
  [code |-> code, exit |-> exit, fits |-> fits, names |-> names]
Failure(code) == Outcome(code, 0, TRUE, <<>>)
Success(size) == Outcome("ok", 0, size <= HubLimit, <<>>)

\* What is kept of an output: at most max_bytes, or the default.
Kept(c, size, default) ==
  LET most == Positive(Command[c].maxBytes, default)
  IN IF size > most THEN most ELSE size

Suffixed(raw, n) == [raw EXCEPT !.tail = Append(@, n)]

\* Fault: a suffix that counts the names and not the raw names.
AddDeviceByName(ds, raw) ==
  LET same == Cardinality({i \in DOMAIN ds : ds[i].name = raw})
  IN Append(ds, [raw |-> raw, name |-> IF same = 0 THEN raw
                                       ELSE Suffixed(raw, same + 1)])

AddDevice(ds, raw) ==
  LET same == Cardinality({i \in DOMAIN ds : ds[i].raw = raw})
  IN Append(ds, [raw  |-> raw,
                 name |-> IF \E i \in DOMAIN ds : ds[i].name = raw
                          THEN Suffixed(raw, same + 1) ELSE raw])

Names(raws) ==
  LET devices[n \in 0..Len(raws)] ==
        IF n = 0 THEN <<>> ELSE AddDevice(devices[n - 1], raws[n])
  IN devices[Len(raws)]

-----------------------------------------------------------------------------
(* A message or a task arrives                                             *)

Init ==
  /\ pc = [j \in Job |-> "idle"] /\ origin = [j \in Job |-> "hub"]
  /\ method = [j \in Job |-> ""] /\ left = [j \in Job |-> 0]
  /\ work = [j \in Job |-> NoWork] /\ out = [j \in Job |-> None]
  /\ hurt = [j \in Job |-> FALSE]
  /\ link = "up" /\ held = 0 /\ stopped = FALSE

\* Every message gets a goroutine.  One that carries a result or an error is
\* dropped and takes no step here.
Arrives(j, o, m) ==
  /\ pc[j] = "idle" /\ ~stopped
  /\ IF o = "hub" THEN link = "up" ELSE Request(m)
  /\ origin' = [origin EXCEPT ![j] = o]
  /\ method' = [method EXCEPT ![j] = m.method]

\* A request then writes the result; a task adds it to the cache.
End(j, o, result) ==
  /\ pc' = [pc EXCEPT ![j] = "ended"]
  /\ out' = [out EXCEPT ![j] = result]
  /\ left' = [left EXCEPT ![j] = IF o = "hub" THEN WriteWait ELSE 0]

\* No JSON, or not JSON-RPC 2.0.
Malformed(j, m) ==
  /\ Arrives(j, "hub", m) /\ ~Request(m)
  /\ End(j, "hub", Failure(IF m.kind = "garbage" THEN "ParseError"
                                                 ELSE "InvalidRequest"))
  /\ UNCHANGED <<work, hurt, link, held, stopped>>

ListArrives(j, m) ==
  /\ Arrives(j, "hub", m) /\ Request(m) /\ m.method \in Lists
  /\ End(j, "hub", IF m.decodes THEN Success(0) ELSE Failure("InvalidParams"))
  /\ UNCHANGED <<work, hurt, link, held, stopped>>

\* A task whose method is unknown is skipped.
UnknownMethod(j, m) ==
  /\ Arrives(j, "hub", m) /\ Request(m)
  /\ m.method \notin BuiltIn \cup Lists \cup DOMAIN Command
  /\ End(j, "hub", Failure("MethodNotFound"))
  /\ UNCHANGED <<work, hurt, link, held, stopped>>

Runnable(m) == Request(m) /\ m.method \in BuiltIn \cup DOMAIN Command

Refused(j, o, m) ==
  /\ Arrives(j, o, m) /\ Runnable(m) /\ ~Starts(m)
  /\ End(j, o, Failure("InternalError"))
  /\ UNCHANGED <<work, hurt, link, held, stopped>>

Launch(j, o, m) ==
  /\ Arrives(j, o, m) /\ Runnable(m) /\ Starts(m)
  /\ pc' = [pc EXCEPT ![j] = "running"]
  /\ left' = [left EXCEPT ![j] = Deadline(m)]
  /\ work' = [work EXCEPT ![j] = NewWork(m)]
  /\ UNCHANGED <<out, hurt, link, held, stopped>>

-----------------------------------------------------------------------------
(* The commands of a job                                                   *)

\* What j runs is over, in time if its program is one that has to be.
Completes(j, methods) ==
  /\ pc[j] = "running" /\ method[j] \in methods
  /\ method[j] \in BuiltIn => left[j] > 0
  /\ UNCHANGED <<origin, method, link, held, stopped>>

\* Fault: a context, and so a deadline, for each command.
GoesOnAnew(j) ==
  left' = [left EXCEPT ![j] = Longest] /\ UNCHANGED <<pc, out>>

\* The job runs its next command, under the same context.
GoesOn(j) == UNCHANGED <<pc, left, out>>

\* Only ping's output may be one the parser rejects.
NetCommandEnds(j) ==
  /\ Completes(j, PingLike \cup SNMP)
  /\ \/ \E n \in Size : End(j, origin[j], Success(n))
     \/ method[j] = "ping" /\ End(j, origin[j], Failure("InternalError"))
  /\ UNCHANGED <<work, hurt>>

\* A file that cannot be opened or read fails the job.
FileReadEnds(j) ==
  /\ Completes(j, Reads)
  /\ \/ End(j, origin[j], Failure("InternalError"))
     \/ \E n \in Size : End(j, origin[j], Success(Kept(method[j], n, 1024)))
  /\ UNCHANGED <<work, hurt>>

\* Fault: the exit code of a command that was killed is not told.
QuietResult(c, exit, o, e) ==
  Outcome("ok", IF exit < 0 THEN 0 ELSE exit, TRUE, <<>>)

\* The exit code is part of the result, which is a success either way.
CustomResult(c, exit, o, e) ==
  Outcome("ok", exit, Kept(c, o, 512) + Kept(c, e, 512) <= HubLimit, <<>>)

\* The command has exited or was killed, which gives the exit code -1, and
\* nobody holds its pipes any more.
CustomCommandEnds(j) ==
  /\ Completes(j, Programs)
  /\ \E exit \in -1..1, o \in Size, e \in Size :
       /\ hurt' = [hurt EXCEPT ![j] = exit # 0]
       /\ End(j, origin[j], CustomResult(method[j], exit, o, e))
  /\ UNCHANGED work

\* govc find; an empty host ends the discovery.
Found(j) ==
  /\ Completes(j, VMware) /\ work[j].cmd = "find"
  /\ \E n \in 0..Len(Inventory) :
       /\ work' = [work EXCEPT ![j].cmd = "info",
                               ![j].found = SubSeq(Inventory, 1, n)]
       /\ IF method[j] = "discover" /\ n = 0
          THEN End(j, origin[j], Success(0))
          ELSE GoesOn(j)
  /\ UNCHANGED hurt

\* Fault: a batch that ends one too early.
BatchShort(w) == SubSeq(w.found, w.at, w.at + BatchSize - 2)

Batch(w) ==
  LET end == w.at + BatchSize - 1
  IN SubSeq(w.found, w.at, IF end > Len(w.found) THEN Len(w.found) ELSE end)

\* govc vm.info about one batch.  What it names is listed, in whatever order
\* and as often as it does; an output that is no JSON names nothing and is
\* passed over.
BatchTold(j) ==
  /\ Completes(j, {"discover"}) /\ work[j].cmd = "info"
  /\ \E told \in SUBSET ToSet(Inventory), n \in Size :
       LET w == work[j]
           new == [w EXCEPT !.at = @ + BatchSize, !.asked = @ \o Batch(w),
                            !.vms = @ \cup told,
                            !.leftOut = @ \cup (ToSet(Batch(w)) \ told)]
       IN /\ work' = [work EXCEPT ![j] = new]
          /\ IF new.at > Len(w.found) THEN End(j, origin[j], Success(n))
                                      ELSE GoesOn(j)
  /\ UNCHANGED hurt

\* govc vm.info about one machine; nothing is found in an unreadable output.
HardwareTold(j) ==
  /\ Completes(j, {"hardware"}) /\ work[j].cmd = "info"
  /\ \E raws \in Devices, n \in Size :
       End(j, origin[j], Outcome("ok", 0, n <= HubLimit, Names(raws)))
  /\ UNCHANGED <<work, hurt>>

\* A command cannot be started, or one of the agent's own exits with an error
\* or is killed at the deadline.
CommandFails(j) ==
  /\ pc[j] = "running" /\ method[j] \notin Reads
  /\ hurt' = [hurt EXCEPT ![j] = TRUE]
  /\ End(j, origin[j], Failure("InternalError"))
  /\ UNCHANGED <<origin, method, work, link, held, stopped>>

-----------------------------------------------------------------------------
(* Results, the connection, time                                           *)

\* The goroutine of a request or a run of a task is over.  The hub drops the
\* connection over a message it finds too large.
Delivered(j) ==
  /\ pc[j] = "ended"
  /\ pc' = [pc EXCEPT ![j] = "idle"] /\ left' = [left EXCEPT ![j] = 0]
  /\ method' = [method EXCEPT ![j] = ""] /\ out' = [out EXCEPT ![j] = None]
  /\ work' = [work EXCEPT ![j] = NoWork]
  /\ hurt' = [hurt EXCEPT ![j] = FALSE]
  /\ origin' = [origin EXCEPT ![j] = "hub"]
  /\ link' = IF origin[j] = "hub" /\ ~out[j].fits THEN "down" ELSE link
  /\ UNCHANGED <<held, stopped>>

LinkFails ==
  /\ link = "up" /\ link' = "down"
  /\ UNCHANGED <<jobVars, held, stopped>>

\* The jobs jobWg counts.
Waited == {j \in Job : pc[j] # "idle" /\ origin[j] = "hub"}

Reconnect ==
  /\ link = "down" /\ ~stopped /\ Waited = {}
  /\ link' = "up" /\ held' = 0
  /\ UNCHANGED <<jobVars, stopped>>

\* Stop cancels every context and closes the connection.
Stop ==
  /\ ~stopped /\ stopped' = TRUE /\ link' = "down"
  /\ left' = [j \in Job |-> IF pc[j] = "running" THEN 0 ELSE left[j]]
  /\ UNCHANGED <<pc, origin, method, work, out, hurt, held>>

\* What no deadline ends: the read of a file, and the wait for the pipes of a
\* configured command.
Unbounded(j) == pc[j] = "running" /\ method[j] \notin BuiltIn /\ left[j] = 0

Tick ==
  /\ \E j \in Job : pc[j] # "idle"
  /\ \A j \in Job : pc[j] # "idle" => left[j] > 0 \/ Unbounded(j)
  /\ left' = [j \in Job |-> IF left[j] > 0 THEN left[j] - 1 ELSE 0]
  /\ held' = IF link = "down" /\ Waited # {} /\ ~\E j \in Waited : Unbounded(j)
             THEN held + 1 ELSE held
  /\ UNCHANGED <<pc, origin, method, work, out, hurt, link, stopped>>

Arrival(j, m) ==
  \/ Malformed(j, m) \/ ListArrives(j, m) \/ UnknownMethod(j, m)
  \/ \E o \in {"hub", "task"} : Refused(j, o, m) \/ Launch(j, o, m)

Progress(j) ==
  \/ NetCommandEnds(j) \/ FileReadEnds(j) \/ CustomCommandEnds(j) \/ Found(j)
  \/ BatchTold(j) \/ HardwareTold(j) \/ CommandFails(j) \/ Delivered(j)

Next ==
  \/ \E j \in Job : Progress(j) \/ \E m \in Input[j] : Arrival(j, m)
  \/ LinkFails \/ Reconnect \/ Stop \/ Tick

Spec == Init /\ [][Next]_vars

-----------------------------------------------------------------------------
(* Properties                                                              *)

TypeOK ==
  /\ pc \in [Job -> {"idle", "running", "ended"}]
  /\ origin \in [Job -> {"hub", "task"}]
  /\ left \in [Job -> Nat] /\ held \in Nat
  /\ link \in {"up", "down"} /\ stopped \in BOOLEAN

\* connectAndRun waits for the jobs of a broken connection before the agent
\* dials again.  But for the time in which one of them is a read of a file, or
\* a configured command past its deadline, it never waits longer than the
\* longest context and one write last, however many jobs there are and however
\* many commands they run.
OutageBounded == held <= Longest + WriteWait

\* A result that reads as a success, without an exit code that says otherwise,
\* comes from commands of which none failed or was killed.
Truthful ==
  \A j \in Job :
     pc[j] = "ended" /\ out[j].code = "ok" /\ out[j].exit = 0 => ~hurt[j]

\* A discovery that succeeds has asked about every virtual machine it found,
\* once, and lists each but those that govc's answer about them left out.
WholeInventory ==
  \A j \in Job :
     LET w == work[j]
     IN pc[j] = "ended" /\ w.cmd = "info" /\ method[j] = "discover"
          /\ out[j].code = "ok" =>
        /\ w.asked = w.found
        /\ ToSet(w.found) \subseteq w.vms \cup w.leftOut

\* An SNMP v3 command line has the flags of the security level it names, all
\* of them and no others, whatever the request left to be completed: never a
\* level without its protocol and passphrase, or a passphrase above the level.
LevelKept ==
  \A j \in Job :
     pc[j] = "running" /\ method[j] \in SNMP /\ <<"-v", "3">> \in work[j].line =>
       LET flags == {a[1] : a \in work[j].line}
       IN \E l \in Levels :
            /\ <<"-l", l>> \in work[j].line
            /\ flags \cap {"-a", "-A", "-x", "-X"} =
                 (IF Authenticates(l) THEN {"-a", "-A"} ELSE {})
                 \cup (IF Encrypts(l) THEN {"-x", "-X"} ELSE {})

\* The disks, and the adapters, of a machine get distinct names, unless a name
\* the host reports looks like one the agent makes ("a-2").
NamesDistinct ==
  \A j \in Job :
     pc[j] = "ended" =>
       LET ds == out[j].names
       IN (\A i \in DOMAIN ds : ds[i].raw.tail = <<>>) =>
            \A i, k \in DOMAIN ds : ds[i].name = ds[k].name => i = k
=============================================================================
