------------------------------ MODULE Keepalive ------------------------------
(***************************************************************************)
(* The timers of one connection.  The hub's writePump sends a ping at      *)
(* every tick; the agent's ping handler answers with a pong.  Each end     *)
(* gives up when its read deadline passes, which on the agent's side only  *)
(* pings and on the hub's side only pongs put off.                         *)
(*                                                                         *)
(* A ping waits while writePump writes another message, and a frame waits  *)
(* in the network and for its handler.  Either direction may stop carrying *)
(* frames, without a sign; a write into it may then fail or succeed.       *)
(***************************************************************************)
EXTENDS Integers

CONSTANTS
  PingPeriod, PongWait, WriteWait,  \* as in the code
  Hold,   \* the longest time a ping waits for the write before it
  Delay   \* the longest time from a write to its handler at the other end

ASSUME TimeAssumption ==
  /\ PingPeriod \in Nat /\ PongWait \in Nat /\ WriteWait \in Nat
  /\ Hold \in Nat /\ Delay \in Nat /\ Hold <= WriteWait
  /\ 0 < PingPeriod /\ Hold + 2 * Delay < PingPeriod

VARIABLES
  tick,      \* time until the hub's ticker fires
  beat, age, \* where the heartbeat is, and for how long
  left,      \* time until the read deadline of each end
  open,      \* the ends that have not given up
  works,     \* the kinds of frame that get through
  broken     \* history: time since something stopped working

timers == <<tick, beat, age, left, open, works, broken>>

Frame == {"ping", "pong"}
Bound == PongWait + PongWait + Delay

TimersOK ==
  /\ tick \in 0 .. PingPeriod
  /\ beat \in {"none", "due"} \cup Frame /\ age \in Nat
  /\ left \in [{"hub", "agent"} -> 0 .. PongWait]
  /\ open \in SUBSET {"hub", "agent"} /\ works \in SUBSET Frame
  /\ broken \in Nat

KeepaliveInit ==
  /\ tick = PingPeriod /\ beat = "none" /\ age = 0
  /\ left = [e \in {"hub", "agent"} |-> PongWait]
  /\ open = {"hub", "agent"} /\ works = Frame /\ broken = 0

\* Where the heartbeat is after frame f has been written.
Sent(f) == IF f \in works THEN f ELSE "none"
Move(b) == beat' = b /\ age' = 0

\* Fault: the period is the deadline.
PeriodLate == PongWait
Period == PingPeriod

\* writePump finds a tick.
TickerFires ==
  /\ "hub" \in open /\ tick = 0 /\ tick' = Period
  /\ Move("due")
  /\ UNCHANGED <<left, open, works, broken>>

\* Fault: a ping that is sent puts the hub's own deadline off.
WritePingTrusting ==
  /\ beat = "due" /\ Move(Sent("ping"))
  /\ left' = [left EXCEPT !["hub"] = PongWait]
  /\ UNCHANGED <<tick, open, works, broken>>

WritePing ==
  /\ beat = "due" /\ Move(Sent("ping"))
  /\ UNCHANGED <<tick, left, open, works, broken>>

PingHandler ==
  /\ beat = "ping"
  /\ IF "agent" \in open
     THEN /\ left' = [left EXCEPT !["agent"] = PongWait]
          /\ Move(Sent("pong"))
     ELSE UNCHANGED left /\ Move("none")
  /\ UNCHANGED <<tick, open, works, broken>>

PongHandler ==
  /\ beat = "pong" /\ Move("none")
  /\ left' = [left EXCEPT !["hub"] = PongWait]
  /\ UNCHANGED <<tick, open, works, broken>>

\* An end's deadline has passed, or its write fails; the other end may see the
\* connection closed.
GiveUp(e) ==
  /\ e \in open /\ (left[e] = 0 \/ works # Frame)
  /\ open' \in {open \ {e}, {}}
  /\ IF beat = "due" THEN Move("none") ELSE UNCHANGED <<beat, age>>
  /\ UNCHANGED <<tick, left, works, broken>>

\* A direction of the network, or the process at its end, stops.
Break(f) ==
  /\ f \in works /\ works' = works \ {f}
  /\ IF beat = f THEN Move("none") ELSE UNCHANGED <<beat, age>>
  /\ UNCHANGED <<tick, left, open, broken>>

\* Time passes when nothing has to happen before.
Pass ==
  /\ open # {} /\ \A e \in open : left[e] > 0
  /\ "hub" \in open => tick > 0
  /\ beat = "due" => age < Hold
  /\ beat \in Frame => age < Delay
  /\ tick' = IF "hub" \in open THEN tick - 1 ELSE tick
  /\ age' = IF beat = "none" THEN age ELSE age + 1
  /\ left' = [e \in {"hub", "agent"} |->
                IF e \in open THEN left[e] - 1 ELSE left[e]]
  /\ broken' = IF works = Frame THEN 0 ELSE broken + 1
  /\ UNCHANGED <<beat, open, works>>

KeepaliveNext ==
  \/ TickerFires \/ WritePing \/ PingHandler \/ PongHandler \/ Pass
  \/ \E e \in {"hub", "agent"} : GiveUp(e)
  \/ \E f \in Frame : Break(f)

KeepaliveSpec == KeepaliveInit /\ [][KeepaliveNext]_timers

-----------------------------------------------------------------------------
(* Properties.                                                             *)

\* What the periods leave for a heartbeat to go round: 6 seconds, of which the
\* write before it may take 10.
Slack == PingPeriod + Hold + 2 * Delay < PongWait

\* "Must be less than pongWait": as long as everything works, however slow
\* within these bounds, neither end gives the connection up.
KeptAlive == Slack /\ works = Frame => open = {"hub", "agent"}

\* When one direction stops, both ends have noticed in time, the second one by
\* the silence of the first.
DeadNoticed == open # {} => broken <= Bound
=============================================================================
