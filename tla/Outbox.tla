-------------------------------- MODULE Outbox --------------------------------
(***************************************************************************)
(* What store and forward promises about the results of scheduled tasks,   *)
(* without files, sessions and connections: a result that is stored once   *)
(* leaves when it has gone out, the oldest first.  A save that is cut      *)
(* short breaks the promise: all that is stored is lost, and what is       *)
(* stored after it may still be.                                           *)
(***************************************************************************)
EXTENDS Naturals, Sequences, SequencesExt

CONSTANT Result

VARIABLES
  queue,   \* the results that are stored
  out,     \* those that have gone out, at least once
  lost,    \* those that are no longer stored and have not gone out
  spoilt   \* a save has been cut short

outboxVars == <<queue, out, lost, spoilt>>

Init == queue = <<>> /\ out = {} /\ lost = {} /\ spoilt = FALSE

\* For the first and only time.
Store(r) ==
  /\ r \notin ToSet(queue) \cup out \cup lost
  /\ queue' = Append(queue, r)
  /\ UNCHANGED <<out, lost, spoilt>>

\* Everything older has gone out.
Send(i) ==
  /\ i \in 1..Len(queue) /\ \A k \in 1..i - 1 : queue[k] \in out
  /\ out' = out \cup {queue[i]}
  /\ UNCHANGED <<queue, lost, spoilt>>

\* The sender still has a copy.
SendCopy(r) ==
  /\ r \in lost
  /\ out' = out \cup {r} /\ lost' = lost \ {r}
  /\ UNCHANGED <<queue, spoilt>>

\* Of the n oldest, those that have not gone out are lost.
Leave(n) ==
  /\ queue' = SubSeq(queue, n + 1, Len(queue))
  /\ lost' = lost \cup ({queue[i] : i \in 1..n} \ out)
  /\ UNCHANGED out

Forget(n) ==
  /\ n \in 1..Len(queue) /\ Leave(n)
  /\ ~spoilt => lost' = lost
  /\ UNCHANGED spoilt

Spoil == Leave(Len(queue)) /\ spoilt' = TRUE

Next ==
  \/ \E r \in Result : Store(r) \/ SendCopy(r)
  \/ \E i \in 1..Len(queue) : Send(i) \/ Forget(i)
  \/ Spoil

Spec == Init /\ [][Next]_outboxVars
=============================================================================
