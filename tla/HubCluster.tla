----------------------------- MODULE HubCluster -----------------------------
(***************************************************************************)
(* The cluster of hubs (hub/server.go and the /internal handlers of        *)
(* cmd/hub/main.go): each hub knows some peers, registers with all of them *)
(* every 15 seconds, learns their peers, and sends schedules to them: each *)
(* change when it happens, and everything it has whenever a peer           *)
(* registers, is registered with or is learnt of.  Keys go the same ways   *)
(* (HubAuth).                                                              *)
(*                                                                         *)
(* Every post is made by a goroutine of its own and not tried again, so    *)
(* posts under way are sets; two posts of the same content count as one.   *)
(* They arrive in any order or are lost.  Peers beyond the seeds and       *)
(* schedules do not survive a restart.  A schedule is the put that made it.*)
(***************************************************************************)
EXTENDS Naturals, FiniteSets

CONSTANTS
  Hub,
  Sched, Put,  \* the IDs of schedules, and the requests that put one
  IDOf,        \* the ID that each put names
  None,        \* no schedule
  Scene        \* configurations: the seeds of each hub, and bounds on what
               \* happens besides the exchange (puts, deletions, lost posts,
               \* restarts, and rounds that begin before the last is over)

ASSUME PutAssumption   == IDOf \in [Put -> Sched] /\ None \notin Put
ASSUME SceneAssumption ==
  Scene \subseteq [seeds : [Hub -> SUBSET Hub], puts : SUBSET Put,
                  deletions : Nat, losses : Nat, restarts : Nat,
                  overlap : BOOLEAN]

VARIABLES
  scene,    \* the configuration, which stays
  peers, schedules,  \* of each hub
  registrations,  \* posts of /internal/register-peer: <<from, to, asks>>
  answers,        \* their responses: <<from, to, the peers of from>>
  putPosts,       \* posts of /internal/sync-schedule: <<to, put>>
  deletePosts,    \* its deletes: <<to, schedule ID>>
  used,           \* the puts whose time has come
  deleted,        \* history: the IDs that DeleteSchedule has deleted
  losses, restarts

posts == <<registrations, answers, putPosts, deletePosts>>
state == <<scene, peers, schedules>>
clusterVars == <<state, posts, used, deleted, losses, restarts>>

ClusterTypeOK ==
  /\ peers \in [Hub -> SUBSET Hub]
  /\ schedules \in [Hub -> [Sched -> Put \cup {None}]]
  /\ registrations \in SUBSET (Hub \X Hub \X BOOLEAN)
  /\ answers \in SUBSET (Hub \X Hub \X SUBSET Hub)
  /\ putPosts \in SUBSET (Hub \X Put)
  /\ deletePosts \in SUBSET (Hub \X Sched)
  /\ \A h \in Hub, s \in Sched :
       schedules[h][s] # None => IDOf[schedules[h][s]] = s
  /\ losses \in 0 .. scene.losses /\ restarts \in 0 .. scene.restarts

NoSchedules == [s \in Sched |-> None]

ClusterInit ==
  /\ scene \in Scene /\ peers = scene.seeds
  /\ schedules = [h \in Hub |-> NoSchedules]
  /\ registrations = {} /\ answers = {} /\ putPosts = {}
  /\ deletePosts = {}
  /\ used = {} /\ deleted = {}
  /\ losses = 0 /\ restarts = 0

-----------------------------------------------------------------------------
(* What a hub sends.                                                       *)

Others(h) == peers[h] \ {h}

\* SyncAllToPeer from h to each hub of a set.
SchedulesOf(h, to) == to \X ({schedules[h][s] : s \in Sched} \ {None})

\* Fault: a hub syncs a peer only when it is new.
SyncNew(h, to) == putPosts' = putPosts \cup SchedulesOf(h, to \ peers[h])

SyncAll(h, to) == putPosts' = putPosts \cup SchedulesOf(h, to)

\* AddPeer of each hub of a set.
AddPeers(h, new) ==
  peers' = [peers EXCEPT ![h] = @ \cup (new \ {h})]

\* AddPeer announces h to the peers that are new and does not read the answers.
Announcements(h, new) == {<<h, p, FALSE>> : p \in (new \ peers[h]) \ {h}}

\* The last round of h is over.
RoundOver(h) ==
  /\ \A m \in registrations : ~(m[1] = h /\ m[3])
  /\ \A m \in answers : m[2] # h

\* RegisterWithPeers, one second after the start and every 15 seconds.
RegisterWithPeers(h) ==
  /\ scene.overlap \/ RoundOver(h)
  /\ registrations' = registrations \cup {<<h, p, TRUE>> : p \in Others(h)}
  /\ UNCHANGED <<state, answers, putPosts, deletePosts, used,
                 deleted, losses, restarts>>

\* Fault: register-peer answers with the peers and keeps none.
HandleRegistrationForgetful(m) ==
  /\ m \in registrations
  /\ registrations' = registrations \ {m}
  /\ answers' = IF m[3] THEN answers \cup {<<m[2], m[1], peers[m[2]]>>}
                        ELSE answers
  /\ SyncAll(m[2], {m[1]})
  /\ UNCHANGED <<state, deletePosts, used, deleted, losses, restarts>>

\* The handler of register-peer: AddPeer, then the list of peers.
HandleRegistration(m) ==
  LET from == m[1]  h == m[2]  asks == m[3] IN
  /\ m \in registrations
  /\ AddPeers(h, {from})
  /\ registrations' = (registrations \ {m}) \cup Announcements(h, {from})
  /\ answers' = IF asks THEN answers \cup {<<h, from, peers'[h]>>} ELSE answers
  /\ SyncAll(h, {from})
  /\ UNCHANGED <<scene, schedules, deletePosts, used, deleted, losses, restarts>>

\* The rest of RegisterWithPeers: the peer gets everything, and so does each
\* hub it knows, which becomes a peer.
HandleAnswer(m) ==
  LET h == m[2]  learnt == m[3] \ {h} IN
  /\ m \in answers
  /\ answers' = answers \ {m}
  /\ AddPeers(h, learnt)
  /\ registrations' = registrations \cup Announcements(h, learnt)
  /\ SyncAll(h, learnt \cup {m[1]})
  /\ UNCHANGED <<scene, schedules, deletePosts, used, deleted, losses, restarts>>

-----------------------------------------------------------------------------
(* Schedules.                                                              *)

\* AddSchedule, BroadcastScheduleSync.
AddSchedule(h, p) ==
  /\ p \in scene.puts \ used /\ used' = used \cup {p}
  /\ schedules' = [schedules EXCEPT ![h][IDOf[p]] = p]
  /\ putPosts' = putPosts \cup (Others(h) \X {p})
  /\ UNCHANGED <<scene, peers, registrations, answers, deletePosts,
                 deleted, losses, restarts>>

\* SavePeerSchedule.
HandlePut(h, p) ==
  /\ <<h, p>> \in putPosts /\ putPosts' = putPosts \ {<<h, p>>}
  /\ schedules' = [schedules EXCEPT ![h][IDOf[p]] = p]
  /\ UNCHANGED <<scene, peers, registrations, answers, deletePosts,
                 used, deleted, losses, restarts>>

\* DeleteSchedule, BroadcastScheduleDelete.
DeleteSchedule(h, s) ==
  /\ schedules[h][s] # None
  /\ Cardinality(deleted) < scene.deletions /\ deleted' = deleted \cup {s}
  /\ schedules' = [schedules EXCEPT ![h][s] = None]
  /\ deletePosts' = deletePosts \cup (Others(h) \X {s})
  /\ UNCHANGED <<scene, peers, registrations, answers, putPosts, used,
                 losses, restarts>>

\* DeletePeerSchedule.
HandleDelete(h, s) ==
  /\ <<h, s>> \in deletePosts /\ deletePosts' = deletePosts \ {<<h, s>>}
  /\ schedules' = [schedules EXCEPT ![h][s] = None]
  /\ UNCHANGED <<scene, peers, registrations, answers, putPosts, used,
                 deleted, losses, restarts>>

-----------------------------------------------------------------------------
(* Failures.                                                               *)

\* A post, or its answer, fails; nobody tries again.
Lose ==
  /\ losses < scene.losses /\ losses' = losses + 1
  /\ \/ \E m \in registrations : registrations' = registrations \ {m}
        /\ UNCHANGED <<answers, putPosts, deletePosts>>
     \/ \E m \in answers : answers' = answers \ {m}
        /\ UNCHANGED <<registrations, putPosts, deletePosts>>
     \/ \E m \in putPosts : putPosts' = putPosts \ {m}
        /\ UNCHANGED <<registrations, answers, deletePosts>>
     \/ \E m \in deletePosts : deletePosts' = deletePosts \ {m}
        /\ UNCHANGED <<registrations, answers, putPosts>>
  /\ UNCHANGED <<state, used, deleted, restarts>>

\* A hub starts again: its seeds are left.
Restart(h) ==
  /\ restarts < scene.restarts /\ restarts' = restarts + 1
  /\ peers' = [peers EXCEPT ![h] = scene.seeds[h]]
  /\ schedules' = [schedules EXCEPT ![h] = NoSchedules]
  /\ answers' = {m \in answers : m[2] # h}
  /\ UNCHANGED <<scene, registrations, putPosts, deletePosts, used,
                 deleted, losses>>

ClusterNext ==
  \/ \E h \in Hub :
       \/ RegisterWithPeers(h) \/ Restart(h)
       \/ \E p \in Put : AddSchedule(h, p) \/ HandlePut(h, p)
       \/ \E s \in Sched : DeleteSchedule(h, s) \/ HandleDelete(h, s)
  \/ \E m \in registrations : HandleRegistration(m)
  \/ \E m \in answers : HandleAnswer(m)
  \/ Lose

ClusterSpec == ClusterInit /\ [][ClusterNext]_clusterVars

\* Tickers tick, and what is under way arrives, but for the losses.
ClusterFairSpec ==
  /\ ClusterSpec
  /\ \A h \in Hub : WF_clusterVars(RegisterWithPeers(h))
  /\ \A h, g \in Hub, b \in BOOLEAN : WF_clusterVars(HandleRegistration(<<h, g, b>>))
  /\ \A h, g \in Hub : WF_clusterVars(\E l \in SUBSET Hub : HandleAnswer(<<g, h, l>>))
  /\ \A h \in Hub, p \in Put : WF_clusterVars(HandlePut(h, p))
  /\ \A h \in Hub, s \in Sched : WF_clusterVars(HandleDelete(h, s))

-----------------------------------------------------------------------------
(* Properties.                                                             *)

\* The hubs that the seeds connect.
Member ==
  {h \in Hub : scene.seeds[h] # {} \/ \E g \in Hub : h \in scene.seeds[g]}

\* "The peers register it and exchange their active cluster lists to form a
\* mesh": whatever is lost and whoever restarts, every hub comes to know every
\* other one, provided that the seeds connect them.
MeshForms == <>[](\A h \in Member : Member \ {h} \subseteq peers[h])

\* A schedule that one hub has, and that nobody deletes or changes, comes to
\* every hub for good, also to one that has restarted.
SchedulesReplicate ==
  \A p \in Put :
    (\E h \in Member : schedules[h][IDOf[p]] = p)
      ~> \/ [](\A h \in Member : schedules[h][IDOf[p]] = p)
         \/ \A h \in Member : schedules[h][IDOf[p]] # p
         \/ \E q \in Put \ {p} : IDOf[q] = IDOf[p] /\ q \in used
         \/ IDOf[p] \in deleted
=============================================================================
