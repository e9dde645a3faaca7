------------------------------- MODULE HubAuth -------------------------------
(***************************************************************************)
(* Who may connect under one agent ID (ServeHTTP of hub/server.go before   *)
(* the upgrade, its key files, their exchange between hubs, and the        *)
(* satellites' own key files, common/crypto.go).                           *)
(*                                                                         *)
(* A satellite with a private key signs its ID and the time; the hub       *)
(* checks that with the key file of the ID.  When there is no file, a      *)
(* satellite that knows the registration token registers its key.  One     *)
(* that is started without a private key is admitted by token as long as   *)
(* there is no file.  Any number of satellites may use the ID; a key is    *)
(* named by the satellite that has it.                                     *)
(*                                                                         *)
(* Files are truncated and then written, by any number of writers at once, *)
(* without a lock.  A key has a fixed length in PEM and its one line is    *)
(* written at once, so two keys never mix: a file is whole or Torn.  All   *)
(* hubs are peers of each other (HubCluster).  A rejection changes nothing *)
(* and ends the handler.                                                   *)
(***************************************************************************)
EXTENDS Integers, FiniteSets

CONSTANTS
  Hub,
  Sat,         \* the satellites that use the ID, and their keys
  Fresh,       \* those that have no key pair at first
  Bare,        \* those that are at times started without the key
  Trusted,     \* those that know the token
  Skew,        \* clock differences that occur, in seconds
  None, Torn,  \* no file (or hub), and a file that does not parse
  MaxFault     \* bound on crashes, failing writes and lost posts

ASSUME SatAssumption  == UNION {Fresh, Bare, Trusted} \subseteq Sat
ASSUME FileAssumption ==
  /\ None \notin Sat \cup Hub \cup {Torn, "whole"} /\ Torn \notin Sat
ASSUME SkewAssumption == Skew \subseteq Int /\ MaxFault \in Nat

MaxSkew == 120

VARIABLES
  own,     \* the private key file of each satellite
  at, hub, \* the place of each satellite and its handler, and its hub
  file,    \* the ID's key file of each hub
  posts,   \* posts of /internal/sync-key: <<to, key>>
  saving,  \* those whose handler has truncated the file
  late,    \* history: who dialled a hub without a key when it had a file
  contended, \* history: two keys tried to be the first
  cut,     \* history: hubs at which a write of the file was cut short
  faults

ends  == <<own, at, hub>>
files == <<file, posts, saving>>
vars  == <<ends, files, late, contended, cut, faults>>

Place == {"off", "generate", "idle", "load", "save", "write", "in",
          "stat", "token"}

TypeOK ==
  /\ own \in [Sat -> {None, Torn, "whole"}]
  /\ at \in [Sat -> Place] /\ hub \in [Sat -> Hub \cup {None}]
  /\ file \in [Hub -> Sat \cup {None, Torn}]
  /\ posts \in SUBSET (Hub \X Sat) /\ saving \in SUBSET (Hub \X Sat)
  /\ late \in SUBSET Sat /\ contended \in BOOLEAN /\ cut \in SUBSET Hub
  /\ faults \in 0 .. MaxFault

Init ==
  /\ own = [s \in Sat |-> IF s \in Fresh THEN None ELSE "whole"]
  /\ at = [s \in Sat |-> IF s \in Fresh THEN "off" ELSE "idle"]
  /\ hub = [s \in Sat |-> None]
  /\ file = [h \in Hub |-> None] /\ posts = {} /\ saving = {}
  /\ late = {} /\ contended = FALSE /\ cut = {} /\ faults = 0

\* The keys that a hub knows, or will know when nothing fails.
Known(k) ==
  \/ at[k] \in {"save", "write", "in"}
  \/ \E h \in Hub : file[h] = k \/ <<h, k>> \in posts \cup saving

\* The registrations and synchronisations that have truncated h's file.
Writing(h) ==
  \/ \E s \in Sat : at[s] = "write" /\ hub[s] = h
  \/ \E k \in Sat : <<h, k>> \in saving

Goto(s, from, to) == at[s] = from /\ at' = [at EXCEPT ![s] = to]
Leave(s, from, to) ==
  /\ Goto(s, from, to) /\ hub' = [hub EXCEPT ![s] = None]
  /\ late' = late \ {s}
Others(h, k) == (Hub \ {h}) \X {k}
Fault == faults < MaxFault /\ faults' = faults + 1

-----------------------------------------------------------------------------
(* A satellite starts, dials, and stops.                                   *)

\* main finds no private key.  (One that is whole is loaded, and a start is no
\* more than a dial; one that is torn ends the program at every start.)
Start(s) ==
  /\ own[s] = None /\ own' = [own EXCEPT ![s] = Torn]
  /\ Goto(s, "off", "generate")
  /\ UNCHANGED <<hub, files, late, contended, cut, faults>>

\* GenerateAndSaveEd25519Keys writes the private key.
Generate(s) ==
  /\ own' = [own EXCEPT ![s] = "whole"]
  /\ Goto(s, "generate", "idle")
  /\ UNCHANGED <<hub, files, late, contended, cut, faults>>

GenerateFails(s) ==
  /\ Fault /\ Goto(s, "generate", "off")
  /\ UNCHANGED <<own, hub, files, late, contended, cut>>

\* connectAndRun with a key, and ServeHTTP up to the check of the time stamp.
Dial(s, h, skew) ==
  /\ skew \in -MaxSkew .. MaxSkew
  /\ Goto(s, "idle", "load") /\ hub' = [hub EXCEPT ![s] = h]
  /\ UNCHANGED <<own, files, late, contended, cut, faults>>

\* connectAndRun without one.
DialBare(s, h) ==
  /\ s \in Bare
  /\ Goto(s, "idle", "stat") /\ hub' = [hub EXCEPT ![s] = h]
  /\ late' = IF file[h] = None THEN late ELSE late \cup {s}
  /\ UNCHANGED <<own, files, contended, cut, faults>>

\* The connection breaks, or the satellite stops.
Disconnect(s) ==
  /\ Leave(s, at[s], "idle") /\ at[s] \in {"in", "token"}
  /\ UNCHANGED <<own, files, contended, cut, faults>>

-----------------------------------------------------------------------------
(* ServeHTTP.                                                              *)

\* Fault: a file that does not parse counts as none.
MissingOrTorn(h) == file[h] \in {None, Torn}

\* LoadPublicKeyFromFile, os.IsNotExist.
Missing(h) == file[h] = None

\* Fault: the file is loaded, and one that does not parse is no file.
HasNoKeyLoaded(h) == file[h] \in {None, Torn}

\* os.Stat in the token's branch.
HasNoKey(h) == file[h] = None

\* The key file is this satellite's, or there is none and it may register.
Load(s) ==
  LET h == hub[s] IN
  /\ at[s] = "load"
  /\ \/ file[h] = s /\ Goto(s, "load", "in") /\ UNCHANGED contended
     \/ /\ Missing(h) /\ s \in Trusted /\ Goto(s, "load", "save")
        /\ contended' =
             (contended \/ (file[h] = None /\ \E k \in Sat \ {s} : Known(k)))
  /\ UNCHANGED <<own, hub, files, late, cut, faults>>

\* Token authentication.
Admit(s) ==
  /\ at[s] = "stat" /\ HasNoKey(hub[s]) /\ s \in Trusted
  /\ Goto(s, "stat", "token")
  /\ UNCHANGED <<own, hub, files, late, contended, cut, faults>>

Reject(s) ==
  LET h == hub[s] IN
  /\ \/ at[s] = "stat" /\ ~(HasNoKey(h) /\ s \in Trusted)
     \/ at[s] = "load" /\ file[h] # s /\ ~(Missing(h) /\ s \in Trusted)
  /\ Leave(s, at[s], "idle")
  /\ UNCHANGED <<own, files, contended, cut, faults>>

\* SavePublicKeyPEM opens the file.
Truncate(s) ==
  /\ Goto(s, "save", "write")
  /\ file' = [file EXCEPT ![hub[s]] = Torn]
  /\ UNCHANGED <<own, hub, posts, saving, late, contended, cut, faults>>

\* pem.Encode; a writer that has truncated in between leaves the file torn
\* until it has written.
Written(h, k) ==
  \E f \in {k, Torn} :
    /\ file' = [file EXCEPT ![h] = f]
    /\ f = Torn => \/ \E s \in Sat : at'[s] = "write" /\ hub'[s] = h
                   \/ \E l \in Sat : <<h, l>> \in saving'

\* The key is saved and broadcast (BroadcastKeySync), and its owner is in.
Register(s) ==
  /\ Goto(s, "write", "in")
  /\ posts' = posts \cup Others(hub[s], s)
  /\ UNCHANGED <<hub, saving>> /\ Written(hub[s], s)
  /\ UNCHANGED <<own, late, contended, cut, faults>>

\* The write fails, and what is in the file stays.
RegisterFails(s) ==
  /\ Fault /\ Leave(s, "write", "idle")
  /\ cut' = cut \cup {hub[s]}
  /\ UNCHANGED <<own, files, contended>>

-----------------------------------------------------------------------------
(* The exchange between hubs.                                              *)

\* LoadPublicKeyFromFile in SyncAllToPeer.
Loadable(h) == file[h] \in Sat

\* SyncAllToPeer of every round.
SyncKey(h, to) ==
  /\ to # h /\ Loadable(h)
  /\ posts' = posts \cup {<<to, file[h]>>}
  /\ UNCHANGED <<ends, file, saving, late, contended, cut, faults>>

\* Fault: a key file that is there is kept.
HandleKeyIfNew(h, k) ==
  /\ <<h, k>> \in posts \ saving /\ posts' = posts \ {<<h, k>>}
  /\ file' = [file EXCEPT ![h] = IF @ = None THEN Torn ELSE @]
  /\ saving' = IF file[h] = None THEN saving \cup {<<h, k>>} ELSE saving
  /\ UNCHANGED <<ends, late, contended, cut, faults>>

\* SavePeerPublicKey opens the file.
HandleKey(h, k) ==
  /\ <<h, k>> \in posts \ saving /\ posts' = posts \ {<<h, k>>}
  /\ file' = [file EXCEPT ![h] = Torn] /\ saving' = saving \cup {<<h, k>>}
  /\ UNCHANGED <<ends, late, contended, cut, faults>>

\* Fault: the file is opened and nothing is written.
SaveEmpty(h, k) ==
  /\ <<h, k>> \in saving /\ saving' = saving \ {<<h, k>>}
  /\ UNCHANGED <<ends, file, posts, late, contended, cut, faults>>

\* SavePeerPublicKey writes.
Save(h, k) ==
  /\ <<h, k>> \in saving /\ saving' = saving \ {<<h, k>>}
  /\ UNCHANGED <<ends, posts>> /\ Written(h, k)
  /\ UNCHANGED <<late, contended, cut, faults>>

SaveFails(h, k) ==
  /\ Fault
  /\ <<h, k>> \in saving /\ saving' = saving \ {<<h, k>>}
  /\ cut' = cut \cup {h}
  /\ UNCHANGED <<ends, file, posts, late, contended>>

Lose(h, k) ==
  /\ Fault
  /\ <<h, k>> \in posts /\ posts' = posts \ {<<h, k>>}
  /\ UNCHANGED <<ends, file, saving, late, contended, cut>>

\* A hub dies and starts again: its handlers are gone, its file is as it was.
Crash(h) ==
  /\ Fault
  /\ at' = [s \in Sat |-> IF hub[s] = h THEN "idle" ELSE at[s]]
  /\ hub' = [s \in Sat |-> IF hub[s] = h THEN None ELSE hub[s]]
  /\ late' = {s \in late : hub[s] # h}
  /\ saving' = {w \in saving : w[1] # h}
  /\ cut' = IF Writing(h) THEN cut \cup {h} ELSE cut
  /\ UNCHANGED <<own, file, posts, contended>>

-----------------------------------------------------------------------------
Serve(s) == Load(s) \/ Admit(s) \/ Reject(s) \/ Truncate(s) \/ Register(s)

Next ==
  \/ \E s \in Sat :
       \/ Start(s) \/ Generate(s) \/ GenerateFails(s) \/ Disconnect(s)
       \/ \E h \in Hub : DialBare(s, h) \/ \E skew \in Skew : Dial(s, h, skew)
       \/ Serve(s) \/ RegisterFails(s)
  \/ \E h \in Hub : Crash(h) \/ \E to \in Hub : SyncKey(h, to)
  \/ \E h \in Hub, k \in Sat :
       HandleKey(h, k) \/ Save(h, k) \/ SaveFails(h, k) \/ Lose(h, k)

Spec == Init /\ [][Next]_vars

\* Rounds are made, and what writes a file goes on; nothing is asked of
\* satellites.
FairSpec ==
  /\ Spec
  /\ WF_vars(\E s \in Sat : Register(s))
  /\ \A h \in Hub :
       /\ \A to \in Hub \ {h} : WF_vars(SyncKey(h, to))
       /\ WF_vars(\E k \in Sat : HandleKey(h, k))
       /\ WF_vars(\E k \in Sat : Save(h, k))

-----------------------------------------------------------------------------
(* Properties.                                                             *)

\* The ID stands for one key: whatever is torn, lost or killed, all hubs,
\* posts and admitted satellites know the same one, unless a second one was
\* registered at a hub to which the first had not come.  And a key that a hub
\* knows is safe with its owner, which comes back with the same.
OneIdentity ==
  /\ \A k \in Sat : Known(k) => own[k] = "whole"
  /\ ~contended => \A k, l \in Sat : Known(k) /\ Known(l) => k = l

\* "If a public key is registered for this agentID, mandate signature
\* authentication": who dials a hub that has a key file, even one that is being
\* rewritten, is never admitted by token alone.
NoTakeover == \A s \in Sat : at[s] = "token" => s \notin late

\* A key file that nobody is writing is whole, unless a write of it was cut
\* short: saves that overlap leave no wreck.
WholeUnlessCut == \A h \in Hub : file[h] = Torn => Writing(h) \/ h \in cut

\* Handlers have a hub, clients with a place have a key, and who came late
\* waits for a rejection.
HandlerInv ==
  \A s \in Sat :
    /\ hub[s] \in Hub <=> at[s] \in {"load", "save", "write", "in", "stat", "token"}
    /\ own[s] = "whole" \/ at[s] \in {"off", "generate"}
    /\ s \in late => at[s] = "stat" /\ file[hub[s]] # None

\* The inductive invariant.
IInv == TypeOK /\ HandlerInv /\ OneIdentity /\ WholeUnlessCut

\* Every copy is destroyed, which nothing repairs.
Lost == \A h \in Hub : file[h] \notin Sat /\ ~Writing(h)

\* A key that one hub has (which is the one key: OneIdentity) comes to every
\* hub, whole, and again after each time that the file was damaged.
KeyEverywhere ==
  \A h \in Hub :
    (\E g \in Hub : file[g] \in Sat) ~> (file[h] \in Sat \/ contended \/ Lost)
=============================================================================
