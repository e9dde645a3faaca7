---------------------------- MODULE HubAuthProofs ----------------------------
(***************************************************************************)
(* Proofs about HubAuth, for any hubs, any satellites that use the ID and  *)
(* any number of faults.                                                   *)
(***************************************************************************)
EXTENDS HubAuth, TLAPS

\* Steps of a satellite and its own files, before it is heard of.
SatStep(s) ==
  \/ Start(s) \/ Generate(s) \/ GenerateFails(s)
  \/ \E h \in Hub : DialBare(s, h) \/ \E skew \in Skew : Dial(s, h, skew)

\* Steps of the exchange at one hub.
KeyStep(h, k) == HandleKey(h, k) \/ Save(h, k) \/ SaveFails(h, k) \/ Lose(h, k)

LEMMA Cases ==
  ASSUME [Next]_vars
  PROVE  \/ UNCHANGED vars
         \/ \E s \in Sat :
              \/ SatStep(s) \/ Disconnect(s) \/ Serve(s) \/ RegisterFails(s)
         \/ \E h \in Hub : Crash(h) \/ \E to \in Hub : SyncKey(h, to)
         \/ \E h \in Hub, k \in Sat : KeyStep(h, k)
BY DEF Next, SatStep, KeyStep

-----------------------------------------------------------------------------
(* Types.                                                                  *)

LEMMA WrittenType ==
  ASSUME file \in [Hub -> Sat \cup {None, Torn}], NEW h, NEW k \in Sat,
         Written(h, k)
  PROVE  file' \in [Hub -> Sat \cup {None, Torn}]
BY DEF Written

LEMMA FaultType ==
  ASSUME faults \in 0 .. MaxFault, Fault
  PROVE  faults' \in 0 .. MaxFault
BY SkewAssumption DEF Fault

LEMMA ServeType ==
  ASSUME TypeOK, HandlerInv, NEW s \in Sat, Serve(s) \/ RegisterFails(s)
  PROVE  TypeOK'
<1>1. CASE Load(s)
  BY <1>1 DEF TypeOK, Load, Goto, files, Place
<1>2. CASE Admit(s)
  BY <1>2 DEF TypeOK, Admit, Goto, files, Place
<1>3. CASE Reject(s)
  BY <1>3 DEF TypeOK, Reject, Leave, Goto, files, Place
<1>4. CASE Truncate(s)
  BY <1>4 DEF TypeOK, Truncate, Goto, Place
<1>5. CASE Register(s)
  <2>1. hub[s] \in Hub
    BY <1>5 DEF Register, Goto, HandlerInv
  <2>2. posts' \in SUBSET (Hub \X Sat)
    BY <1>5, <2>1 DEF TypeOK, Register, Others
  <2>3. file' \in [Hub -> Sat \cup {None, Torn}]
    BY <1>5, WrittenType DEF TypeOK, Register
  <2> QED
    BY <1>5, <2>2, <2>3 DEF TypeOK, Register, Goto, Place
<1>6. CASE RegisterFails(s)
  <2>1. hub[s] \in Hub
    BY <1>6 DEF RegisterFails, Leave, Goto, HandlerInv
  <2>2. faults' \in 0 .. MaxFault
    BY <1>6, FaultType DEF TypeOK, RegisterFails
  <2> QED
    BY <1>6, <2>1, <2>2 DEF TypeOK, RegisterFails, Leave, Goto, files, Place
<1> QED
  BY <1>1, <1>2, <1>3, <1>4, <1>5, <1>6 DEF Serve

LEMMA KeyType ==
  ASSUME TypeOK, NEW h \in Hub, NEW k \in Sat, KeyStep(h, k)
  PROVE  TypeOK'
<1>1. CASE HandleKey(h, k)
  BY <1>1 DEF TypeOK, HandleKey, ends
<1>2. CASE Save(h, k)
  <2>1. file' \in [Hub -> Sat \cup {None, Torn}]
    BY <1>2, WrittenType DEF TypeOK, Save
  <2> QED
    BY <1>2, <2>1 DEF TypeOK, Save, ends
<1>3. CASE SaveFails(h, k)
  BY <1>3, FaultType DEF TypeOK, SaveFails, ends
<1>4. CASE Lose(h, k)
  BY <1>4, FaultType DEF TypeOK, Lose, ends
<1> QED
  BY <1>1, <1>2, <1>3, <1>4 DEF KeyStep

LEMMA TypeStep ==
  ASSUME TypeOK, HandlerInv, [Next]_vars
  PROVE  TypeOK'
<1>1. CASE UNCHANGED vars
  BY <1>1 DEF TypeOK, vars, ends, files
<1>2. ASSUME NEW s \in Sat, SatStep(s) PROVE TypeOK'
  <2>1. CASE Start(s) \/ Generate(s)
    BY <2>1 DEF TypeOK, Start, Generate, Goto, files, Place
  <2>2. CASE GenerateFails(s)
    BY <2>2, FaultType DEF TypeOK, GenerateFails, Goto, files, Place
  <2>3. ASSUME NEW h \in Hub, DialBare(s, h) PROVE TypeOK'
    BY <2>3 DEF TypeOK, DialBare, Goto, files, Place
  <2>4. ASSUME NEW h \in Hub, NEW skew \in Skew, Dial(s, h, skew) PROVE TypeOK'
    BY <2>4 DEF TypeOK, Dial, Goto, files, Place
  <2> QED
    BY <1>2, <2>1, <2>2, <2>3, <2>4 DEF SatStep
<1>3. ASSUME NEW s \in Sat, Disconnect(s) PROVE TypeOK'
  BY <1>3 DEF TypeOK, Disconnect, Leave, Goto, files, Place
<1>4. ASSUME NEW h \in Hub, Crash(h) PROVE TypeOK'
  <2>1. /\ at' \in [Sat -> Place] /\ hub' \in [Sat -> Hub \cup {None}]
        /\ late' \in SUBSET Sat /\ saving' \in SUBSET (Hub \X Sat)
        /\ cut' \in SUBSET Hub
    BY <1>4 DEF TypeOK, Crash, Place
  <2>2. faults' \in 0 .. MaxFault
    BY <1>4, FaultType DEF TypeOK, Crash
  <2> QED
    BY <1>4, <2>1, <2>2 DEF TypeOK, Crash
<1>5. ASSUME NEW h \in Hub, NEW to \in Hub, SyncKey(h, to) PROVE TypeOK'
  BY <1>5 DEF TypeOK, SyncKey, Loadable, ends
<1> QED
  BY <1>1, <1>2, <1>3, <1>4, <1>5, Cases, ServeType, KeyType

-----------------------------------------------------------------------------
(* Handlers.                                                               *)

\* A file that is there never goes away.
LEMMA FilesStay ==
  ASSUME TypeOK, HandlerInv, [Next]_vars, NEW h \in Hub, file[h] # None
  PROVE  file'[h] # None
<1>1. ASSUME NEW g, NEW k \in Sat, Written(g, k) PROVE file'[h] # None
  BY <1>1, FileAssumption DEF TypeOK, Written
<1>2. ASSUME NEW s \in Sat, Serve(s) PROVE file'[h] # None
  BY <1>1, <1>2, FileAssumption
  DEF TypeOK, Serve, Load, Admit, Reject, Truncate, Register, files
<1>3. ASSUME NEW g \in Hub, NEW k \in Sat, KeyStep(g, k) PROVE file'[h] # None
  BY <1>1, <1>3, FileAssumption
  DEF TypeOK, KeyStep, HandleKey, Save, SaveFails, Lose
<1>4. ASSUME NEW s \in Sat, SatStep(s) \/ Disconnect(s) \/ RegisterFails(s)
      PROVE  file'[h] # None
  BY <1>4 DEF SatStep, Start, Generate, GenerateFails, DialBare, Dial,
              Disconnect, RegisterFails, files
<1> QED
  BY <1>2, <1>3, <1>4, Cases DEF Crash, SyncKey, vars, files

LEMMA HandlerStep ==
  ASSUME TypeOK, HandlerInv, [Next]_vars
  PROVE  HandlerInv'
<1> DEFINE Served == {"load", "save", "write", "in", "stat", "token"}
           I(s) == /\ hub[s] \in Hub <=> at[s] \in Served
                   /\ own[s] = "whole" \/ at[s] \in {"off", "generate"}
                   /\ s \in late => at[s] = "stat" /\ file[hub[s]] # None
<1> SUFFICES ASSUME NEW r \in Sat PROVE I(r)'
  BY DEF HandlerInv
<1>0. I(r)
  BY DEF HandlerInv
<1>f. \A h \in Hub : file[h] # None => file'[h] # None
  BY FilesStay
<1>1. ASSUME own'[r] = own[r], at'[r] = at[r], hub'[r] = hub[r],
             r \in late' => r \in late
      PROVE  I(r)'
  BY <1>0, <1>1, <1>f
<1>2. CASE UNCHANGED vars
  BY <1>1, <1>2 DEF vars, ends
<1>3. ASSUME NEW s \in Sat, SatStep(s) PROVE I(r)'
  <2>1. CASE Start(s)
    BY <1>0, <1>f, <2>1, FileAssumption DEF TypeOK, Start, Goto, files
  <2>2. CASE Generate(s)
    BY <1>0, <1>f, <2>2 DEF TypeOK, Generate, Goto, files
  <2>3. CASE GenerateFails(s)
    BY <1>0, <1>f, <2>3 DEF TypeOK, GenerateFails, Goto, files
  <2>4. ASSUME NEW h \in Hub, DialBare(s, h) PROVE I(r)'
    BY <1>0, <1>f, <2>4 DEF TypeOK, DialBare, Goto, files
  <2>5. ASSUME NEW h \in Hub, NEW skew \in Skew, Dial(s, h, skew) PROVE I(r)'
    BY <1>0, <1>f, <2>5 DEF TypeOK, Dial, Goto, files
  <2> QED
    BY <1>3, <2>1, <2>2, <2>3, <2>4, <2>5 DEF SatStep
<1>4. ASSUME NEW s \in Sat, Leave(s, at[s], "idle"), own' = own,
             at[s] \in Served
      PROVE  I(r)'
  BY <1>0, <1>f, <1>4, FileAssumption DEF TypeOK, Leave, Goto
<1>5. ASSUME NEW s \in Sat, Serve(s) PROVE I(r)'
  <2>1. CASE Load(s)
    BY <1>0, <1>f, <2>1 DEF TypeOK, Load, Goto, files
  <2>2. CASE Admit(s)
    BY <1>0, <1>f, <2>2 DEF TypeOK, HandlerInv, Admit, HasNoKey, Goto, files
  <2>3. CASE Reject(s)
    BY <1>4, <2>3 DEF Reject
  <2>4. CASE Truncate(s) \/ Register(s)
    BY <1>0, <1>f, <2>4 DEF TypeOK, Truncate, Register, Goto
  <2> QED
    BY <1>5, <2>1, <2>2, <2>3, <2>4 DEF Serve
<1>6. ASSUME NEW s \in Sat, Disconnect(s) \/ RegisterFails(s) PROVE I(r)'
  BY <1>4, <1>6 DEF Disconnect, RegisterFails, Goto, Leave
<1>7. ASSUME NEW h \in Hub, Crash(h) PROVE I(r)'
  <2>1. CASE hub[r] = h
    BY <1>0, <1>7, <2>1, FileAssumption DEF TypeOK, Crash
  <2>2. CASE hub[r] # h
    BY <1>1, <1>7, <2>2 DEF TypeOK, Crash
  <2> QED
    BY <2>1, <2>2
<1>8. ASSUME NEW h \in Hub, NEW k, SyncKey(h, k) \/ KeyStep(h, k) PROVE I(r)'
  BY <1>1, <1>8
  DEF SyncKey, KeyStep, HandleKey, Save, SaveFails, Lose, ends
<1> QED
  BY <1>2, <1>3, <1>5, <1>6, <1>7, <1>8, Cases

-----------------------------------------------------------------------------
(* One identity.                                                           *)

\* Whom a satellite's own steps leave as known as they were.
LEMMA KnownBySat ==
  ASSUME TypeOK, NEW s \in Sat, NEW k \in Sat, Known(k)', ~Known(k),
         SatStep(s) \/ Disconnect(s) \/ Serve(s) \/ RegisterFails(s)
  PROVE  Load(s) /\ k = s
<1>1. CASE SatStep(s)
  BY <1>1 DEF TypeOK, SatStep, Start, Generate, GenerateFails, DialBare, Dial,
              Goto, Known, files
<1>2. CASE Disconnect(s)
  BY <1>2 DEF TypeOK, Disconnect, Leave, Goto, Known, files
<1>3. CASE RegisterFails(s)
  BY <1>3 DEF TypeOK, RegisterFails, Leave, Goto, Known, files
<1>4. CASE Load(s)
  BY <1>4 DEF TypeOK, Load, Goto, Known, files
<1>5. CASE Admit(s)
  BY <1>5 DEF TypeOK, Admit, Goto, Known, files
<1>6. CASE Reject(s)
  BY <1>6 DEF TypeOK, Reject, Leave, Goto, Known, files
<1>7. CASE Truncate(s)
  BY <1>7, FileAssumption DEF TypeOK, Truncate, Goto, Known
<1>8. CASE Register(s)
  <2>1. k # s
    BY <1>8 DEF Register, Goto, Known
  <2>2. \A h \in Hub : file'[h] = k => file[h] = k
    BY <1>8, <2>1, FileAssumption DEF TypeOK, Register, Written
  <2>3. \A h \in Hub : <<h, k>> \in posts' => <<h, k>> \in posts
    BY <1>8, <2>1 DEF Register, Others
  <2> QED
    BY <1>8, <2>1, <2>2, <2>3 DEF TypeOK, Register, Goto, Known
<1> QED
  BY <1>1, <1>2, <1>3, <1>4, <1>5, <1>6, <1>7, <1>8 DEF Serve

\* The exchange spreads what is known.
LEMMA KnownByHub ==
  ASSUME TypeOK, NEW h \in Hub, NEW l \in Sat, NEW k \in Sat, Known(k)',
         Crash(h) \/ (\E to \in Hub : SyncKey(h, to)) \/ KeyStep(h, l)
  PROVE  Known(k)
<1>1. CASE Crash(h)
  BY <1>1 DEF TypeOK, Crash, Known
<1>2. ASSUME NEW to \in Hub, SyncKey(h, to) PROVE Known(k)
  BY <1>2 DEF TypeOK, SyncKey, Known, ends
<1>3. CASE HandleKey(h, l)
  BY <1>3, FileAssumption DEF TypeOK, HandleKey, Known, ends
<1>4. CASE Save(h, l)
  <2>1. Known(l)
    BY <1>4 DEF Save, Known
  <2>2. CASE k = l
    BY <2>1, <2>2
  <2>3. CASE k # l
    <3>1. \A g \in Hub : file'[g] = k => file[g] = k
      BY <1>4, <2>3, FileAssumption DEF TypeOK, Save, Written
    <3> QED
      BY <1>4, <3>1 DEF TypeOK, Save, Known, ends
  <2> QED
    BY <2>2, <2>3
<1>5. CASE SaveFails(h, l)
  BY <1>5 DEF TypeOK, SaveFails, Known, ends
<1>6. CASE Lose(h, l)
  BY <1>6 DEF TypeOK, Lose, Known, ends
<1> QED
  BY <1>1, <1>2, <1>3, <1>4, <1>5, <1>6 DEF KeyStep

\* A key becomes known in one way only: a hub without a file begins to
\* register it; and that is contended when another one is known.
LEMMA NewKey ==
  ASSUME TypeOK, HandlerInv, [Next]_vars,
         NEW k \in Sat, Known(k)', ~Known(k)
  PROVE  /\ at[k] = "load"
         /\ contended' \/ \A l \in Sat : Known(l)' => l = k
<1>1. ~UNCHANGED vars
  BY DEF vars, ends, files, Known
<1>2. PICK s \in Sat :
        SatStep(s) \/ Disconnect(s) \/ Serve(s) \/ RegisterFails(s)
  BY <1>1, Cases, KnownByHub
<1>3. Load(s) /\ k = s
  BY <1>2, KnownBySat
<1>4. \A l \in Sat : Known(l)' => Known(l) \/ l = k
  BY <1>2, <1>3, KnownBySat
<1>5. file[hub[s]] # s
  BY <1>2, <1>3 DEF HandlerInv, Load, Known
<1> QED
  BY <1>3, <1>4, <1>5 DEF Load, Missing

LEMMA IdentityStep ==
  ASSUME TypeOK, HandlerInv, OneIdentity, [Next]_vars
  PROVE  OneIdentity'
<1>1. \A k \in Sat : own[k] = "whole" => own'[k] = "whole"
  <2>1. ASSUME NEW s \in Sat, SatStep(s), NEW k \in Sat, own[k] = "whole"
        PROVE  own'[k] = "whole"
    BY <2>1, FileAssumption
    DEF TypeOK, SatStep, Start, Generate, GenerateFails, DialBare, Dial
  <2> QED
    BY <2>1, Cases
    DEF Disconnect, RegisterFails, Serve, Load, Admit, Reject, Truncate,
        Register, Crash, SyncKey, KeyStep, HandleKey, Save, SaveFails, Lose,
        vars, ends
<1>2. contended => contended'
  BY Cases
  DEF SatStep, Start, Generate, GenerateFails, DialBare, Dial, Disconnect,
      RegisterFails, Serve, Load, Admit, Reject, Truncate, Register, Crash,
      SyncKey, KeyStep, HandleKey, Save, SaveFails, Lose, vars
<1>3. ASSUME NEW k \in Sat, Known(k)' PROVE own'[k] = "whole"
  <2>1. CASE Known(k)
    BY <1>1, <2>1 DEF OneIdentity
  <2>2. CASE ~Known(k)
    BY <1>1, <1>3, <2>2, NewKey DEF HandlerInv
  <2> QED
    BY <2>1, <2>2
<1>4. ASSUME ~contended', NEW k \in Sat, NEW l \in Sat, Known(k)', Known(l)'
      PROVE  k = l
  <2>1. CASE Known(k) /\ Known(l)
    BY <1>2, <1>4, <2>1 DEF OneIdentity
  <2>2. CASE ~Known(k) \/ ~Known(l)
    BY <1>4, <2>2, NewKey
  <2> QED
    BY <2>1, <2>2
<1> QED
  BY <1>3, <1>4 DEF OneIdentity

-----------------------------------------------------------------------------
(* Whole files.                                                            *)

LEMMA WholeStep ==
  ASSUME TypeOK, HandlerInv, WholeUnlessCut, [Next]_vars
  PROVE  WholeUnlessCut'
<1> SUFFICES ASSUME NEW h \in Hub, file'[h] = Torn
             PROVE  Writing(h)' \/ h \in cut'
  BY DEF WholeUnlessCut
<1>0. file[h] = Torn => Writing(h) \/ h \in cut
  BY DEF WholeUnlessCut
<1>1. CASE UNCHANGED vars
  BY <1>0, <1>1 DEF vars, ends, files, Writing
<1>2. ASSUME NEW g, NEW k \in Sat, Written(g, k), g # h PROVE file[h] = Torn
  BY <1>2 DEF TypeOK, Written
<1>3. ASSUME NEW k \in Sat, Written(h, k) PROVE Writing(h)'
  BY <1>3, FileAssumption DEF TypeOK, Written, Writing
<1>4. ASSUME NEW s \in Sat, SatStep(s) \/ Disconnect(s) PROVE Writing(h)' \/ h \in cut'
  BY <1>0, <1>4
  DEF TypeOK, SatStep, Start, Generate, GenerateFails, DialBare, Dial,
      Disconnect, Leave, Goto, files, Writing
<1>5. ASSUME NEW s \in Sat, Serve(s) PROVE Writing(h)' \/ h \in cut'
  <2>1. CASE Load(s) \/ Admit(s)
    BY <1>0, <2>1 DEF TypeOK, Load, Admit, Goto, files, Writing
  <2>2. CASE Reject(s)
    BY <1>0, <2>2 DEF TypeOK, Reject, Leave, Goto, files, Writing
  <2>3. CASE Truncate(s)
    BY <1>0, <2>3 DEF TypeOK, Truncate, Goto, Writing
  <2>4. CASE Register(s)
    <3>1. CASE hub[s] = h
      BY <1>3, <2>4, <3>1 DEF Register
    <3>2. CASE hub[s] # h
      BY <1>0, <1>2, <2>4, <3>2 DEF TypeOK, Register, Goto, Writing
    <3> QED
      BY <3>1, <3>2
  <2> QED
    BY <1>5, <2>1, <2>2, <2>3, <2>4 DEF Serve
<1>6. ASSUME NEW s \in Sat, RegisterFails(s) PROVE Writing(h)' \/ h \in cut'
  BY <1>0, <1>6 DEF TypeOK, RegisterFails, Leave, Goto, files, Writing
<1>7. ASSUME NEW g \in Hub, Crash(g) PROVE Writing(h)' \/ h \in cut'
  <2>1. CASE g = h
    BY <1>0, <1>7, <2>1 DEF Crash
  <2>2. CASE g # h
    <3>1. cut \subseteq cut'
      BY <1>7 DEF Crash
    <3>2. Writing(h) => Writing(h)'
      BY <1>7, <2>2 DEF TypeOK, Crash, Writing
    <3> QED
      BY <1>0, <1>7, <3>1, <3>2 DEF Crash
  <2> QED
    BY <2>1, <2>2
<1>8. ASSUME NEW g \in Hub, NEW to \in Hub, SyncKey(g, to)
      PROVE  Writing(h)' \/ h \in cut'
  BY <1>0, <1>8 DEF SyncKey, Writing, ends
<1>9. ASSUME NEW g \in Hub, NEW k \in Sat, KeyStep(g, k)
      PROVE  Writing(h)' \/ h \in cut'
  <2>1. CASE HandleKey(g, k)
    BY <1>0, <2>1 DEF TypeOK, HandleKey, Writing, ends
  <2>2. CASE Save(g, k)
    <3>1. CASE g = h
      BY <1>3, <2>2, <3>1 DEF Save
    <3>2. CASE g # h
      BY <1>0, <1>2, <2>2, <3>2 DEF TypeOK, Save, Writing, ends
    <3> QED
      BY <3>1, <3>2
  <2>3. CASE SaveFails(g, k)
    BY <1>0, <2>3 DEF TypeOK, SaveFails, Writing, ends
  <2>4. CASE Lose(g, k)
    BY <1>0, <2>4 DEF Lose, Writing, ends
  <2> QED
    BY <1>9, <2>1, <2>2, <2>3, <2>4 DEF KeyStep
<1> QED
  BY <1>1, <1>4, <1>5, <1>6, <1>7, <1>8, <1>9, Cases

-----------------------------------------------------------------------------
(* The theorems.                                                           *)

\* The inductive invariant holds in every reachable state.
THEOREM Invariant == Spec => []IInv
<1>1. Init => IInv
  <2> SUFFICES ASSUME Init PROVE IInv
    OBVIOUS
  <2>1. TypeOK
    <3>1. /\ own \in [Sat -> {None, Torn, "whole"}] /\ at \in [Sat -> Place]
          /\ hub \in [Sat -> Hub \cup {None}]
          /\ file \in [Hub -> Sat \cup {None, Torn}]
      BY DEF Init, Place
    <3>2. faults \in 0 .. MaxFault
      BY SkewAssumption DEF Init
    <3> QED
      BY <3>1, <3>2 DEF Init, TypeOK
  <2>2. HandlerInv
    BY FileAssumption DEF Init, HandlerInv
  <2>3. OneIdentity
    BY FileAssumption DEF Init, OneIdentity, Known
  <2>4. WholeUnlessCut
    BY FileAssumption DEF Init, WholeUnlessCut
  <2> QED
    BY <2>1, <2>2, <2>3, <2>4 DEF IInv
<1>2. IInv /\ [Next]_vars => IInv'
  BY TypeStep, HandlerStep, IdentityStep, WholeStep DEF IInv
<1> QED
  BY <1>1, <1>2, PTL DEF Spec

\* Every variable keeps to its type.
THEOREM TypeCorrect == Spec => []TypeOK
<1>1. IInv => TypeOK
  BY DEF IInv
<1> QED
  BY <1>1, Invariant, PTL

\* Unless two satellites were both the first, one key stands for the ID at all
\* hubs and in all posts, however many satellites use it, and its owner keeps it.
THEOREM OneKey == Spec => []OneIdentity
<1>1. IInv => OneIdentity
  BY DEF IInv
<1> QED
  BY <1>1, Invariant, PTL

\* Once a hub has a key file, a token alone admits nobody, not even while the
\* file is rewritten or after a write of it has failed.
THEOREM TokenShutOut == Spec => []NoTakeover
<1>1. IInv => NoTakeover
  BY DEF IInv, HandlerInv, NoTakeover
<1> QED
  BY <1>1, Invariant, PTL

\* Saves that overlap, in any number, leave a whole key file when they are
\* done.
THEOREM FilesWhole == Spec => []WholeUnlessCut
<1>1. IInv => WholeUnlessCut
  BY DEF IInv
<1> QED
  BY <1>1, Invariant, PTL
=============================================================================
