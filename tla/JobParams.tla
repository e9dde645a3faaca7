------------------------------ MODULE JobParams ------------------------------
(***************************************************************************)
(* The parameters of an agent's built-in jobs (common/metrics.go): for     *)
(* each kind, the values Validate leaves in the structure (Normal) and     *)
(* whether it returns no error (Accepts, of the normal form, and InTime,   *)
(* which every kind has), and the arguments BuildCLIArgs passes to the     *)
(* net-snmp commands.                                                      *)
(*                                                                         *)
(* A free text is "", blank (" "), a text its regular expression accepts,  *)
(* or "bad".  Values with a meaning of their own are spelt as in the code. *)
(***************************************************************************)
EXTENDS Integers

CONSTANTS
  Default,  \* seconds a job of each family gets when it asks for none
  Limit     \* the most it may ask for

Family == {"net", "vmware"}

ASSUME TimesAssumption ==
  /\ Default \in [Family -> Nat \ {0}] /\ Limit \in [Family -> Nat]
  /\ \A f \in Family : Default[f] <= Limit[f]

Trim(x)       == IF x = " " THEN "" ELSE x
OrElse(x, d)  == IF x = "" THEN d ELSE x
Proper(x)     == x \notin {"", " ", "bad"}
Positive(n, d) == IF n <= 0 THEN d ELSE n
Seconds(n, f) == Positive(n, Default[f])

\* The time-out a job asks for is not above the limit of its family.
InTime(p, f)  == Seconds(p.timeout, f) <= Limit[f]

-----------------------------------------------------------------------------
(* PingParams and TracerouteParams                                         *)

PingNormal(p) ==
  [p EXCEPT !.host = Trim(@), !.count = Positive(@, 4),
            !.timeout = Seconds(@, "net")]
PingAccepts(n) ==
  Proper(n.host) /\ n.count <= 10

TracerouteNormal(p) ==
  [p EXCEPT !.host = Trim(@), !.maxHops = Positive(@, 30),
            !.timeout = Seconds(@, "net")]
TracerouteAccepts(n) ==
  Proper(n.host) /\ n.maxHops <= 64

-----------------------------------------------------------------------------
(* SNMPParams                                                              *)

SNMPParams ==
  [target : STRING, version : STRING, community : STRING, oid : STRING,
   timeout : Int, secName : STRING, secLevel : STRING, authProtocol : STRING,
   authPassphrase : STRING, privProtocol : STRING, privPassphrase : STRING,
   contextName : STRING, engineID : STRING]

Levels    == {"noAuthNoPriv", "authNoPriv", "authPriv"}
AuthNames == {"MD5", "SHA", "SHA-224", "SHA-256", "SHA-384", "SHA-512"}
PrivNames == {"DES", "AES", "AES-128", "AES-192", "AES-256"}

\* What each of these may be called instead, and what an empty one stands for.
VersionOf(x) ==
  CASE x \in {"", "v2c"} -> "2c" [] x = "v1" -> "1" [] x = "v3" -> "3" [] OTHER -> x
LevelOf(x) ==
  CASE x = "noauthnopriv" -> "noAuthNoPriv" [] x = "authnopriv" -> "authNoPriv"
    [] x = "authpriv" -> "authPriv" [] OTHER -> x
AuthOf(x) ==
  CASE x \in {"", "SHA1"} -> "SHA" [] x = "SHA256" -> "SHA-256"
    [] x = "SHA384" -> "SHA-384" [] x = "SHA512" -> "SHA-512" [] OTHER -> x
PrivOf(x) ==
  CASE x = "" -> "AES" [] x = "AES128" -> "AES-128" [] x = "AES192" -> "AES-192"
    [] x = "AES256" -> "AES-256" [] OTHER -> x

Authenticates(level) == level \in {"authNoPriv", "authPriv"}
Encrypts(level)      == level = "authPriv"

\* The level the passphrases call for when none is given.
ImpliedLevel(s) ==
  CASE s.privPassphrase # "" -> "authPriv"
    [] s.privPassphrase = "" /\ s.authPassphrase # "" -> "authNoPriv"
    [] OTHER -> "noAuthNoPriv"

\* Fault: a level that is compared in lower case but kept as it was typed.
LevelAsTyped(s) == OrElse(Trim(s.secLevel), ImpliedLevel(s))

Level(s) == LevelOf(OrElse(Trim(s.secLevel), ImpliedLevel(s)))

SNMPNormal(s) ==
  LET v == VersionOf(Trim(s.version))
      t == [s EXCEPT !.target = Trim(@), !.version = v,
                     !.oid = OrElse(Trim(@), ".1.3.6"),
                     !.timeout = Seconds(@, "net")]
      l == Level(s)
  IN IF v # "3"
     THEN [t EXCEPT !.community = OrElse(Trim(@), "public")]
     ELSE [t EXCEPT !.secName = Trim(@), !.secLevel = l,
                    !.authProtocol = IF Authenticates(l)
                                     THEN AuthOf(Trim(@)) ELSE @,
                    !.privProtocol = IF Encrypts(l)
                                     THEN PrivOf(Trim(@)) ELSE @,
                    !.contextName = Trim(@), !.engineID = Trim(@)]

SNMPAccepts(n) ==
  /\ Proper(n.target) /\ n.version \in {"1", "2c", "3"}
  /\ n.version # "3" => Proper(n.community)
  /\ n.version = "3" =>
       /\ Proper(n.secName) /\ LevelOf(n.secLevel) \in Levels
       /\ Authenticates(n.secLevel) =>
            n.authProtocol \in AuthNames /\ Proper(n.authPassphrase)
       /\ Encrypts(n.secLevel) =>
            n.privProtocol \in PrivNames /\ Proper(n.privPassphrase)
       /\ n.contextName # "bad" /\ n.engineID # "bad"
  /\ n.oid # "bad"

Flag(f, x) == IF x = "" THEN {} ELSE {<<f, x>>}

BuildCLIArgs(n) ==
  {<<"-t", n.timeout>>, <<"target", n.target>>, <<"oid", n.oid>>}
  \cup IF n.version # "3"
       THEN {<<"-v", OrElse(n.version, "2c")>>,
             <<"-c", OrElse(n.community, "public")>>}
       ELSE {<<"-v", "3">>, <<"-u", n.secName>>}
            \cup Flag("-l", n.secLevel) \cup Flag("-n", n.contextName)
            \cup Flag("-e", n.engineID)
            \cup (IF Authenticates(n.secLevel)
                  THEN Flag("-a", n.authProtocol) \cup Flag("-A", n.authPassphrase)
                  ELSE {})
            \cup (IF Encrypts(n.secLevel)
                  THEN Flag("-x", n.privProtocol) \cup Flag("-X", n.privPassphrase)
                  ELSE {})

-----------------------------------------------------------------------------
(* VMwareDiscoverParams and VMwareHardwareParams                           *)

VMwareNormal(v) ==
  [v EXCEPT !.host = Trim(@), !.username = Trim(@), !.vmName = Trim(@),
            !.uuid = Trim(@), !.timeout = Seconds(@, "vmware")]

DiscoverAccepts(n) ==
  /\ Proper(n.host) /\ n.username # "" /\ n.password # ""

\* A name that begins with a dash would be an option of govc.
HardwareAccepts(n) ==
  /\ DiscoverAccepts(n)
  /\ n.vmName # "" \/ n.uuid # ""
  /\ n.vmName # "-x" /\ n.uuid # "bad"
=============================================================================
