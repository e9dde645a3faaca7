----------------------------- MODULE MCAgentJobs -----------------------------
(* A request or task of every kind for one goroutine, a few for the other.   *)
EXTENDS AgentJobs

CONSTANTS j1, j2

Times   == [net |-> 1, vmware |-> 2]
Limits  == [net |-> 2, vmware |-> 3]
Machines == <<"v1", "v2", "v3">>

Seen(s, n) == [stem |-> s, tail |-> n]
Hosts == {<<>>, <<Seen("a", <<>>), Seen("a", <<>>), Seen("b", <<>>), Seen("a", <<>>)>>,
          <<Seen("a", <<2>>), Seen("a", <<>>), Seen("a", <<>>)>>}

Rule(r, vs) == [required |-> r, passes |-> vs]
Arg(p, t) == [param |-> p, text |-> t]
Exec == [type |-> "", executable |-> TRUE, timeout |-> 2, maxBytes |-> 0,
         paths |-> {}, rule |-> [x |-> Rule(TRUE, {"ok"}), y |-> Rule(FALSE, {"ok"})],
         args |-> <<Arg(FALSE, "-n"), Arg(TRUE, "x"), Arg(TRUE, "y")>>]
Commands == [exec |-> Exec, none |-> [Exec EXCEPT !.executable = FALSE],
             read |-> [Exec EXCEPT !.type = "file_read", !.paths = {"ok"}]]

Msg(k, m, d, p) == [kind |-> k, method |-> m, decodes |-> d, params |-> p]
Req(m, p) == Msg("request", m, TRUE, p)
Noise == {Msg("garbage", "", FALSE, <<>>), Msg("oldVersion", "ping", FALSE, <<>>),
          Msg("request", "sync_schedules", FALSE, <<>>), Req("update_failover_urls", <<>>),
          Req("nonsense", <<>>), Msg("request", "ping", FALSE, <<>>)}

Pings == {Req("ping", [host |-> h, count |-> c, timeout |-> t]) :
            h \in {" ", "bad", "ok"}, c \in {0, 10, 11}, t \in {0, 2, 3}}
Traces == {Req("traceroute", [host |-> "ok", maxHops |-> n, timeout |-> t]) :
             n \in {-1, 64, 65}, t \in {1, 3}}
Walk == [target |-> "ok", version |-> "v3", community |-> "", oid |-> " ",
         timeout |-> 0, secName |-> "ok", secLevel |-> "", authProtocol |-> "SHA256",
         authPassphrase |-> "", privProtocol |-> "", privPassphrase |-> "",
         contextName |-> "", engineID |-> ""]
Walks == {Req("snmpwalk", [Walk EXCEPT !.secLevel = l, !.authPassphrase = a,
                                       !.privPassphrase = p]) :
            l \in {"", "noAuthNoPriv", "authnopriv", "authNoPriv", "authpriv",
                   "authPriv", "bad"},
            a \in {"", " ", "ok"}, p \in {"", " ", "ok"}}
Gets == {Req("snmpget", [Walk EXCEPT !.version = v, !.community = c, !.timeout = 2]) :
           v \in {"", "v1", "2c", "bad"}, c \in {"", "ok", "bad"}}

Host == [host |-> "ok", username |-> "ok", password |-> "ok", timeout |-> 0,
         vmName |-> "", uuid |-> ""]
Discovers == {Req("discover", [Host EXCEPT !.timeout = t]) : t \in {0, 3, 4}}
Hardwares == {Req("hardware", [Host EXCEPT !.vmName = n, !.uuid = u]) :
                n \in {"", "-x", "web", "vm-1"}, u \in {" ", "ok", "bad"}}
Customs == {Req("exec", p) : p \in {<<>>, [x |-> "ok"], [x |-> "ok", y |-> "bad"]}}
           \cup {Req("none", [x |-> "ok"])}
           \cup {Req("read", p) : p \in {<<>>, [file |-> "ok"], [path |-> "no"]}}

All == Noise \cup Pings \cup Traces \cup Walks \cup Gets \cup Discovers
       \cup Hardwares \cup Customs
Some == {Req("exec", [x |-> "ok"]), Req("hardware", [Host EXCEPT !.vmName = "web"])}
Inputs == [j \in Job |-> IF j = j1 THEN All ELSE Some]
=============================================================================
