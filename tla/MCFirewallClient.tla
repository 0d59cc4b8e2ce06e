-------------------------- MODULE MCFirewallClient --------------------------
(***************************************************************************)
(* Instances of FirewallClient for TLC: the operations, the NAS they meet  *)
(* and what DSM's interface may save meanwhile.                            *)
(***************************************************************************)
EXTENDS FirewallClient, TLC

\* Two profiles, two adapters.
Prof1 == "default"
Prof2 == "office"
GlobalKey == "global"
Eth0  == "eth0"

Rule(n, e) == [name |-> n, effect |-> e]

SetRule(p, a, n, e, prio) ==
    [op |-> "set", profile |-> p, adapter |-> a, rule |-> Rule(n, e),
     priority |-> prio, lockout |-> FALSE]

DeleteRule(p, a, n) ==
    [op |-> "delete", profile |-> p, adapter |-> a, rule |-> Rule(n, "miss"),
     empty |-> FALSE, lockout |-> FALSE]

SetFirewall(p, enabled, policy) ==
    [op |-> "configure", profile |-> p, enabled |-> enabled, policy |-> policy,
     adapter |-> GlobalKey, empty |-> FALSE, lockout |-> FALSE]

Profile(rules, policy) == [rules |-> rules, policy |-> policy]

Nas(enabled, active, stored) ==
    [settings |-> [enabled |-> enabled, active |-> active],
     stored |-> stored, live |-> stored[active]]

\* Rules 7 and 8 of eth0 were made in DSM's interface, rule 1 of eth0 by an earlier
\* apply; the session is admitted by global rule 1, and by nothing else at first.
TwoProfiles == {Prof1, Prof2}
ScenarioNas ==
    Nas(TRUE, Prof1,
        Prof1 :> Profile(GlobalKey :> <<Rule(1, "allow")>> @@
                         Eth0 :> <<Rule(7, "miss"), Rule(1, "miss"), Rule(8, "miss")>>,
                         Eth0 :> "drop" @@ "eth1" :> "drop") @@
        Prof2 :> Profile(Eth0 :> <<Rule(6, "deny")>>, Eth0 :> "drop" @@ "eth1" :> "drop"))

\* Rules 2 and 3 are created, 1 is rewritten further down, 8 is deleted; 3 asks for
\* a position the list is too short to hold.
LayoutRequests ==
    {SetRule(Prof1, Eth0, 1, "miss", 2), SetRule(Prof1, Eth0, 2, "miss", 0),
     SetRule(Prof1, Eth0, 3, "allow", 9), SetRule(Prof1, Eth0, 4, "miss", 2),
     DeleteRule(Prof1, Eth0, 8)}
\* DSM's interface leaves rule 8 alone in the list, so that deleting it would empty
\* the firewall; the session needs no rule, so only the rule count is in the way.
InterfaceWrites == {<<Prof1, Profile(Eth0 :> <<Rule(8, "miss")>>, Eth0 :> "allow")>>}

\* Rules of both kinds, policies, the switch and the active profile change together.
GuardRequests ==
    {SetRule(Prof1, GlobalKey, 2, "deny", 0), DeleteRule(Prof1, GlobalKey, 1),
     SetRule(Prof1, Eth0, 3, "allow", 0), SetRule(Prof2, Eth0, 4, "allow", 0),
     SetFirewall(Prof2, TRUE, "eth1" :> "allow"), SetFirewall(Prof1, FALSE, <<>>),
     SetFirewall(Prof1, TRUE, <<>>)}

\* The two configurations one run checks; the interface and the retry belong to the
\* first.
Scenarios ==
    {[requests |-> LayoutRequests, retries |-> 1, foreign |-> 1],
     [requests |-> GuardRequests, retries |-> 0, foreign |-> 0]}
ScenarioRequests == LayoutRequests \union GuardRequests

ScenarioInit ==
    \E s \in Scenarios :
        /\ dsm = InitDsm
        /\ order = [k \in Keys |-> <<>>]
        /\ mu = NoOne
        /\ job = [w \in Workers |-> Idle]
        /\ todo = s.requests
        /\ budget = [retries |-> s.retries, restarts |-> 0, foreign |-> s.foreign]
        /\ promise = <<>>

ScenarioSpec == ScenarioInit /\ [][Next]_vars /\ Fairness

\* Two profiles, one of them standing by, and rules of both; every call can go
\* wrong in every way.
FaultyNas ==
    Nas(TRUE, Prof1,
        Prof1 :> Profile(Eth0 :> <<Rule(1, "allow")>>, Eth0 :> "drop") @@
        Prof2 :> Profile(Eth0 :> <<>>, Eth0 :> "drop"))
FaultyRequests ==
    {SetRule(Prof1, Eth0, 2, "allow", 0), DeleteRule(Prof1, Eth0, 1),
     SetRule(Prof2, Eth0, 3, "allow", -1), DeleteRule(Prof2, Eth0, 3),
     SetFirewall(Prof2, TRUE, Eth0 :> "allow")}

----------------------------------------------------------------------------
(***************************************************************************)
(* The instance on which the code and its own comments part ways.          *)
(***************************************************************************)
OneProfile == {Prof1}
LastDeleteNas ==
    Nas(TRUE, Prof1,
        Prof1 :> Profile(Eth0 :> <<Rule(7, "miss"), Rule(8, "miss")>>, Eth0 :> "allow"))
LastDeleteRequests == {DeleteRule(Prof1, Eth0, 7)}
=============================================================================
