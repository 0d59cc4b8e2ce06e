---------------------------- MODULE MCWholeLists ----------------------------
(***************************************************************************)
(* Instances of WholeLists for TLC.                                        *)
(***************************************************************************)
EXTENDS WholeLists, TLC

Set(list, name, value) ==
    [op |-> "set", list |-> list, name |-> name, fields |-> name :> value]

Remove(list, name) == [op |-> "remove", list |-> list, name |-> name]

Unlimit(list, name) == [op |-> "unlimit", list |-> list, name |-> name]

Clock(list, fields, want) ==
    [op |-> "clock", list |-> list, name |-> "clock", fields |-> fields, want |-> want]

Ntp(mode) == "timezone" :> "Amman" @@ "enable_ntp" :> mode @@ "server" :> "pool"

\* "office" and "lab" are clocks whose mode DSM spells in two ways.
TheLists ==
    "permissions" :> ("alice" :> "read_only" @@ "bob" :> "no_access") @@
    "quotas" :> ("alice" :> 5) @@ "office" :> Ntp("yes") @@ "lab" :> Ntp("#1")

\* Terraform already manages them, but for the clock of the office.
Managed == {<<"permissions", "alice">>, <<"permissions", "bob">>, <<"quotas", "alice">>,
            <<"lab", "clock">>}

\* Two permissions on one share, a quota of the same share, and two clocks.
MixedRequests ==
    {Set("permissions", "alice", "read_write"), Remove("permissions", "bob"),
     Unlimit("quotas", "alice"),
     Clock("office", "timezone" :> "Moscow", "off"), Clock("lab", "server" :> "time", "keep")}
=============================================================================
