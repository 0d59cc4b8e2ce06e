--------------------------- MODULE MCFirewallWire ---------------------------
(***************************************************************************)
(* Instances of FirewallWire for TLC.                                      *)
(***************************************************************************)
EXTENDS FirewallWire

Value(form, is, spelled) == [form |-> form, is |-> is, spelled |-> spelled]
Select(group, value) == [group |-> group, value |-> value]
Rule(name, policy, protocol, ports, source) ==
    [name |-> name, enable |-> TRUE, policy |-> policy, protocol |-> protocol,
     ports |-> ports, source |-> source, other |-> "as made"]

\* Terraform's rule, with and without its selectors.
Own == {[name |-> 1, enabled |-> TRUE, action |-> "deny", protocol |-> "tcp",
         ports |-> Modelled(p), source |-> Modelled(s), raw |-> {}] :
            p \in {Any, Value("ports", "web", "canonical")},
            s \in {Any, Value("iprange", "office", "loose")}}

\* Rules of the kinds DSM's interface makes.
ByHand == {
    Rule(2, "allow", "tcp", Select("service", Value("services", "ssh", "canonical")), Everything),
    Rule(3, "drop", "udp", Select("custom", Value("ports", "range", "colon")),
         Select("ipset", Value("ipset", "two", "spaced"))),
    Rule(4, "allow", "all", Everything, Select("geoip", Value("countries", "RU", "canonical")))}

\* And one of a protocol the provider does not model.
WithTunnel == ByHand \union {Rule(5, "allow", "gre", Everything, Everything)}
=============================================================================
