--------------------------- MODULE FirewallRules ---------------------------
(***************************************************************************)
(* A firewall profile as DSM's API answers with it and takes it, as the    *)
(* client reads it and as it writes it back (client/firewall_rule_wire.go  *)
(* and the second half of client/firewall.go).  Every write sends a whole  *)
(* profile, so a rule nobody touched is parsed and rendered by every one.  *)
(*                                                                         *)
(* There are two encodings of a rule: the adapter-keyed one, which DSM's   *)
(* API speaks, and the one Synology's library keeps on disk.  Both are a   *)
(* record here, [name, enable, policy, protocol, ports, source, other]:    *)
(* keys, numbers and words that mean the same are the same value.  other   *)
(* is all the client does not manage, port_direction and log among it,     *)
(* which DSM answers with for every rule.  ports and source are selectors, *)
(* [group, value]; a value is [form, is, spelled].  What spelled is for:   *)
(*   "colon"   the range of ports is 20000:20010 and not 20000-20010       *)
(*   "spaced"  the addresses have blanks between them                      *)
(*   "loose"   an address or network is not in its canonical form          *)
(***************************************************************************)

Protocols == {"tcp", "udp", "icmp", "all"}
PoliciesOnTheWire == {"allow", "drop", "none", "partial"}

Any == [form |-> "any", is |-> "any", spelled |-> "canonical"]
Everything == [group |-> "all", value |-> Any]

Canonical(v) == [v EXCEPT !.spelled = "canonical"]

\* What is read of a selector, and whether the client knows what it means.
Modelled(v) == [modelled |-> TRUE, value |-> v]
Unmodelled == [modelled |-> FALSE, value |-> Any]

----------------------------------------------------------------------------
(***************************************************************************)
(* From the wire.                                                          *)
(***************************************************************************)
ProtocolFromWire(p) == IF p \in Protocols THEN p ELSE "all"

\* A word that is no policy leaves the default; "none" and "partial" are no allow.
ActionFromWire(p) == IF p \in PoliciesOnTheWire \ {"allow"} THEN "deny" ELSE "allow"

\* An empty list of custom ports is every port.
ParsePorts(s) ==
    IF s.group = "all" \/ (s.group = "custom" /\ s.value.form = "any") THEN Modelled(Any)
    ELSE IF s.group = "custom" /\ s.value.form = "ports" THEN Modelled(Canonical(s.value))
    ELSE Unmodelled

\* Lists are split at the commas and trimmed; a range or a network is taken verbatim, and
\* a network with blanks around it is none.
ParseSource(s) ==
    IF s.group = "all" THEN Modelled(Any)
    ELSE IF s.group \in {"ip", "ipset"} /\ s.value.form \in {"ip", "ipset"}
         THEN Modelled(IF s.value.spelled = "spaced" THEN Canonical(s.value) ELSE s.value)
    ELSE IF \/ s.group = "iprange" /\ s.value.form = "iprange"
            \/ s.group = "netmask" /\ s.value.form = "netmask" /\ s.value.spelled # "spaced"
         THEN Modelled(s.value)
    ELSE Unmodelled

\* On disk the lists are lists.  A set of no addresses is read like no set at all.
ParsePortsOnDisk(s) ==
    IF s.group = "all" THEN Modelled(Any)
    ELSE IF s.group = "custom" /\ s.value.form \in {"any", "ports"} THEN Modelled(s.value)
    ELSE Unmodelled

ParseSourceOnDisk(s) ==
    IF s.group = "all" THEN Modelled(Any)
    ELSE IF \/ s.group = "ipset" /\ s.value.form \in {"any", "ip", "ipset"}
            \/ s.group \in {"ip", "iprange", "netmask"} /\ s.value.form = s.group
         THEN Modelled(s.value)
    ELSE Unmodelled

\* raw is the set of the one object the rule was read from; empty for a new rule.
Parsed(w, ports, source) ==
    [name |-> w.name, enabled |-> w.enable, action |-> ActionFromWire(w.policy),
     protocol |-> ProtocolFromWire(w.protocol), ports |-> ports, source |-> source,
     raw |-> {w}]

ParseRule(w) == Parsed(w, ParsePorts(w.ports), ParseSource(w.source))
ParseRuleOnDisk(w) == Parsed(w, ParsePortsOnDisk(w.ports), ParseSourceOnDisk(w.source))

----------------------------------------------------------------------------
(***************************************************************************)
(* To the wire.                                                            *)
(***************************************************************************)
PolicyToWire(action) == IF action = "deny" THEN "drop" ELSE "allow"

PortsToWire(v) == IF v.form = "any" THEN Everything ELSE [group |-> "custom", value |-> v]

\* Blanks are trimmed; only a range is rendered from the addresses it was parsed into.
SourceToWire(v) ==
    IF v.form = "any" THEN Everything
    ELSE [group |-> v.form,
          value |-> IF v.form = "iprange" \/ v.spelled = "spaced" THEN Canonical(v) ELSE v]

\* On disk every source is.
SourceToWireOnDisk(v) ==
    IF v.form = "any" THEN Everything ELSE [group |-> v.form, value |-> Canonical(v)]

\* What a rule that DSM has never seen starts from.
Blank == [name |-> 0, enable |-> TRUE, policy |-> "allow", protocol |-> "all",
          ports |-> Everything, source |-> Everything, other |-> "defaults"]

From(r) == IF r.raw = {} THEN Blank ELSE CHOOSE w \in r.raw : TRUE

RenderedAs(r, ports, source) ==
    [From(r) EXCEPT !.name = r.name, !.enable = r.enabled, !.policy = PolicyToWire(r.action),
                    !.protocol = r.protocol, !.ports = ports, !.source = source]

\* portsUnchanged, sourcesUnchanged: the object DSM sent already says it.
PortsUnchanged(r) == \E w \in r.raw : ParsePorts(w.ports) = r.ports
SourceUnchanged(r) == \E w \in r.raw : ParseSource(w.source) = r.source

RenderRule(r) ==
    RenderedAs(r, IF r.ports.modelled /\ ~ PortsUnchanged(r) THEN PortsToWire(r.ports.value)
                ELSE From(r).ports,
                IF r.source.modelled /\ ~ SourceUnchanged(r) THEN SourceToWire(r.source.value)
                ELSE From(r).source)

RenderRuleOnDisk(r) ==
    RenderedAs(r, IF r.ports.modelled THEN PortsToWire(r.ports.value) ELSE From(r).ports,
                IF r.source.modelled THEN SourceToWireOnDisk(r.source.value)
                ELSE From(r).source)

----------------------------------------------------------------------------
(***************************************************************************)
(* firewallRuleMismatches: what a rule that was read back disagrees on     *)
(* with the rule that was written.  Selectors are compared in the encoding *)
(* on disk, in whichever they travelled.                                   *)
(***************************************************************************)
Mismatches(want, got) ==
    {f \in {"enabled", "action", "protocol"} : want[f] # got[f]}
    \union {f \in {"ports"} : /\ want.ports.modelled /\ got.ports.modelled
                              /\ PortsToWire(want.ports.value) # PortsToWire(got.ports.value)}
    \union {f \in {"source"} : /\ want.source.modelled /\ got.source.modelled
                               /\ SourceToWireOnDisk(want.source.value)
                                    # SourceToWireOnDisk(got.source.value)}

----------------------------------------------------------------------------
(***************************************************************************)
(* The two shapes of a profile.  An answer has blocks (a function from the *)
(* adapters among its keys) and values under the two names of the shape on *)
(* disk: "absent", "empty", "map" when the value looks like such a map, or *)
(* "block" when it looks like one adapter's block, as a DSM 7 repeats it.  *)
(***************************************************************************)
OnDisk(answer) == answer.rules = "map" \/ answer.policies = "map"

ShapeOf(answer) ==
    IF ~ OnDisk(answer) /\ answer.blocks # {} THEN "adapter-keyed"
    ELSE IF answer.rules # "absent" \/ answer.policies # "absent" THEN "rules map"
    ELSE "unrecognised"

\* toWire: adapters are those the profile has rules or policies for after the edit, the
\* ones that were read among them; whatever else DSM sent rides along.
WriteProfile(answer, withRules, withPolicies) ==
    IF ShapeOf(answer) = "adapter-keyed"
    THEN [answer EXCEPT !.blocks = @ \union withRules \union withPolicies]
    ELSE [answer EXCEPT !.rules = IF withRules = {} THEN "empty" ELSE "map",
                        !.policies = IF withPolicies = {} THEN "empty" ELSE "map"]

(***************************************************************************)
(* The rules of a whole profile: [rules, unreadable] for every adapter.    *)
(***************************************************************************)
ParseRules(list) == [i \in DOMAIN list |-> ParseRule(list[i])]
RenderRules(rules) == [i \in DOMAIN rules |-> RenderRule(rules[i])]

\* The profile that is sent, with rules on adapter a: every adapter's are rendered.
WithRules(profile, a, rules) ==
    [b \in DOMAIN profile |->
        [profile[b] EXCEPT !.rules = RenderRules(IF b = a THEN rules ELSE ParseRules(@))]]

----------------------------------------------------------------------------
(***************************************************************************)
(* What a rule does: how it is spelled does not matter, nor whether one    *)
(* address is stored as an address or as a set.                            *)
(***************************************************************************)
Selects(s) ==
    [what |-> IF s.group \in {"ip", "ipset"} THEN "addresses" ELSE s.group, is |-> s.value.is]

Meaning(w) ==
    [enable |-> w.enable, policy |-> w.policy, protocol |-> w.protocol,
     ports |-> Selects(w.ports), source |-> Selects(w.source), other |-> w.other]
=============================================================================
