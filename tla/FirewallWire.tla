---------------------------- MODULE FirewallWire ----------------------------
(***************************************************************************)
(* The adapter-keyed profile of a live DSM under the writes of the         *)
(* provider and of DSM's interface: what they do to each other's rules.    *)
(* unreadable counts the entries of an adapter's list that are no rules.   *)
(* The guards of a write, its apply and its read-back are FirewallClient's.*)
(***************************************************************************)
EXTENDS FirewallLayout, FirewallRules
LOCAL INSTANCE FiniteSetsExt

CONSTANTS Adapters,    \* the network adapters
          Configured,  \* the rules Terraform may be configured to have
          HandMade     \* the rules somebody may make in DSM's own interface

VARIABLE stored
vars == <<stored>>

Init == stored = [a \in Adapters |-> [rules |-> <<>>, unreadable |-> 0]]

\* upsertFirewallRule: the fields nobody manages are those of the rule it replaces (the
\* first of the name).
Upsert(rules, r) ==
    LET named == {i \in DOMAIN rules : rules[i].name = r.name}
    IN  UpsertRule(rules, [r EXCEPT !.raw = IF named = {} THEN {} ELSE rules[Min(named)].raw])

\* refuseUnreadableRules: an entry that cannot be rendered would be lost.
Refused == \E a \in Adapters : stored[a].unreadable > 0

\* The whole profile, with rules on adapter a.
Write(a, rules) ==
    /\ ~ Refused
    /\ stored' = WithRules(stored, a, rules)

SetRule(a, r, priority) ==
    Write(a, ArrangeRules(Upsert(ParseRules(stored[a].rules), r),
                          [n \in {r.name} |-> priority]))

DeleteRule(a, n) ==
    /\ n \in NamesOf(stored[a].rules)
    /\ Write(a, WithoutRule(ParseRules(stored[a].rules), n))

\* SetFirewall sends the rules as they were read.
SetPolicy(a) == Write(a, ParseRules(stored[a].rules))

\* DSM's own interface adds a rule, or something else keeps an entry there that is none.
InterfaceAdds(a, w) ==
    /\ w.name \notin NamesOf(stored[a].rules)
    /\ stored' = [stored EXCEPT ![a].rules = Append(@, w)]
AnEntryNobodyReads(a) ==
    /\ stored[a].unreadable = 0
    /\ stored' = [stored EXCEPT ![a].unreadable = 1]

Names == {r.name : r \in Configured}

Next ==
    \E a \in Adapters :
        \/ \E r \in Configured, priority \in {0, 1} : SetRule(a, r, priority)
        \/ \E n \in Names : DeleteRule(a, n)
        \/ SetPolicy(a)
        \/ \E w \in HandMade : InterfaceAdds(a, w)
        \/ AnEntryNobodyReads(a)

Spec == Init /\ [][Next]_vars

----------------------------------------------------------------------------
(***************************************************************************)
(* What a profile's writes do to the rules of others.                      *)
(***************************************************************************)
\* The rules of hand-made names in the order in which DSM evaluates them.
Others(a) == SelectSeq(stored[a].rules, LAMBDA w : w.name \notin Names)

\* No write of the provider changes what a rule that is not Terraform's does, nor the
\* order of such rules (firewall_rule_wire.go:353-355: of a protocol the provider does
\* not model, "the raw object is what gets written back, so nothing is lost").
OthersKeepTheirMeaning ==
    [][(\E a \in Adapters : \/ \E r \in Configured, priority \in {0, 1} : SetRule(a, r, priority)
                            \/ \E n \in Names : DeleteRule(a, n)
                            \/ SetPolicy(a)) =>
            \A a \in Adapters :
                /\ Len(Others(a)') = Len(Others(a))
                /\ \A i \in DOMAIN Others(a) : Meaning(Others(a)'[i]) = Meaning(Others(a)[i])]_vars
=============================================================================
