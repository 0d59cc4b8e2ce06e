---------------------------- MODULE FirewallStore ---------------------------
(***************************************************************************)
(* What the firewall resources promise about the profiles DSM stores: each *)
(* operation changes the one thing it is about, in one step, and leaves    *)
(* every other rule, policy and profile exactly as it was.                 *)
(***************************************************************************)
EXTENDS FirewallGuard

CONSTANTS Profiles, Adapters, Requests, InitDsm

VARIABLES
    stored,    \* profile name -> profile
    settings   \* the switch and the active profile

Init == stored = InitDsm.stored /\ settings = InitDsm.settings

RuleSet(profile, adapter) == RulesIn(RulesOn(profile, adapter))

\* The rule set of one adapter of one profile becomes rules, each name once.
RulesBecome(name, adapter, rules) ==
    /\ \A p \in Profiles : stored'[p].policy = stored[p].policy
    /\ \A p \in Profiles, a \in Adapters : <<p, a>> # <<name, adapter>> =>
          RulesOn(stored'[p], a) = RulesOn(stored[p], a)
    /\ RuleSet(stored'[name], adapter) = rules
    /\ IsRuleList(RulesOn(stored'[name], adapter))

OtherRules(req) ==
    {r \in RuleSet(stored[req.profile], req.adapter) : r.name # req.rule.name}

PutRule(req) ==
    /\ req.op = "set"
    /\ RulesBecome(req.profile, req.adapter, OtherRules(req) \union {req.rule})
    /\ UNCHANGED settings

RemoveRule(req) ==
    /\ req.op = "delete"
    /\ RulesBecome(req.profile, req.adapter, OtherRules(req))
    /\ UNCHANGED settings

\* Adapters whose policy the configuration does not set keep theirs.
PutPolicies(req) ==
    /\ req.op = "configure"
    /\ LET policy == stored[req.profile].policy
       IN  stored' = [stored EXCEPT ![req.profile].policy =
                        [a \in DOMAIN policy \union DOMAIN req.policy |->
                            IF a \in DOMAIN req.policy THEN req.policy[a] ELSE policy[a]]]
    /\ UNCHANGED settings

ThrowSwitch(req) ==
    /\ req.op = "configure"
    /\ settings' = [enabled |-> req.enabled, active |-> req.profile]
    /\ UNCHANGED stored

Next == \E req \in Requests :
    PutRule(req) \/ RemoveRule(req) \/ PutPolicies(req) \/ ThrowSwitch(req)

Spec == Init /\ [][Next]_<<stored, settings>>
=============================================================================
