---------------------------- MODULE FirewallGuard ---------------------------
(***************************************************************************)
(* The lockout replay (client/firewall_lockout.go and the guards of        *)
(* client/firewall.go and client/firewall_settings.go).                    *)
(*                                                                         *)
(* A profile is [rules, policy]: two functions whose domains are the       *)
(* adapters the profile mentions.  A replay answers "allow", "deny" or     *)
(* "opaque" (indeterminate); a guard answers "pass", "warn" or "refuse".   *)
(***************************************************************************)
EXTENDS FirewallLayout

CONSTANTS
    Global,       \* the adapter key of the rules that apply to every adapter
    SessionKnown  \* are the session's own source address and port known?

ASSUME SessionKnownAssumption == SessionKnown \in BOOLEAN

Policies == {"allow", "drop", "none"}

\* First match wins.  A disabled or non-matching rule is skipped; a rule that
\* cannot be replayed stops the replay.
EvaluateFirewall(rules, default) ==
    LET hits == {i \in DOMAIN rules : rules[i].effect # "miss"}
        first == CHOOSE i \in hits : \A j \in hits : i <= j
    IN  IF hits = {} THEN default ELSE rules[first].effect

RulesOn(profile, adapter) ==
    IF adapter \in DOMAIN profile.rules THEN profile.rules[adapter] ELSE <<>>

\* The global table, then the adapter's own, then the adapter's policy; an
\* adapter with no recorded policy is taken to drop.
EvaluateAccess(profile, adapter) ==
    LET open == /\ adapter \in DOMAIN profile.policy
                /\ profile.policy[adapter] = "allow"
    IN  EvaluateFirewall(RulesOn(profile, Global) \o RulesOn(profile, adapter),
                         IF open THEN "allow" ELSE "deny")

PhysicalAdapters(profile) ==
    (DOMAIN profile.rules \union DOMAIN profile.policy) \ {Global}

NoRules(profile) == \A a \in DOMAIN profile.rules : profile.rules[a] = <<>>

\* Mutant: a change is refused only if it closes every adapter.
CompareAll(before, after, adapters) ==
    IF \A a \in adapters : EvaluateAccess(before, a) = "allow" /\ EvaluateAccess(after, a) = "deny"
    THEN "refuse" ELSE "pass"

\* Only a path that works today and would not afterwards is a lockout.
CompareReachability(before, after, adapters) ==
    LET was(a)  == EvaluateAccess(before, a)
        will(a) == EvaluateAccess(after, a)
    IN  IF \E a \in adapters : was(a) = "allow" /\ will(a) = "deny" THEN "refuse"
        ELSE IF \E a \in adapters : "opaque" \in {was(a), will(a)} THEN "warn"
        ELSE "pass"

\* When the firewall is being switched on there is no before: refused only when
\* every adapter would deny the session.
ProvesLockout(after, adapters) ==
    LET verdicts == {EvaluateAccess(after, a) : a \in adapters}
    IN  IF "allow" \in verdicts THEN "pass"
        ELSE IF "opaque" \in verdicts THEN "warn"
        ELSE "refuse"

\* guardFirewallLockout, for a write of one rule into the profile named name.
GuardRuleWrite(before, after, settings, name, allowLockout) ==
    IF allowLockout \/ ~settings.enabled \/ settings.active # name THEN "pass"
    ELSE IF ~SessionKnown \/ PhysicalAdapters(after) = {} THEN "warn"
    ELSE CompareReachability(before, after, PhysicalAdapters(after))

\* Mutant: only switching the firewall on is guarded.
GuardSwitchingOn(inForce, after, settings, enable, allowLockout) ==
    IF allowLockout \/ ~enable \/ settings.enabled THEN "pass"
    ELSE ProvesLockout(after, PhysicalAdapters(after))

\* guardFirewallSettings.  inForce is the profile enforced today, read back for
\* the comparison when it is not the one being configured.
GuardSettings(inForce, after, settings, enable, allowLockout) ==
    IF allowLockout \/ ~enable THEN "pass"
    ELSE IF ~SessionKnown \/ PhysicalAdapters(after) = {} THEN "warn"
    ELSE IF settings.enabled
         THEN CompareReachability(inForce, after, PhysicalAdapters(after))
         ELSE ProvesLockout(after, PhysicalAdapters(after))
=============================================================================
