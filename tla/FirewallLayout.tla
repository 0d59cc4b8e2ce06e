--------------------------- MODULE FirewallLayout ---------------------------
(***************************************************************************)
(* How one adapter's firewall rule list is laid out (client/firewall.go).  *)
(*                                                                         *)
(* A rule is [name, effect].  The name is the rule's identity; names are   *)
(* numbers, so that "sorted by name" needs no string order.  The effect is *)
(* all of a rule's fields reduced to what the rest of the client tells     *)
(* apart: what the rule says about the packet of this client's own         *)
(* management session.                                                     *)
(*   "allow", "deny"   the rule is enabled, selects the packet, and decides*)
(*   "miss"            the rule does not select the packet, or is disabled *)
(*   "opaque"          the rule selects on something the client cannot     *)
(*                     replay (a GeoIP country, a service preset)          *)
(*                                                                         *)
(* A desired map is the client's priority record for the adapter: a        *)
(* function from the names it has been asked to place to their priorities. *)
(***************************************************************************)
EXTENDS Integers, Sequences, FiniteSets

Effects == {"allow", "deny", "miss", "opaque"}

\* DSM keeps one rule under a name.
IsRuleList(rules) ==
    /\ rules \in Seq([name : Int, effect : Effects])
    /\ \A i, j \in DOMAIN rules : rules[i].name = rules[j].name => i = j

RulesIn(rules) == {rules[i] : i \in DOMAIN rules}

NamesOf(rules) == {rules[i].name : i \in DOMAIN rules}

RuleNamed(rules, n) == rules[CHOOSE i \in DOMAIN rules : rules[i].name = n]

\* The elements of a finite set in a strict total order, a set of pairs.
InOrder(S, before) ==
    [k \in 1 .. Cardinality(S) |->
        CHOOSE x \in S : Cardinality({y \in S : <<y, x>> \in before}) = k - 1]

PlacesOf(rules, names) == {i \in DOMAIN rules : rules[i].name \in names}

\* The rules that have one of these names, in the order they are in.
OnlyNamed(rules, names) ==
    LET places == PlacesOf(rules, names)
        at     == InOrder(places, {p \in places \X places : p[1] < p[2]})
    IN  [k \in 1 .. Cardinality(places) |-> rules[at[k]]]

WithoutRule(rules, n) == OnlyNamed(rules, NamesOf(rules) \ {n})

\* Mutant: a negative priority is taken as it comes.
RawPriority(p) == p

NormalizePriority(p) == IF p < 0 THEN 0 ELSE p

\* Mutant: the entry that was there stays.
AppendRule(rules, rule) == Append(rules, rule)

\* Every entry of that name is dropped and the new one goes to the end: its
\* place is arrangeFirewallRules' business.
UpsertRule(rules, rule) == Append(WithoutRule(rules, rule.name), rule)

----------------------------------------------------------------------------
(***************************************************************************)
(* arrangeFirewallRules: the managed rules (those with a desired priority) *)
(* in priority order, merged slot by slot with the unmanaged ones in the   *)
(* order DSM returned them.                                                *)
(***************************************************************************)
Precedes(desired, r, s) ==
    \/ desired[r.name] < desired[s.name]
    \/ desired[r.name] = desired[s.name] /\ r.name < s.name

\* sort.SliceStable: rules that neither precedes keep the order they are in.
Managed(rules, desired) ==
    LET places == PlacesOf(rules, DOMAIN desired)
        before == {p \in places \X places :
                      \/ Precedes(desired, rules[p[1]], rules[p[2]])
                      \/ ~Precedes(desired, rules[p[2]], rules[p[1]]) /\ p[1] < p[2]}
        at     == InOrder(places, before)
    IN  [k \in 1 .. Cardinality(places) |-> rules[at[k]]]

Unmanaged(rules, desired) == OnlyNamed(rules, NamesOf(rules) \ DOMAIN desired)

\* Mutant: a rule waits until its priority has been passed.
Overdue(managed, desired, next, slot) ==
    next < Len(managed) /\ desired[managed[next + 1].name] < slot

\* Has the next managed rule's priority been reached?  Slots count from 0.
Due(managed, desired, next, slot) ==
    next < Len(managed) /\ desired[managed[next + 1].name] <= slot

\* What a slot does to the loop's "next" counter: it takes the next managed rule
\* when its priority has been reached, or when no unmanaged rule is left.
NextAfter(managed, unmanaged, desired) ==
    [slot \in 0 .. Len(managed) + Len(unmanaged) - 1 |->
        [next \in 0 .. Len(managed) |->
            IF Due(managed, desired, next, slot) \/ slot - next >= Len(unmanaged)
            THEN next + 1 ELSE next]]

\* How many managed rules the first k slots hold.
PlacedManaged(managed, unmanaged, desired) ==
    LET after == NextAfter(managed, unmanaged, desired)
        placed[k \in 0 .. Len(managed) + Len(unmanaged)] ==
            IF k = 0 THEN 0 ELSE after[k - 1][placed[k - 1]]
    IN  placed

Merged(managed, unmanaged, desired) ==
    LET placed == PlacedManaged(managed, unmanaged, desired)
    IN  [k \in 1 .. Len(managed) + Len(unmanaged) |->
            IF placed[k] > placed[k - 1] THEN managed[placed[k]]
            ELSE unmanaged[k - placed[k]]]

ArrangeRules(rules, desired) ==
    Merged(Managed(rules, desired), Unmanaged(rules, desired), desired)

\* The position DSM matches a rule at, counted from 0 as the code does.
PriorityOf(rules, n) == (CHOOSE i \in DOMAIN rules : rules[i].name = n) - 1
=============================================================================
