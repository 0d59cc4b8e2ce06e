----------------------- MODULE FirewallClient_proofs -----------------------
(***************************************************************************)
(* For every configuration, every number of workers and every combination  *)
(* of faults: operations exclude each other from their first read to their *)
(* read-back, what is saved was computed from what is still stored, and    *)
(* therefore no completed operation is undone by another, the record of    *)
(* positions is true, a written rule is in force, and what DSM stores goes *)
(* through the states of FirewallStore.  With what each needs of the       *)
(* configuration and of DSM, stated where it is: an enabled firewall is    *)
(* never emptied, what is reported as done is in force, the guards keep    *)
(* the session, and every rule written is where its priority puts it.      *)
(*                                                                         *)
(* The layout comes first: laying a list out moves rules and neither drops,*)
(* adds nor repeats one; each goes where LaidOut says, and in whichever    *)
(* order two writes arrive.  The encodings of a rule come last.            *)
(***************************************************************************)
EXTENDS FirewallClient, FirewallRules, FiniteSetTheorems, WellFoundedInduction, TLAPS

----------------------------------------------------------------------------
(***************************************************************************)
(* The layout.                                                             *)
(***************************************************************************)
\* A set of natural numbers has a least one: the induction of this module is by it.
LEMMA Least ==
  ASSUME NEW T \in SUBSET Nat, T # {}
  PROVE  \E n \in T : \A m \in T : n <= m
<1> DEFINE R == {p \in Nat \X Nat : p[1] < p[2]}
<1>1. IsWellFoundedOn(R, Nat)
  <2>1. R = OpToRel(<, Nat)
    BY DEF OpToRel
  <2> QED
    BY <2>1, NatLessThanWellFounded
<1>2. PICK x \in T : \A y \in T : <<y, x>> \notin R
  <2> HIDE DEF R
  <2> QED
    BY <1>1, WFMin
<1>3. \A y \in T : x \in Nat /\ y \in Nat /\ ~(y < x)
  BY <1>2
<1> QED
  BY <1>3

\* A strict total order on S.
IsOrder(R, S) ==
    /\ \A x \in S : <<x, x>> \notin R
    /\ \A x, y \in S : x = y \/ <<x, y>> \in R \/ <<y, x>> \in R
    /\ \A x, y, z \in S : <<x, y>> \in R /\ <<y, z>> \in R => <<x, z>> \in R

\* Counting what comes before an element numbers a finite set in its order.
LEMMA Ranks ==
  ASSUME NEW S, IsFiniteSet(S), NEW R, IsOrder(R, S),
         NEW rank, rank = [x \in S |-> Cardinality({y \in S : <<y, x>> \in R})]
  PROVE  /\ rank \in Bijection(S, 0 .. Cardinality(S) - 1)
         /\ \A x, y \in S : <<x, y>> \in R => rank[x] < rank[y]
<1> DEFINE below(x) == {y \in S : <<y, x>> \in R}
<1>1. Cardinality(S) \in Nat
  BY FS_CardinalityType
<1>2. ASSUME NEW x \in S
      PROVE  /\ IsFiniteSet(below(x)) /\ Cardinality(below(x)) \in Nat
             /\ Cardinality(below(x)) < Cardinality(S)
  <2>1. below(x) \subseteq S /\ x \notin below(x)
    BY DEF IsOrder
  <2> HIDE DEF below
  <2>2. IsFiniteSet(below(x)) /\ Cardinality(below(x)) <= Cardinality(S)
        /\ Cardinality(below(x)) # Cardinality(S)
    BY <2>1, FS_Subset
  <2>3. Cardinality(below(x)) \in Nat
    BY <2>2, FS_CardinalityType
  <2> QED
    BY <1>1, <2>2, <2>3
<1>3. ASSUME NEW x \in S, NEW y \in S, <<x, y>> \in R
      PROVE  Cardinality(below(x)) < Cardinality(below(y))
  <2>1. below(x) \subseteq below(y) /\ x \in below(y) /\ x \notin below(x)
    BY <1>3 DEF IsOrder
  <2>2. IsFiniteSet(below(y)) /\ Cardinality(below(x)) \in Nat /\ Cardinality(below(y)) \in Nat
    BY <1>2
  <2> HIDE DEF below
  <2>3. Cardinality(below(x)) <= Cardinality(below(y))
          /\ Cardinality(below(x)) # Cardinality(below(y))
    BY <2>1, <2>2, FS_Subset
  <2> QED
    BY <2>2, <2>3
<1>4. \A x \in S : rank[x] = Cardinality(below(x))
  OBVIOUS
<1> HIDE DEF below
<1>5. rank \in [S -> 0 .. Cardinality(S) - 1]
  <2>1. \A x \in S : rank[x] \in 0 .. Cardinality(S) - 1
    BY <1>1, <1>2, <1>4
  <2> QED
    BY <2>1
<1>6. \A x, y \in S : rank[x] = rank[y] => x = y
  <2> SUFFICES ASSUME NEW x \in S, NEW y \in S, x # y PROVE rank[x] # rank[y]
    OBVIOUS
  <2>1. rank[x] \in Int /\ rank[y] \in Int
    BY <1>2, <1>4
  <2>2. <<x, y>> \in R \/ <<y, x>> \in R
    BY DEF IsOrder
  <2> QED
    BY <1>3, <1>4, <2>1, <2>2
<1>7. rank \in Injection(S, 0 .. Cardinality(S) - 1)
  BY <1>5, <1>6 DEF Injection, IsInjective
<1>8. IsFiniteSet(0 .. Cardinality(S) - 1) /\ Cardinality(0 .. Cardinality(S) - 1) = Cardinality(S)
  BY <1>1, FS_Interval
<1>9. rank \in Surjection(S, 0 .. Cardinality(S) - 1)
  BY <1>7, <1>8, FS_Injection
<1> QED
  BY <1>3, <1>4, <1>7, <1>9 DEF Bijection

\* InOrder lists every element once.
LEMMA InOrderLists ==
  ASSUME NEW S, IsFiniteSet(S), NEW R, IsOrder(R, S)
  PROVE  InOrder(S, R) \in Bijection(1 .. Cardinality(S), S)
<1> DEFINE n == Cardinality(S)
           rank == [x \in S |-> Cardinality({y \in S : <<y, x>> \in R})]
           at == InOrder(S, R)
<1>1. n \in Nat
  BY FS_CardinalityType
<1>2. rank \in Bijection(S, 0 .. n - 1)
  BY Ranks
<1>3. at = [k \in 1 .. n |->
               CHOOSE x \in S : Cardinality({y \in S : <<y, x>> \in R}) = k - 1]
  BY DEF InOrder
<1>r. \A x \in S : rank[x] = Cardinality({y \in S : <<y, x>> \in R})
  OBVIOUS
<1> HIDE DEF rank, n, at
<1>4. \A x, y \in S : rank[x] = rank[y] => x = y
  BY <1>2 DEF Bijection, Injection, IsInjective
<1>5. \A k \in 1 .. n : at[k] \in S /\ rank[at[k]] = k - 1
  <2> TAKE k \in 1 .. n
  <2>1. k - 1 \in 0 .. n - 1
    BY <1>1
  <2>2. \E x \in S : rank[x] = k - 1
    BY <1>2, <2>1 DEF Bijection, Surjection
  <2> QED
    BY <1>3, <1>r, <2>2
<1>6. at \in [1 .. n -> S]
  BY <1>3, <1>5
<1>7. \A j, k \in 1 .. n : at[j] = at[k] => j = k
  BY <1>1, <1>5
<1>8. \A x \in S : \E k \in 1 .. n : at[k] = x
  <2> TAKE x \in S
  <2>1. rank[x] \in 0 .. n - 1
    BY <1>2 DEF Bijection, Injection, IsInjective
  <2>2. rank[x] + 1 \in 1 .. n /\ (rank[x] + 1) - 1 = rank[x]
    BY <1>1, <2>1
  <2>3. at[rank[x] + 1] \in S /\ rank[at[rank[x] + 1]] = rank[x]
    BY <1>5, <2>2
  <2> QED
    BY <1>4, <2>2, <2>3
<1>9. at \in Injection(1 .. n, S) /\ at \in Surjection(1 .. n, S)
  BY <1>6, <1>7, <1>8 DEF Injection, Surjection, IsInjective
<1> QED
  BY <1>9 DEF Bijection, n, at

\* It lists them in the order: each where as many come before it.
LEMMA InOrderRises ==
  ASSUME NEW S, IsFiniteSet(S), NEW R, IsOrder(R, S), NEW at, at = InOrder(S, R)
  PROVE  /\ \A k \in 1 .. Cardinality(S) :
               at[k] \in S /\ Cardinality({y \in S : <<y, at[k]>> \in R}) = k - 1
         /\ \A j, k \in 1 .. Cardinality(S) : j < k => <<at[j], at[k]>> \in R
<1> DEFINE n == Cardinality(S)
           rank == [x \in S |-> Cardinality({y \in S : <<y, x>> \in R})]
<1>1. n \in Nat
  BY FS_CardinalityType
<1>2. rank \in Bijection(S, 0 .. n - 1) /\ \A x, y \in S : <<x, y>> \in R => rank[x] < rank[y]
  BY Ranks
<1>3. at = [k \in 1 .. n |->
               CHOOSE x \in S : Cardinality({y \in S : <<y, x>> \in R}) = k - 1]
  BY DEF InOrder
<1>4. \A x \in S : rank[x] = Cardinality({y \in S : <<y, x>> \in R})
  OBVIOUS
<1> HIDE DEF rank, n
<1>5. \A k \in 1 .. n : at[k] \in S /\ rank[at[k]] = k - 1
  <2> TAKE k \in 1 .. n
  <2>1. k - 1 \in 0 .. n - 1
    BY <1>1
  <2>2. \E x \in S : rank[x] = k - 1
    BY <1>2, <2>1 DEF Bijection, Surjection
  <2>3. \E x \in S : Cardinality({y \in S : <<y, x>> \in R}) = k - 1
    BY <1>4, <2>2
  <2>4. at[k] = CHOOSE x \in S : Cardinality({y \in S : <<y, x>> \in R}) = k - 1
    BY <1>3
  <2>5. at[k] \in S /\ Cardinality({y \in S : <<y, at[k]>> \in R}) = k - 1
    BY <2>3, <2>4
  <2> QED
    BY <1>4, <2>5
<1>6. \A j, k \in 1 .. n : j < k => <<at[j], at[k]>> \in R
  <2> SUFFICES ASSUME NEW j \in 1 .. n, NEW k \in 1 .. n, j < k PROVE <<at[j], at[k]>> \in R
    OBVIOUS
  <2>1. at[j] \in S /\ at[k] \in S /\ rank[at[j]] < rank[at[k]] /\ rank[at[j]] \in Int
    BY <1>1, <1>5
  <2>2. ~(rank[at[k]] < rank[at[j]]) /\ at[j] # at[k]
    BY <1>1, <1>5
  <2> QED
    BY <1>2, <2>1, <2>2 DEF IsOrder
<1> QED
  BY <1>4, <1>5, <1>6 DEF n

\* A map that keeps the order takes one listing to the other.
LEMMA InOrderMaps ==
  ASSUME NEW S, IsFiniteSet(S), NEW R, IsOrder(R, S), NEW T, NEW f \in Bijection(S, T), NEW Q,
         \A x, y \in S : <<x, y>> \in R <=> <<f[x], f[y]>> \in Q
  PROVE  InOrder(T, Q) = [k \in 1 .. Cardinality(S) |-> f[InOrder(S, R)[k]]]
<1> DEFINE n == Cardinality(S)
           at == InOrder(S, R)
           below(x) == {y \in S : <<y, x>> \in R}
           under(t) == {z \in T : <<z, t>> \in Q}
           rank == [t \in T |-> Cardinality(under(t))]
<1>1. /\ \A x \in S : f[x] \in T
      /\ \A x, y \in S : f[x] = f[y] => x = y
      /\ \A t \in T : \E x \in S : f[x] = t
  BY DEF Bijection, Injection, Surjection, IsInjective
<1>2. IsFiniteSet(T) /\ Cardinality(T) = n
  BY FS_Bijection DEF ExistsBijection
<1>3. IsOrder(Q, T)
  <2>1. \A t \in T : <<t, t>> \notin Q
    BY <1>1 DEF IsOrder
  <2>2. \A t, z \in T : t = z \/ <<t, z>> \in Q \/ <<z, t>> \in Q
    BY <1>1 DEF IsOrder
  <2>3. ASSUME NEW t \in T, NEW y \in T, NEW z \in T, <<t, y>> \in Q, <<y, z>> \in Q
        PROVE  <<t, z>> \in Q
    <3>1. PICK a \in S : f[a] = t
      BY <1>1
    <3>2. PICK b \in S : f[b] = y
      BY <1>1
    <3>3. PICK c \in S : f[c] = z
      BY <1>1
    <3>4. <<a, b>> \in R /\ <<b, c>> \in R
      BY <2>3, <3>1, <3>2, <3>3
    <3>5. <<a, c>> \in R
      BY <3>4 DEF IsOrder
    <3> QED
      BY <3>1, <3>3, <3>5
  <2> QED
    BY <2>1, <2>2, <2>3 DEF IsOrder
<1>4. rank \in Bijection(T, 0 .. Cardinality(T) - 1)
  BY <1>2, <1>3, Ranks
<1>5. ASSUME NEW x \in S PROVE Cardinality(under(f[x])) = Cardinality(below(x))
  <2> DEFINE A == below(x)
             B == under(f[x])
             g == [y \in A |-> f[y]]
  <2>1. A \subseteq S /\ \A y \in A : g[y] = f[y]
    OBVIOUS
  <2>2. IsFiniteSet(A)
    BY <2>1, FS_Subset
  <2>3. \A y \in A : f[y] \in B
    BY <1>1
  <2>4. \A z \in B : \E y \in A : f[y] = z
    BY <1>1
  <2>5. g \in [A -> B]
    BY <2>3
  <2> HIDE DEF A, B, g
  <2>6. g \in Injection(A, B) /\ g \in Surjection(A, B)
    BY <1>1, <2>1, <2>4, <2>5 DEF Injection, Surjection, IsInjective
  <2>7. ExistsBijection(A, B)
    BY <2>6 DEF Bijection, ExistsBijection
  <2>8. Cardinality(B) = Cardinality(A)
    BY <2>2, <2>7, FS_Bijection
  <2> QED
    BY <2>8 DEF A, B
<1>6. \A k \in 1 .. n : at[k] \in S /\ Cardinality(below(at[k])) = k - 1
  BY InOrderRises
<1>7. InOrder(T, Q) = [k \in 1 .. n |-> CHOOSE t \in T : Cardinality(under(t)) = k - 1]
  BY <1>2 DEF InOrder
<1>8. \A t \in T : rank[t] = Cardinality(under(t))
  OBVIOUS
<1>9. \A t, z \in T : rank[t] = rank[z] => t = z
  <2> HIDE DEF rank
  <2> QED
    BY <1>4 DEF Bijection, Injection, IsInjective
<1> HIDE DEF n, at, below, under, rank
<1>10. \A k \in 1 .. n : (CHOOSE t \in T : Cardinality(under(t)) = k - 1) = f[at[k]]
  <2> TAKE k \in 1 .. n
  <2>1. f[at[k]] \in T /\ Cardinality(under(f[at[k]])) = k - 1
    BY <1>1, <1>5, <1>6
  <2>2. \A t \in T : Cardinality(under(t)) = k - 1 => t = f[at[k]]
    BY <1>8, <1>9, <2>1
  <2> QED
    BY <2>1, <2>2
<1>11. InOrder(T, Q) = [k \in 1 .. n |-> f[at[k]]]
  BY <1>7, <1>10
<1> QED
  BY <1>11 DEF n, at

\* The rules, and how a list of them looks to the provers.
Rules == [name : Int, effect : Effects]

LEMMA SeqForm ==
  ASSUME NEW S, NEW s \in Seq(S)
  PROVE  Len(s) \in Nat /\ DOMAIN s = 1 .. Len(s) /\ \A i \in DOMAIN s : s[i] \in S
  OBVIOUS

LEMMA FormSeq ==
  ASSUME NEW S, NEW n \in Nat, NEW s, s \in [1 .. n -> S]
  PROVE  s \in Seq(S) /\ Len(s) = n
  OBVIOUS

LEMMA ListForm ==
  ASSUME NEW rules, IsRuleList(rules)
  PROVE  /\ Len(rules) \in Nat /\ DOMAIN rules = 1 .. Len(rules)
         /\ \A i \in DOMAIN rules : rules[i] \in Rules /\ rules[i].name \in Int
<1>1. rules \in Seq(Rules)
  BY DEF IsRuleList, Rules
<1>2. Len(rules) \in Nat /\ DOMAIN rules = 1 .. Len(rules)
        /\ \A i \in DOMAIN rules : rules[i] \in Rules
  BY <1>1, SeqForm
<1> QED
  BY <1>2 DEF Rules

\* A list that holds, each once, the rules at some places of another.
LEMMA Gathered ==
  ASSUME NEW rules, IsRuleList(rules), NEW places \in SUBSET DOMAIN rules,
         NEW at \in Bijection(1 .. Cardinality(places), places),
         NEW list, list = [k \in 1 .. Cardinality(places) |-> rules[at[k]]]
  PROVE  /\ IsRuleList(list)
         /\ Len(list) = Cardinality(places)
         /\ RulesIn(list) = {rules[i] : i \in places}
<1> DEFINE n == Cardinality(places)
<1>1. Len(rules) \in Nat /\ DOMAIN rules = 1 .. Len(rules)
  BY ListForm
<1>2. IsFiniteSet(places) /\ n \in Nat
  <2>1. IsFiniteSet(1 .. Len(rules))
    BY <1>1, FS_Interval
  <2> QED
    BY <1>1, <2>1, FS_Subset, FS_CardinalityType
<1> HIDE DEF n
<1>3. at \in [1 .. n -> places] /\ (\A j, k \in 1 .. n : at[j] = at[k] => j = k)
      /\ \A i \in places : \E k \in 1 .. n : at[k] = i
  BY DEF Bijection, Injection, Surjection, IsInjective, n
<1>4. list = [k \in 1 .. n |-> rules[at[k]]]
  BY DEF n
<1>5. \A i \in places : rules[i] \in Rules
  BY ListForm
<1>6. list \in [1 .. n -> Rules] /\ DOMAIN list = 1 .. n
  BY <1>3, <1>4, <1>5
<1>7. list \in Seq(Rules) /\ Len(list) = n
  BY <1>2, <1>6, FormSeq
<1>8. \A j, k \in 1 .. n : list[j].name = list[k].name => j = k
  <2> TAKE j, k \in 1 .. n
  <2>1. at[j] \in DOMAIN rules /\ at[k] \in DOMAIN rules
    BY <1>3
  <2>2. list[j] = rules[at[j]] /\ list[k] = rules[at[k]]
    BY <1>4
  <2> QED
    BY <1>3, <2>1, <2>2 DEF IsRuleList
<1>9. RulesIn(list) = {rules[i] : i \in places}
  <2>1. RulesIn(list) = {list[k] : k \in 1 .. n}
    BY <1>6 DEF RulesIn
  <2>2. \A k \in 1 .. n : list[k] = rules[at[k]] /\ at[k] \in places
    BY <1>3, <1>4
  <2> QED
    BY <1>3, <2>1, <2>2
<1> QED
  BY <1>6, <1>7, <1>8, <1>9 DEF IsRuleList, n, Rules

\* The places of some names, in the list's own order.
InPlace(places) == {p \in places \X places : p[1] < p[2]}

LEMMA PlacesInOrder ==
  ASSUME NEW rules, IsRuleList(rules), NEW names, NEW places, places = PlacesOf(rules, names)
  PROVE  /\ places \subseteq DOMAIN rules /\ IsFiniteSet(places)
         /\ \A i \in places : i \in Int
         /\ IsOrder(InPlace(places), places)
<1>1. Len(rules) \in Nat /\ DOMAIN rules = 1 .. Len(rules)
  BY ListForm
<1>2. IsFiniteSet(1 .. Len(rules))
  BY <1>1, FS_Interval
<1>3. places \subseteq DOMAIN rules
  BY DEF PlacesOf
<1>4. IsFiniteSet(places) /\ \A i \in places : i \in Int
  BY <1>1, <1>2, <1>3, FS_Subset
<1>5. IsOrder(InPlace(places), places)
  BY <1>4 DEF IsOrder, InPlace
<1> QED
  BY <1>3, <1>4, <1>5

LEMMA OnlyNamedGathers ==
  ASSUME NEW rules, IsRuleList(rules), NEW names
  PROVE  /\ IsRuleList(OnlyNamed(rules, names))
         /\ Len(OnlyNamed(rules, names)) = Cardinality(PlacesOf(rules, names))
         /\ RulesIn(OnlyNamed(rules, names)) = {r \in RulesIn(rules) : r.name \in names}
<1> DEFINE places == PlacesOf(rules, names)
           at     == InOrder(places, InPlace(places))
<1>1. places \subseteq DOMAIN rules /\ IsFiniteSet(places) /\ IsOrder(InPlace(places), places)
  BY PlacesInOrder
<1>2. at \in Bijection(1 .. Cardinality(places), places)
  BY <1>1, InOrderLists
<1>3. OnlyNamed(rules, names) = [k \in 1 .. Cardinality(places) |-> rules[at[k]]]
  BY DEF OnlyNamed, InPlace
<1>4. {rules[i] : i \in places} = {r \in RulesIn(rules) : r.name \in names}
  BY DEF PlacesOf, RulesIn
<1> HIDE DEF places, at
<1> QED
  BY <1>1, <1>2, <1>3, <1>4, Gathered DEF places

\* By priority, then by name.
ByPriority(rules, desired, places) ==
    {p \in places \X places :
        \/ Precedes(desired, rules[p[1]], rules[p[2]])
        \/ ~Precedes(desired, rules[p[2]], rules[p[1]]) /\ p[1] < p[2]}

LEMMA PlacesByPriority ==
  ASSUME NEW rules, IsRuleList(rules), NEW desired, \A n \in DOMAIN desired : desired[n] \in Int,
         NEW places, places = PlacesOf(rules, DOMAIN desired)
  PROVE  /\ IsOrder(ByPriority(rules, desired, places), places)
         /\ \A i, j \in places :
               <<i, j>> \in ByPriority(rules, desired, places)
                   <=> Precedes(desired, rules[i], rules[j])
<1> DEFINE R == ByPriority(rules, desired, places)
           before(i, j) == \/ Precedes(desired, rules[i], rules[j])
                           \/ ~Precedes(desired, rules[j], rules[i]) /\ i < j
<1>1. \A i \in places : i \in Int /\ rules[i].name \in Int /\ desired[rules[i].name] \in Int
  <2>1. places \subseteq DOMAIN rules /\ \A i \in places : i \in Int
    BY PlacesInOrder
  <2>2. \A i \in DOMAIN rules : rules[i].name \in Int
    BY ListForm
  <2> QED
    BY <2>1, <2>2 DEF PlacesOf
<1>2. \A i, j \in places : rules[i].name = rules[j].name => i = j
  BY DEF PlacesOf, IsRuleList
<1>3. \A i, j \in places : <<i, j>> \in R <=> before(i, j)
  BY DEF ByPriority
<1> HIDE DEF R
<1>4. \A i \in places : ~Precedes(desired, rules[i], rules[i])
  BY <1>1 DEF Precedes
<1>5. \A i, j \in places :
         i = j \/ Precedes(desired, rules[i], rules[j]) \/ Precedes(desired, rules[j], rules[i])
  <2> TAKE i, j \in places
  <2>1. CASE rules[i].name # rules[j].name
    BY <1>1, <2>1 DEF Precedes
  <2> QED
    BY <1>2, <2>1
<1>6. \A i, j, k \in places :
         Precedes(desired, rules[i], rules[j]) /\ Precedes(desired, rules[j], rules[k])
             => Precedes(desired, rules[i], rules[k])
  BY <1>1 DEF Precedes
<1>7. \A i, j \in places : <<i, j>> \in R <=> Precedes(desired, rules[i], rules[j])
  <2> TAKE i, j \in places
  <2>1. ~(i < j) \/ i # j
    BY <1>1
  <2> QED
    BY <1>3, <1>4, <1>5, <2>1
<1>8. IsOrder(R, places)
  BY <1>4, <1>5, <1>6, <1>7 DEF IsOrder
<1> QED
  BY <1>7, <1>8 DEF R

LEMMA ManagedGathers ==
  ASSUME NEW rules, IsRuleList(rules), NEW desired, \A n \in DOMAIN desired : desired[n] \in Int
  PROVE  /\ IsRuleList(Managed(rules, desired))
         /\ Len(Managed(rules, desired)) = Cardinality(PlacesOf(rules, DOMAIN desired))
         /\ RulesIn(Managed(rules, desired)) = {r \in RulesIn(rules) : r.name \in DOMAIN desired}
<1> DEFINE places == PlacesOf(rules, DOMAIN desired)
           at     == InOrder(places, ByPriority(rules, desired, places))
<1>1. places \subseteq DOMAIN rules /\ IsFiniteSet(places)
  BY PlacesInOrder
<1>2. IsOrder(ByPriority(rules, desired, places), places)
  BY PlacesByPriority
<1>3. at \in Bijection(1 .. Cardinality(places), places)
  BY <1>1, <1>2, InOrderLists
<1>4. Managed(rules, desired) = [k \in 1 .. Cardinality(places) |-> rules[at[k]]]
  BY DEF Managed, ByPriority
<1>5. {rules[i] : i \in places} = {r \in RulesIn(rules) : r.name \in DOMAIN desired}
  BY DEF PlacesOf, RulesIn
<1> HIDE DEF places, at
<1> QED
  BY <1>1, <1>3, <1>4, <1>5, Gathered DEF places

\* Every rule is managed or is not.
LEMMA Split ==
  ASSUME NEW rules, IsRuleList(rules), NEW desired, \A n \in DOMAIN desired : desired[n] \in Int
  PROVE  /\ RulesIn(Managed(rules, desired)) \union RulesIn(Unmanaged(rules, desired))
               = RulesIn(rules)
         /\ Len(Managed(rules, desired)) + Len(Unmanaged(rules, desired)) = Len(rules)
<1> DEFINE mine == PlacesOf(rules, DOMAIN desired)
           others == PlacesOf(rules, NamesOf(rules) \ DOMAIN desired)
<1>1. Len(rules) \in Nat /\ DOMAIN rules = 1 .. Len(rules)
  BY ListForm
<1>2. IsFiniteSet(1 .. Len(rules)) /\ Cardinality(1 .. Len(rules)) = Len(rules)
  <2> DEFINE n == Len(rules)
  <2>1. n \in Nat
    BY <1>1
  <2> HIDE DEF n
  <2>2. IsFiniteSet(1 .. n) /\ Cardinality(1 .. n) = n
    BY <2>1, FS_Interval
  <2> QED
    BY <2>2 DEF n
<1>3. mine \subseteq 1 .. Len(rules) /\ others = (1 .. Len(rules)) \ mine
  BY <1>1 DEF PlacesOf, NamesOf
<1> HIDE DEF mine, others
<1>4. IsFiniteSet(mine) /\ Cardinality(mine) \in Nat
  BY <1>2, <1>3, FS_Subset, FS_CardinalityType
<1>5. Cardinality(others) = Len(rules) - Cardinality(mine)
  <2> DEFINE all == 1 .. Len(rules)
  <2>1. IsFiniteSet(all) /\ Cardinality(all) = Len(rules) /\ all \cap mine = mine
          /\ others = all \ mine
    BY <1>2, <1>3
  <2> HIDE DEF all
  <2>2. Cardinality(all \ mine) = Cardinality(all) - Cardinality(all \cap mine)
    BY <2>1, FS_Difference
  <2> QED
    BY <2>1, <2>2
<1>6. Cardinality(mine) + Cardinality(others) = Len(rules)
  BY <1>1, <1>4, <1>5
<1>7. RulesIn(Unmanaged(rules, desired)) = {r \in RulesIn(rules) : r.name \notin DOMAIN desired}
  <2>1. \A r \in RulesIn(rules) : r.name \in NamesOf(rules)
    BY DEF RulesIn, NamesOf
  <2> QED
    BY <2>1, OnlyNamedGathers DEF Unmanaged
<1>8. Len(Unmanaged(rules, desired)) = Cardinality(others)
  BY OnlyNamedGathers DEF Unmanaged, others
<1>9. Len(Managed(rules, desired)) = Cardinality(mine)
  BY ManagedGathers DEF mine
<1>10. RulesIn(Managed(rules, desired)) = {r \in RulesIn(rules) : r.name \in DOMAIN desired}
  BY ManagedGathers
<1>11. RulesIn(Managed(rules, desired)) \union RulesIn(Unmanaged(rules, desired)) = RulesIn(rules)
  BY <1>7, <1>10
<1> QED
  BY <1>6, <1>8, <1>9, <1>11

\* Induction up to n, on a set.
LEMMA Induct ==
  ASSUME NEW S, 0 \in S, NEW n \in Nat, \A k \in 0 .. n - 1 : k \in S => k + 1 \in S
  PROVE  0 .. n \subseteq S
<1> DEFINE T == {k \in 0 .. n : k \notin S}
<1> SUFFICES ASSUME T # {} PROVE FALSE
  OBVIOUS
<1>1. T \in SUBSET Nat
  OBVIOUS
<1>2. PICK k \in T : \A m \in T : k <= m
  <2> HIDE DEF T
  <2> QED
    BY <1>1, Least
<1>3. k # 0 /\ k - 1 \in 0 .. n - 1 /\ k - 1 \notin T /\ (k - 1) + 1 = k
  BY <1>2
<1>4. k - 1 \in S
  BY <1>3
<1> QED
  BY <1>2, <1>3, <1>4

\* A loop of n turns over a state in X has the states its turns compute.
LEMMA Recursion ==
  ASSUME NEW n \in Nat, NEW X, NEW b \in X, NEW g \in [0 .. n - 1 -> [X -> X]]
  PROVE  \E f : /\ f = [i \in 0 .. n |-> f[i]]
                /\ f[0] = b
                /\ \A i \in 1 .. n : f[i] = g[i - 1][f[i - 1]]
<1> DEFINE Q(k, f) == /\ f \in [0 .. k -> X]
                      /\ f[0] = b
                      /\ \A i \in 1 .. k : f[i] = g[i - 1][f[i - 1]]
           S == {k \in 0 .. n : \E f : Q(k, f)}
<1>1. 0 \in S
  <2> DEFINE h == [i \in 0 .. 0 |-> b]
  <2>1. Q(0, h)
    OBVIOUS
  <2> HIDE DEF h, Q
  <2>2. 0 \in 0 .. n /\ \E f : Q(0, f)
    BY <2>1
  <2> QED
    BY <2>2
<1>2. ASSUME NEW k \in 0 .. n - 1, k \in S PROVE k + 1 \in S
  <2>1. PICK f : Q(k, f)
    BY <1>2
  <2> DEFINE h == [i \in 0 .. k + 1 |-> IF i = k + 1 THEN g[k][f[k]] ELSE f[i]]
  <2>2. f[k] \in X /\ g[k] \in [X -> X]
    BY <2>1
  <2>3. h \in [0 .. k + 1 -> X]
    BY <2>1, <2>2
  <2>4. h[0] = b
    BY <2>1
  <2>5. ASSUME NEW i \in 1 .. k + 1 PROVE h[i] = g[i - 1][h[i - 1]]
    <3>1. CASE i = k + 1
      BY <3>1
    <3>2. CASE i # k + 1
      <4>1. i \in 1 .. k /\ i - 1 \in 0 .. k /\ h[i] = f[i] /\ h[i - 1] = f[i - 1]
        BY <3>2
      <4> QED
        BY <2>1, <4>1
    <3> QED
      BY <3>1, <3>2
  <2> HIDE DEF h
  <2>6. Q(k + 1, h)
    BY <2>3, <2>4, <2>5
  <2> QED
    BY <2>6
<1>3. n \in S
  <2>1. \A k \in 0 .. n - 1 : k \in S => k + 1 \in S
    BY <1>2
  <2> HIDE DEF S
  <2>2. 0 .. n \subseteq S
    BY <1>1, <2>1, Induct
  <2> QED
    BY <2>2
<1> QED
  BY <1>3

\* A slot's effect on the counter of a loop over m rules of one kind and u of the
\* other, and the counter.
Steps(after, m, u) ==
    /\ after \in [0 .. m + u - 1 -> [0 .. m -> 0 .. m]]
    /\ \A slot \in 0 .. m + u - 1, next \in 0 .. m :
          /\ after[slot][next] \in {next, next + 1}
          /\ slot - next = u => after[slot][next] = next + 1

Loops(f, after, n) ==
    f = [k \in 0 .. n |-> IF k = 0 THEN 0 ELSE after[k - 1][f[k - 1]]]

LEMMA LoopExists ==
  ASSUME NEW n \in Nat, NEW X, 0 \in X, NEW after \in [0 .. n - 1 -> [X -> X]]
  PROVE  \E f : Loops(f, after, n)
<1>2. PICK f : /\ f = [i \in 0 .. n |-> f[i]]
               /\ f[0] = 0
               /\ \A i \in 1 .. n : f[i] = after[i - 1][f[i - 1]]
  BY Recursion
<1>3. \A k \in 0 .. n : f[k] = IF k = 0 THEN 0 ELSE after[k - 1][f[k - 1]]
  <2>1. \A k \in 0 .. n : k = 0 \/ k \in 1 .. n
    OBVIOUS
  <2> QED
    BY <1>2, <2>1
<1>4. Loops(f, after, n)
  BY <1>2, <1>3 DEF Loops
<1> QED
  BY <1>4

\* The counter never takes a rule that is not there, and leaves none out.
LEMMA LoopCounts ==
  ASSUME NEW m \in Nat, NEW u \in Nat, NEW after, Steps(after, m, u),
         NEW f, Loops(f, after, m + u)
  PROVE  /\ f[0] = 0
         /\ \A k \in 0 .. m + u : f[k] \in 0 .. m /\ k - f[k] \in 0 .. u
         /\ \A k \in 1 .. m + u : f[k] = f[k - 1] \/ f[k] = f[k - 1] + 1
         /\ \A k \in 1 .. m + u : f[k] = after[k - 1][f[k - 1]]
<1> DEFINE n == m + u
           S == {k \in 0 .. n : f[k] \in 0 .. m /\ k - f[k] \in 0 .. u}
<1>1. n \in Nat
  OBVIOUS
<1>2. f[0] = 0 /\ \A k \in 0 .. n - 1 : f[k + 1] = after[k][f[k]]
  <2>1. \A k \in 0 .. n : f[k] = IF k = 0 THEN 0 ELSE after[k - 1][f[k - 1]]
    BY DEF Loops
  <2>2. \A k \in 0 .. n - 1 : k + 1 \in 0 .. n /\ k + 1 # 0 /\ (k + 1) - 1 = k
    OBVIOUS
  <2> QED
    BY <1>1, <2>1, <2>2
<1>3. 0 \in S
  BY <1>2
<1>4. ASSUME NEW k \in 0 .. n - 1, k \in S PROVE k + 1 \in S
  <2>1. f[k] \in 0 .. m /\ k - f[k] \in 0 .. u
    BY <1>4
  <2>2. after[k][f[k]] \in 0 .. m /\ after[k][f[k]] \in {f[k], f[k] + 1}
        /\ (k - f[k] = u => after[k][f[k]] = f[k] + 1)
    <3>1. k \in 0 .. m + u - 1 /\ f[k] \in 0 .. m
      BY <2>1
    <3>2. after[k] \in [0 .. m -> 0 .. m]
      BY <3>1 DEF Steps
    <3>3. after[k][f[k]] \in 0 .. m
      BY <3>1, <3>2
    <3> QED
      BY <3>1, <3>3 DEF Steps
  <2>3. (k + 1) - after[k][f[k]] \in 0 .. u
    BY <2>1, <2>2
  <2> QED
    BY <1>2, <2>2, <2>3
<1>5. 0 .. n \subseteq S
  <2>1. \A k \in 0 .. n - 1 : k \in S => k + 1 \in S
    BY <1>4
  <2> HIDE DEF S
  <2> QED
    BY <1>1, <1>3, <2>1, Induct
<1>6. ASSUME NEW k \in 1 .. n
      PROVE  (f[k] = f[k - 1] \/ f[k] = f[k - 1] + 1) /\ f[k] = after[k - 1][f[k - 1]]
  <2>1. k - 1 \in 0 .. n - 1 /\ k - 1 \in 0 .. n /\ (k - 1) + 1 = k
    OBVIOUS
  <2>2. f[k] = after[k - 1][f[k - 1]] /\ f[k - 1] \in 0 .. m
    BY <1>2, <1>5, <2>1
  <2> QED
    BY <2>1, <2>2 DEF Steps
<1> QED
  BY <1>2, <1>5, <1>6

Counts(placed, managed, unmanaged) ==
    LET m == Len(managed)
        u == Len(unmanaged)
    IN  /\ placed[0] = 0
        /\ \A k \in 0 .. m + u : placed[k] \in 0 .. m /\ k - placed[k] \in 0 .. u
        /\ \A k \in 1 .. m + u : placed[k] = placed[k - 1] \/ placed[k] = placed[k - 1] + 1

\* A slot takes the next managed rule when its turn has come or nothing else is left.
Takes(managed, unmanaged, desired, next, slot) ==
    Due(managed, desired, next, slot) \/ slot - next >= Len(unmanaged)

Advances(placed, managed, unmanaged, desired) ==
    \A k \in 1 .. Len(managed) + Len(unmanaged) :
        placed[k] = IF Takes(managed, unmanaged, desired, placed[k - 1], k - 1)
                    THEN placed[k - 1] + 1 ELSE placed[k - 1]

\* What the loop of arrangeFirewallRules counts.
LEMMA PlacedCounts ==
  ASSUME NEW managed, NEW unmanaged, Len(managed) \in Nat, Len(unmanaged) \in Nat, NEW desired
  PROVE  /\ Counts(PlacedManaged(managed, unmanaged, desired), managed, unmanaged)
         /\ Advances(PlacedManaged(managed, unmanaged, desired), managed, unmanaged, desired)
<1> DEFINE m == Len(managed)
           u == Len(unmanaged)
           n == m + u
           after == NextAfter(managed, unmanaged, desired)
           D(f) == f = [k \in 0 .. m + u |-> IF k = 0 THEN 0 ELSE after[k - 1][f[k - 1]]]
           placed == CHOOSE f : D(f)
<1>1. m \in Nat /\ u \in Nat /\ n \in Nat /\ n = m + u
  OBVIOUS
<1>2. PlacedManaged(managed, unmanaged, desired) = placed
  BY DEF PlacedManaged
<1>3. after = [slot \in 0 .. n - 1 |-> [next \in 0 .. m |->
                  IF Due(managed, desired, next, slot) \/ slot - next >= u THEN next + 1 ELSE next]]
  BY DEF NextAfter
<1>4. \A next, slot : Due(managed, desired, next, slot) => next < m
  BY DEF Due
<1>5. \A f : D(f) <=> Loops(f, after, n)
  BY DEF Loops
<1> HIDE DEF m, u, n, after, D
<1>6. ASSUME NEW slot \in 0 .. n - 1, NEW next \in 0 .. m
      PROVE  /\ after[slot][next] \in 0 .. m
             /\ after[slot][next] \in {next, next + 1}
             /\ slot - next = u => after[slot][next] = next + 1
  <2>1. after[slot][next] =
           IF Due(managed, desired, next, slot) \/ slot - next >= u THEN next + 1 ELSE next
    BY <1>3
  <2>2. Due(managed, desired, next, slot) \/ slot - next >= u => next < m
    BY <1>1, <1>4
  <2> QED
    BY <1>1, <2>1, <2>2
<1>7. after \in [0 .. n - 1 -> [0 .. m -> 0 .. m]]
  <2>1. after = [slot \in 0 .. n - 1 |-> [next \in 0 .. m |-> after[slot][next]]]
    BY <1>3
  <2> QED
    BY <1>6, <2>1
<1>8. Steps(after, m, u)
  <2>1. \A slot \in 0 .. n - 1, next \in 0 .. m :
          /\ after[slot][next] \in {next, next + 1}
          /\ slot - next = u => after[slot][next] = next + 1
    BY <1>6
  <2>2. 0 .. n - 1 = 0 .. m + u - 1
    BY <1>1
  <2> QED
    BY <1>7, <2>1, <2>2 DEF Steps
<1>9. D(placed)
  <2> DEFINE X == 0 .. m
  <2>1. 0 \in X /\ after \in [0 .. n - 1 -> [X -> X]]
    BY <1>1, <1>7
  <2> HIDE DEF X
  <2>2. \E f : Loops(f, after, n)
    BY <1>1, <2>1, LoopExists
  <2>3. \E f : D(f)
    BY <1>5, <2>2
  <2> QED
    BY <2>3
<1> HIDE DEF placed
<1>10. Loops(placed, after, m + u)
  BY <1>1, <1>5, <1>9
<1>11. /\ placed[0] = 0
       /\ \A k \in 0 .. m + u : placed[k] \in 0 .. m /\ k - placed[k] \in 0 .. u
       /\ \A k \in 1 .. m + u : placed[k] = placed[k - 1] \/ placed[k] = placed[k - 1] + 1
       /\ \A k \in 1 .. m + u : placed[k] = after[k - 1][placed[k - 1]]
  BY <1>1, <1>8, <1>10, LoopCounts
<1>12. Counts(placed, managed, unmanaged)
  BY <1>11 DEF Counts, m, u
<1>13. ASSUME NEW k \in 1 .. n
       PROVE  placed[k] = IF Takes(managed, unmanaged, desired, placed[k - 1], k - 1)
                          THEN placed[k - 1] + 1 ELSE placed[k - 1]
  <2>1. k - 1 \in 0 .. n - 1 /\ k - 1 \in 0 .. m + u /\ k \in 1 .. m + u
    BY <1>1
  <2>2. placed[k] = after[k - 1][placed[k - 1]] /\ placed[k - 1] \in 0 .. m
    BY <1>11, <2>1
  <2> QED
    BY <1>3, <2>1, <2>2 DEF Takes, u
<1>14. Advances(placed, managed, unmanaged, desired)
  <2>1. n = Len(managed) + Len(unmanaged)
    BY DEF n, m, u
  <2> QED
    BY <1>13, <2>1 DEF Advances
<1> QED
  BY <1>2, <1>12, <1>14

\* A counter that goes up by steps of one meets every value on its way.
LEMMA Crossing ==
  ASSUME NEW n \in Nat, NEW f, \A k \in 0 .. n : f[k] \in Nat,
         f[0] = 0, \A k \in 1 .. n : f[k] <= f[k - 1] + 1,
         NEW j \in 1 .. f[n]
  PROVE  \E k \in 1 .. n : f[k] = j /\ f[k - 1] < j
<1> DEFINE T == {k \in 0 .. n : f[k] >= j}
<1>1. T \in SUBSET Nat /\ n \in T
  OBVIOUS
<1>2. PICK k \in T : \A i \in T : k <= i
  <2> HIDE DEF T
  <2> QED
    BY <1>1, Least
<1>3. k \in 1 .. n /\ k - 1 \in 0 .. n
  BY <1>2
<1>4. f[k - 1] \in Nat /\ f[k] \in Nat /\ f[k] >= j /\ f[k] <= f[k - 1] + 1
  BY <1>2, <1>3
<1>5. j \in Nat /\ f[k - 1] < j
  BY <1>2, <1>3, <1>4
<1>6. f[k] = j
  BY ONLY <1>4, <1>5
<1> QED
  BY <1>3, <1>5, <1>6

\* Each slot of the merge holds the managed rule it took, or the next of the others.
Merging(merged, placed, managed, unmanaged) ==
    LET m == Len(managed)
        u == Len(unmanaged)
    IN  /\ placed[0] = 0 /\ placed[m + u] = m
        /\ \A k \in 0 .. m + u : placed[k] \in 0 .. m /\ k - placed[k] \in 0 .. u
        /\ merged = [k \in 1 .. m + u |-> merged[k]]
        /\ \A k \in 1 .. m + u :
              \/ placed[k] = placed[k - 1] + 1 /\ placed[k] \in 1 .. m
                   /\ merged[k] = managed[placed[k]]
              \/ placed[k] = placed[k - 1] /\ k - placed[k] \in 1 .. u
                   /\ merged[k] = unmanaged[k - placed[k]]

LEMMA Slots ==
  ASSUME NEW managed, NEW unmanaged, IsRuleList(managed), IsRuleList(unmanaged), NEW desired
  PROVE  Merging(Merged(managed, unmanaged, desired), PlacedManaged(managed, unmanaged, desired),
                 managed, unmanaged)
<1> DEFINE m == Len(managed)
           u == Len(unmanaged)
           n == m + u
           placed == PlacedManaged(managed, unmanaged, desired)
           merged == Merged(managed, unmanaged, desired)
<1>1. m \in Nat /\ u \in Nat /\ n \in Nat
  BY ListForm
<1>2. Counts(placed, managed, unmanaged)
  BY <1>1, PlacedCounts
<1>3. merged = [k \in 1 .. n |-> IF placed[k] > placed[k - 1] THEN managed[placed[k]]
                                ELSE unmanaged[k - placed[k]]]
  BY DEF Merged
<1> HIDE DEF placed, merged
<1>4. /\ placed[0] = 0
      /\ \A k \in 0 .. n : placed[k] \in 0 .. m /\ k - placed[k] \in 0 .. u
      /\ \A k \in 1 .. n : placed[k] = placed[k - 1] \/ placed[k] = placed[k - 1] + 1
  BY <1>2 DEF Counts
<1>5. placed[n] = m
  <2>1. placed[n] \in 0 .. m /\ n - placed[n] \in 0 .. u
    BY <1>1, <1>4
  <2> QED
    BY <1>1, <2>1
<1>6. ASSUME NEW k \in 1 .. n
      PROVE  \/ placed[k] = placed[k - 1] + 1 /\ placed[k] \in 1 .. m
                  /\ merged[k] = managed[placed[k]]
             \/ placed[k] = placed[k - 1] /\ k - placed[k] \in 1 .. u
                  /\ merged[k] = unmanaged[k - placed[k]]
  <2>1. k \in 0 .. n /\ k - 1 \in 0 .. n
    BY <1>1
  <2>2. /\ placed[k] \in 0 .. m /\ k - placed[k] \in 0 .. u
        /\ placed[k - 1] \in 0 .. m /\ (k - 1) - placed[k - 1] \in 0 .. u
        /\ placed[k] = placed[k - 1] \/ placed[k] = placed[k - 1] + 1
    BY <1>4, <2>1
  <2>3. CASE placed[k] = placed[k - 1] + 1
    BY <1>1, <1>3, <2>2, <2>3
  <2>4. CASE placed[k] = placed[k - 1]
    BY <1>1, <1>3, <2>2, <2>4
  <2> QED
    BY <2>2, <2>3, <2>4
<1>7. merged = [k \in 1 .. n |-> merged[k]]
  BY <1>3
<1> QED
  BY <1>4, <1>5, <1>6, <1>7 DEF Merging, m, u, n, placed, merged

\* The slot that took a managed rule.
LEMMA SlotOf ==
  ASSUME NEW n \in Nat, NEW m \in Nat, NEW placed, placed[0] = 0, placed[n] = m,
         \A k \in 0 .. n : placed[k] \in 0 .. m,
         \A k \in 1 .. n : placed[k] = placed[k - 1] \/ placed[k] = placed[k - 1] + 1,
         NEW j \in 1 .. m
  PROVE  \E k \in 1 .. n : placed[k] = j /\ placed[k - 1] = j - 1
<1>1. \A k \in 0 .. n : placed[k] \in Nat
  OBVIOUS
<1>2. \A k \in 1 .. n : placed[k] <= placed[k - 1] + 1
  <2> TAKE k \in 1 .. n
  <2>1. placed[k] \in Int /\ placed[k - 1] \in Int
    BY <1>1
  <2> QED
    BY <2>1
<1>3. PICK k \in 1 .. n : placed[k] = j /\ placed[k - 1] < j
  BY <1>1, <1>2, Crossing
<1>4. placed[k - 1] \in Int /\ (placed[k] = placed[k - 1] \/ placed[k] = placed[k - 1] + 1)
  BY <1>1
<1> QED
  BY <1>3, <1>4

\* The merge puts every rule of both lists into a slot of its own.
LEMMA MergedHolds ==
  ASSUME NEW managed, NEW unmanaged, IsRuleList(managed), IsRuleList(unmanaged), NEW desired
  PROVE  LET merged == Merged(managed, unmanaged, desired)
         IN  /\ merged \in [1 .. Len(managed) + Len(unmanaged) -> Rules]
             /\ RulesIn(merged) = RulesIn(managed) \union RulesIn(unmanaged)
<1> DEFINE m == Len(managed)
           u == Len(unmanaged)
           n == m + u
           placed == PlacedManaged(managed, unmanaged, desired)
           merged == Merged(managed, unmanaged, desired)
<1>1. /\ m \in Nat /\ DOMAIN managed = 1 .. m /\ \A i \in 1 .. m : managed[i] \in Rules
      /\ u \in Nat /\ DOMAIN unmanaged = 1 .. u /\ \A i \in 1 .. u : unmanaged[i] \in Rules
  BY ListForm
<1>2. Merging(merged, placed, managed, unmanaged)
  BY Slots
<1> HIDE DEF placed, merged
<1>3. /\ n \in Nat /\ placed[0] = 0 /\ placed[n] = m
      /\ \A k \in 0 .. n : placed[k] \in 0 .. m /\ k - placed[k] \in 0 .. u
  BY <1>1, <1>2 DEF Merging
<1>4. ASSUME NEW k \in 1 .. n
      PROVE  \/ placed[k] = placed[k - 1] + 1 /\ placed[k] \in 1 .. m
                  /\ merged[k] = managed[placed[k]]
             \/ placed[k] = placed[k - 1] /\ k - placed[k] \in 1 .. u
                  /\ merged[k] = unmanaged[k - placed[k]]
  BY <1>2 DEF Merging
<1>5. merged = [k \in 1 .. n |-> merged[k]]
  BY <1>2 DEF Merging
<1> HIDE DEF m, u
<1>6. n = m + u
  OBVIOUS
<1> HIDE DEF n
<1>7. ASSUME NEW j \in 1 .. m PROVE \E k \in 1 .. n : merged[k] = managed[j]
  <2>1. \A k \in 1 .. n : placed[k] = placed[k - 1] \/ placed[k] = placed[k - 1] + 1
    BY <1>4
  <2>2. \A k \in 0 .. n : placed[k] \in 0 .. m
    BY <1>3
  <2>3. n \in Nat /\ m \in Nat /\ placed[0] = 0 /\ placed[n] = m
    BY <1>1, <1>3
  <2>4. PICK k \in 1 .. n : placed[k] = j /\ placed[k - 1] = j - 1
    BY <2>1, <2>2, <2>3, SlotOf
  <2> QED
    BY <1>4, <2>4
<1>8. ASSUME NEW j \in 1 .. u PROVE \E k \in 1 .. n : merged[k] = unmanaged[j]
  <2> DEFINE f == [k \in 0 .. n |-> k - placed[k]]
  <2>1. \A k \in 0 .. n : f[k] = k - placed[k] /\ f[k] \in Nat /\ placed[k] \in Int
    BY <1>1, <1>3
  <2>2. f[0] = 0 /\ f[n] = u
    BY <1>1, <1>3, <1>6, <2>1
  <2> HIDE DEF f
  <2>3. \A k \in 1 .. n : f[k] <= f[k - 1] + 1
    <3> TAKE k \in 1 .. n
    <3>1. k \in 0 .. n /\ k - 1 \in 0 .. n
      BY <1>3
    <3>2. /\ f[k] = k - placed[k] /\ f[k - 1] = (k - 1) - placed[k - 1]
          /\ placed[k] \in Int /\ placed[k - 1] \in Int
      BY <2>1, <3>1
    <3>3. placed[k] = placed[k - 1] \/ placed[k] = placed[k - 1] + 1
      BY <1>4
    <3> QED
      BY <3>2, <3>3
  <2>4. PICK k \in 1 .. n : f[k] = j /\ f[k - 1] < j
    BY <1>1, <1>3, <2>1, <2>2, <2>3, Crossing
  <2>5. k \in 0 .. n /\ k - 1 \in 0 .. n
    BY <1>3
  <2>6. k - placed[k] = j /\ (k - 1) - placed[k - 1] < j /\ placed[k] \in Int
          /\ placed[k - 1] \in Int
    BY <2>1, <2>4, <2>5
  <2> QED
    BY <1>4, <2>6
<1>9. merged \in [1 .. n -> Rules]
  <2>1. \A k \in 1 .. n : merged[k] \in Rules
    BY <1>1, <1>4
  <2> QED
    BY <1>5, <2>1
<1>10. RulesIn(merged) = RulesIn(managed) \union RulesIn(unmanaged)
  <2>1. RulesIn(merged) = {merged[k] : k \in 1 .. n}
    BY <1>9 DEF RulesIn
  <2>2. RulesIn(managed) = {managed[k] : k \in 1 .. m}
          /\ RulesIn(unmanaged) = {unmanaged[k] : k \in 1 .. u}
    BY <1>1 DEF RulesIn
  <2> QED
    BY <1>4, <1>7, <1>8, <2>1, <2>2
<1> QED
  BY <1>9, <1>10 DEF m, u, n, merged

\* Where no name occurs twice, no rule does.
LEMMA Distinct ==
  ASSUME NEW rules, IsRuleList(rules)
  PROVE  /\ IsFiniteSet(RulesIn(rules))
         /\ Cardinality(RulesIn(rules)) = Len(rules)
<1> DEFINE n == Len(rules)
<1>1. n \in Nat /\ DOMAIN rules = 1 .. n /\ \A i \in 1 .. n : rules[i] \in Rules
  BY ListForm
<1>2. rules \in [1 .. n -> RulesIn(rules)]
        /\ \A r \in RulesIn(rules) : \E i \in 1 .. n : rules[i] = r
  <2>1. rules = [i \in 1 .. n |-> rules[i]]
    BY <1>1 DEF IsRuleList
  <2> QED
    BY <1>1, <2>1 DEF RulesIn
<1>3. \A i, j \in 1 .. n : rules[i] = rules[j] => i = j
  BY <1>1 DEF IsRuleList
<1> HIDE DEF n
<1>4. rules \in Injection(1 .. n, RulesIn(rules)) /\ rules \in Surjection(1 .. n, RulesIn(rules))
  BY <1>2, <1>3 DEF Injection, Surjection, IsInjective
<1>5. IsFiniteSet(1 .. n) /\ Cardinality(1 .. n) = n
  BY <1>1, FS_Interval
<1>6. ExistsBijection(1 .. n, RulesIn(rules))
  BY <1>4 DEF Bijection, ExistsBijection
<1> QED
  BY <1>5, <1>6, FS_Bijection DEF n

\* A list of as many places as it has rules names none of them twice.
LEMMA Rearranged ==
  ASSUME NEW rules, IsRuleList(rules), NEW list, list \in [1 .. Len(rules) -> Rules],
         RulesIn(list) = RulesIn(rules)
  PROVE  IsRuleList(list) /\ Len(list) = Len(rules)
<1> DEFINE n == Len(rules)
<1>1. n \in Nat /\ DOMAIN rules = 1 .. n
  BY ListForm
<1>2. IsFiniteSet(RulesIn(rules)) /\ Cardinality(RulesIn(rules)) = n
  BY Distinct
<1>3. list \in [1 .. n -> Rules] /\ RulesIn(list) = RulesIn(rules)
  OBVIOUS
<1>4. list \in Seq(Rules) /\ Len(list) = n
  BY <1>1, <1>3, FormSeq
<1>5. \A r, s \in RulesIn(rules) : r.name = s.name => r = s
  BY DEF RulesIn, IsRuleList
<1> HIDE DEF n
<1>6. list \in Surjection(1 .. n, RulesIn(rules))
  BY <1>3 DEF Surjection, RulesIn
<1>7. IsFiniteSet(1 .. n) /\ Cardinality(1 .. n) = n
  BY <1>1, FS_Interval
<1>8. list \in Injection(1 .. n, RulesIn(rules))
  BY <1>2, <1>6, <1>7, FS_SurjSameCardinalityImpliesInj
<1>9. \A i, j \in 1 .. n : list[i].name = list[j].name => i = j
  BY <1>3, <1>5, <1>8 DEF Injection, IsInjective, RulesIn
<1> QED
  BY <1>3, <1>4, <1>9 DEF IsRuleList, Rules, n

\* arrangeFirewallRules moves rules and neither drops, adds nor repeats one.
LEMMA Arranged ==
  ASSUME NEW rules, IsRuleList(rules), NEW desired, \A n \in DOMAIN desired : desired[n] \in Int
  PROVE  /\ IsRuleList(ArrangeRules(rules, desired))
         /\ RulesIn(ArrangeRules(rules, desired)) = RulesIn(rules)
<1> DEFINE managed == Managed(rules, desired)
           unmanaged == Unmanaged(rules, desired)
           merged == Merged(managed, unmanaged, desired)
<1>1. IsRuleList(managed) /\ IsRuleList(unmanaged)
  BY ManagedGathers, OnlyNamedGathers DEF Unmanaged
<1>2. /\ RulesIn(managed) \union RulesIn(unmanaged) = RulesIn(rules)
      /\ Len(managed) + Len(unmanaged) = Len(rules)
  BY Split
<1>3. ArrangeRules(rules, desired) = merged
  BY DEF ArrangeRules
<1> HIDE DEF managed, unmanaged
<1>4. /\ merged \in [1 .. Len(managed) + Len(unmanaged) -> Rules]
      /\ RulesIn(merged) = RulesIn(managed) \union RulesIn(unmanaged)
  BY <1>1, MergedHolds
<1> HIDE DEF merged
<1>5. merged \in [1 .. Len(rules) -> Rules] /\ RulesIn(merged) = RulesIn(rules)
  <2> DEFINE k == Len(managed) + Len(unmanaged)
  <2>1. merged \in [1 .. k -> Rules] /\ k = Len(rules)
    BY <1>2, <1>4
  <2> HIDE DEF k
  <2> QED
    BY <1>2, <1>4, <2>1
<1> QED
  BY <1>3, <1>5, Rearranged

\* Looking a rule up by its name.
LEMMA Named ==
  ASSUME NEW rules, IsRuleList(rules), NEW r
  PROVE  r \in RulesIn(rules) <=> r.name \in NamesOf(rules) /\ RuleNamed(rules, r.name) = r
<1>1. ASSUME r \in RulesIn(rules) PROVE r.name \in NamesOf(rules) /\ RuleNamed(rules, r.name) = r
  <2>1. PICK i \in DOMAIN rules : rules[i] = r
    BY <1>1 DEF RulesIn
  <2>2. \A j \in DOMAIN rules : rules[j].name = r.name => j = i
    BY <2>1 DEF IsRuleList
  <2> QED
    BY <2>1, <2>2 DEF NamesOf, RuleNamed
<1>2. ASSUME r.name \in NamesOf(rules), RuleNamed(rules, r.name) = r PROVE r \in RulesIn(rules)
  BY <1>2 DEF NamesOf, RuleNamed, RulesIn
<1> QED
  BY <1>1, <1>2

LEMMA NamesAre ==
  ASSUME NEW rules
  PROVE  NamesOf(rules) = {r.name : r \in RulesIn(rules)}
  BY DEF NamesOf, RulesIn

\* Dropping a name, and writing a rule, touch that name only.
LEMMA Without ==
  ASSUME NEW rules, IsRuleList(rules), NEW n
  PROVE  /\ IsRuleList(WithoutRule(rules, n))
         /\ RulesIn(WithoutRule(rules, n)) = {r \in RulesIn(rules) : r.name # n}
<1>1. \A r \in RulesIn(rules) : r.name \in NamesOf(rules) \ {n} <=> r.name # n
  BY DEF NamesOf, RulesIn
<1> QED
  BY <1>1, OnlyNamedGathers DEF WithoutRule

LEMMA Upserted ==
  ASSUME NEW rules, IsRuleList(rules), NEW rule \in Rules
  PROVE  /\ IsRuleList(UpsertRule(rules, rule))
         /\ RulesIn(UpsertRule(rules, rule))
               = {r \in RulesIn(rules) : r.name # rule.name} \union {rule}
<1> DEFINE others == WithoutRule(rules, rule.name)
           list == UpsertRule(rules, rule)
           n == Len(others)
<1>1. IsRuleList(others) /\ RulesIn(others) = {r \in RulesIn(rules) : r.name # rule.name}
  BY Without
<1>2. others \in Seq(Rules) /\ n \in Nat /\ DOMAIN others = 1 .. n
  BY <1>1, ListForm DEF IsRuleList, Rules
<1>3. list = Append(others, rule)
  BY DEF UpsertRule
<1> HIDE DEF others, list
<1>4. list \in Seq(Rules) /\ DOMAIN list = 1 .. n + 1
      /\ list[n + 1] = rule /\ \A i \in 1 .. n : list[i] = others[i]
  BY <1>2, <1>3
<1> HIDE DEF n
<1>5. RulesIn(list) = RulesIn(others) \union {rule}
  <2>1. RulesIn(others) = {others[i] : i \in 1 .. n} /\ RulesIn(list) = {list[i] : i \in 1 .. n + 1}
    BY <1>2, <1>4 DEF RulesIn
  <2>2. 1 .. n + 1 = (1 .. n) \union {n + 1}
    BY <1>2
  <2> QED
    BY <1>4, <2>1, <2>2
<1>6. \A i, j \in 1 .. n + 1 : list[i].name = list[j].name => i = j
  <2>1. \A i \in 1 .. n : others[i].name # rule.name
    <3>1. \A i \in 1 .. n : others[i] \in RulesIn(others)
      BY <1>2 DEF RulesIn
    <3> QED
      BY <1>1, <3>1
  <2>2. \A i, j \in 1 .. n : others[i].name = others[j].name => i = j
    <3>1. \A i, j \in DOMAIN others : others[i].name = others[j].name => i = j
      BY <1>1 DEF IsRuleList
    <3> QED
      BY <1>2, <3>1
  <2>3. \A i \in 1 .. n + 1 : i \in 1 .. n \/ i = n + 1
    BY <1>2
  <2> QED
    BY <1>4, <2>1, <2>2, <2>3
<1> QED
  BY <1>1, <1>4, <1>5, <1>6 DEF IsRuleList, Rules, list

----------------------------------------------------------------------------
(***************************************************************************)
(* Where the layout puts a rule.  What a list holds decides where its      *)
(* managed rules go, whatever was done to it before.                       *)
(***************************************************************************)
\* The rules of a list with one of these names, and which of two comes first in it.
Those(rules, names) == {r \in RulesIn(rules) : r.name \in names}

Before(rules, r, s) == \E i, j \in DOMAIN rules : i < j /\ rules[i] = r /\ rules[j] = s

BeforeIn(rules, T) == {p \in T \X T : Before(rules, p[1], p[2])}

PrecedesIn(desired, T) == {p \in T \X T : Precedes(desired, p[1], p[2])}

\* A list of the rules at some places is a listing of those rules.
LEMMA Listing ==
  ASSUME NEW rules, IsRuleList(rules), NEW names, NEW places, places = PlacesOf(rules, names),
         NEW R, IsOrder(R, places), NEW Q,
         \A i, j \in places : <<i, j>> \in R <=> <<rules[i], rules[j]>> \in Q
  PROVE  [k \in 1 .. Cardinality(places) |-> rules[InOrder(places, R)[k]]]
             = InOrder(Those(rules, names), Q)
<1> DEFINE T == Those(rules, names)
           at == InOrder(places, R)
           n == Cardinality(places)
           f == [i \in places |-> rules[i]]
<1>1. IsFiniteSet(places) /\ places \subseteq DOMAIN rules
  BY PlacesInOrder
<1>2. \A i, j \in places : rules[i] = rules[j] => i = j
  BY <1>1 DEF IsRuleList
<1>3. (\A i \in places : rules[i] \in T) /\ \A t \in T : \E i \in places : rules[i] = t
  BY DEF Those, PlacesOf, RulesIn
<1>4. f \in [places -> T] /\ \A i \in places : f[i] = rules[i]
  BY <1>3
<1> HIDE DEF f, T
<1>5. f \in Injection(places, T) /\ f \in Surjection(places, T)
  BY <1>2, <1>3, <1>4 DEF Injection, Surjection, IsInjective
<1>6. f \in Bijection(places, T)
  BY <1>5 DEF Bijection
<1>7. \A i, j \in places : <<i, j>> \in R <=> <<f[i], f[j]>> \in Q
  BY <1>4
<1>8. InOrder(T, Q) = [k \in 1 .. n |-> f[at[k]]]
  BY <1>1, <1>6, <1>7, InOrderMaps
<1>9. \A k \in 1 .. n : at[k] \in places
  BY <1>1, InOrderRises
<1> HIDE DEF at, n
<1>10. [k \in 1 .. n |-> rules[at[k]]] = [k \in 1 .. n |-> f[at[k]]]
  BY <1>4, <1>9
<1> QED
  BY <1>8, <1>10 DEF T, at, n

LEMMA ManagedIs ==
  ASSUME NEW rules, IsRuleList(rules), NEW desired, \A n \in DOMAIN desired : desired[n] \in Int,
         NEW T, T = Those(rules, DOMAIN desired)
  PROVE  Managed(rules, desired) = InOrder(T, PrecedesIn(desired, T))
<1> DEFINE names == DOMAIN desired
           places == PlacesOf(rules, names)
           R == ByPriority(rules, desired, places)
           Q == PrecedesIn(desired, T)
<1>1. /\ IsOrder(R, places)
      /\ \A i, j \in places : <<i, j>> \in R <=> Precedes(desired, rules[i], rules[j])
  BY PlacesByPriority
<1>2. \A i \in places : rules[i] \in T
  BY DEF Those, PlacesOf, RulesIn
<1>3. Managed(rules, desired) = [k \in 1 .. Cardinality(places) |-> rules[InOrder(places, R)[k]]]
  BY DEF Managed, ByPriority
<1> HIDE DEF R
<1>4. \A i, j \in places : <<i, j>> \in R <=> <<rules[i], rules[j]>> \in Q
  BY <1>1, <1>2 DEF PrecedesIn
<1>5. T = Those(rules, names) /\ places = PlacesOf(rules, names)
  OBVIOUS
<1>6. IsOrder(R, places)
  BY <1>1
<1> HIDE DEF places, names, Q
<1>7. Managed(rules, desired) = InOrder(Those(rules, names), Q)
  BY <1>3, <1>4, <1>5, <1>6, Listing
<1> QED
  BY <1>5, <1>7 DEF Q

LEMMA BeforeAt ==
  ASSUME NEW rules, IsRuleList(rules), NEW i \in DOMAIN rules, NEW j \in DOMAIN rules
  PROVE  Before(rules, rules[i], rules[j]) <=> i < j
  BY DEF Before, IsRuleList

LEMMA OnlyNamedIs ==
  ASSUME NEW rules, IsRuleList(rules), NEW names, NEW T, T = Those(rules, names)
  PROVE  OnlyNamed(rules, names) = InOrder(T, BeforeIn(rules, T))
<1> DEFINE places == PlacesOf(rules, names)
           R == InPlace(places)
<1>1. IsOrder(R, places) /\ places \subseteq DOMAIN rules
  BY PlacesInOrder
<1>2. \A i \in places : rules[i] \in T
  BY DEF Those, PlacesOf, RulesIn
<1>3. OnlyNamed(rules, names) = [k \in 1 .. Cardinality(places) |-> rules[InOrder(places, R)[k]]]
  BY DEF OnlyNamed, InPlace
<1>4. \A i, j \in places : <<i, j>> \in R <=> <<rules[i], rules[j]>> \in BeforeIn(rules, T)
  BY <1>1, <1>2, BeforeAt DEF BeforeIn, InPlace
<1> HIDE DEF places, R
<1> QED
  BY <1>1, <1>3, <1>4, Listing DEF places

\* So a list's managed rules depend on what is in it and not on where,
LEMMA ManagedSame ==
  ASSUME NEW rules, IsRuleList(rules), NEW other, IsRuleList(other),
         RulesIn(rules) = RulesIn(other), NEW desired, \A n \in DOMAIN desired : desired[n] \in Int
  PROVE  Managed(rules, desired) = Managed(other, desired)
<1>1. Those(rules, DOMAIN desired) = Those(other, DOMAIN desired)
  BY DEF Those
<1> QED
  BY <1>1, ManagedIs

\* and the others on which of them comes first.
LEMMA OnlyNamedSame ==
  ASSUME NEW rules, IsRuleList(rules), NEW other, IsRuleList(other), NEW names,
         Those(rules, names) = Those(other, names),
         \A r, s \in Those(rules, names) : Before(rules, r, s) => Before(other, r, s)
  PROVE  OnlyNamed(rules, names) = OnlyNamed(other, names)
<1> DEFINE T == Those(rules, names)
<1>1. T \subseteq RulesIn(rules) /\ T \subseteq RulesIn(other)
  BY DEF Those
<1> HIDE DEF T
<1>2. ASSUME NEW r \in T, NEW s \in T PROVE Before(other, r, s) => Before(rules, r, s)
  <2>1. PICK i \in DOMAIN rules, j \in DOMAIN rules : rules[i] = r /\ rules[j] = s
    BY <1>1 DEF RulesIn
  <2>2. PICK k \in DOMAIN other, l \in DOMAIN other : other[k] = r /\ other[l] = s
    BY <1>1 DEF RulesIn
  <2>3. i \in Int /\ j \in Int /\ k \in Int /\ l \in Int
    BY ListForm
  <2>4. Before(rules, r, s) <=> i < j
    BY <2>1, BeforeAt
  <2>5. Before(other, r, s) <=> k < l
    BY <2>2, BeforeAt
  <2>6. Before(rules, s, r) <=> j < i
    BY <2>1, BeforeAt
  <2>7. Before(other, s, r) <=> l < k
    BY <2>2, BeforeAt
  <2>8. i = j <=> k = l
    BY <2>1, <2>2 DEF IsRuleList
  <2>9. Before(rules, s, r) => Before(other, s, r)
    BY DEF T
  <2> QED
    BY <2>3, <2>4, <2>5, <2>6, <2>7, <2>8, <2>9
<1>3. BeforeIn(rules, T) = BeforeIn(other, T)
  <2>1. \A r, s \in T : Before(rules, r, s) <=> Before(other, r, s)
    BY <1>2 DEF T
  <2> QED
    BY <2>1 DEF BeforeIn
<1>4. OnlyNamed(rules, names) = InOrder(T, BeforeIn(rules, T))
  BY OnlyNamedIs DEF T
<1>5. OnlyNamed(other, names) = InOrder(T, BeforeIn(other, T))
  BY OnlyNamedIs DEF T
<1> QED
  BY <1>3, <1>4, <1>5

\* A part of a list is in the list's order.
LEMMA OnlyNamedKeeps ==
  ASSUME NEW rules, IsRuleList(rules), NEW names, NEW r, NEW s,
         Before(OnlyNamed(rules, names), r, s)
  PROVE  Before(rules, r, s)
<1> DEFINE places == PlacesOf(rules, names)
           R == InPlace(places)
           at == InOrder(places, R)
           n == Cardinality(places)
           list == OnlyNamed(rules, names)
<1>1. IsFiniteSet(places) /\ IsOrder(R, places) /\ places \subseteq DOMAIN rules
  BY PlacesInOrder
<1>2. list = [k \in 1 .. n |-> rules[at[k]]]
  BY DEF OnlyNamed, InPlace
<1>3. PICK a \in DOMAIN list, b \in DOMAIN list : a < b /\ list[a] = r /\ list[b] = s
  BY DEF Before
<1>4. a \in 1 .. n /\ b \in 1 .. n /\ rules[at[a]] = r /\ rules[at[b]] = s
  BY <1>2, <1>3
<1>5. at[a] \in places /\ at[b] \in places /\ <<at[a], at[b]>> \in R
  BY <1>1, <1>3, <1>4, InOrderRises
<1>6. at[a] < at[b]
  BY <1>5 DEF InPlace
<1> QED
  BY <1>1, <1>4, <1>5, <1>6 DEF Before

\* A counter that goes up by steps of one gets no further than its steps.
LEMMA Rising ==
  ASSUME NEW n \in Nat, NEW f, \A k \in 0 .. n : f[k] \in Int,
         \A k \in 1 .. n : f[k] = f[k - 1] \/ f[k] = f[k - 1] + 1,
         NEW i \in 0 .. n, NEW j \in i .. n
  PROVE  f[i] <= f[j] /\ f[j] - f[i] <= j - i
<1> DEFINE S == {e \in 0 .. n - i : f[i] <= f[i + e] /\ f[i + e] - f[i] <= e}
           h == n - i
<1>1. h \in Nat
  OBVIOUS
<1>2. 0 \in S
  <2>1. i + 0 = i /\ f[i] \in Int /\ 0 \in 0 .. n - i
    OBVIOUS
  <2> QED
    BY <2>1
<1>3. ASSUME NEW e \in 0 .. h - 1, e \in S PROVE e + 1 \in S
  <2>1. i + e \in 0 .. n /\ i + (e + 1) \in 1 .. n /\ i + (e + 1) - 1 = i + e
        /\ e + 1 \in 0 .. n - i
    BY <1>1
  <2>2. /\ f[i + (e + 1)] = f[i + e] \/ f[i + (e + 1)] = f[i + e] + 1
        /\ f[i + (e + 1)] \in Int /\ f[i + e] \in Int /\ f[i] \in Int
    BY <2>1
  <2>3. f[i] <= f[i + e] /\ f[i + e] - f[i] <= e
    BY <1>3
  <2>4. f[i] <= f[i + (e + 1)] /\ f[i + (e + 1)] - f[i] <= e + 1
    BY ONLY <2>2, <2>3, e \in Int
  <2> QED
    BY <2>1, <2>4
<1>4. 0 .. h \subseteq S
  <2>1. \A e \in 0 .. h - 1 : e \in S => e + 1 \in S
    BY <1>3
  <2> HIDE DEF S, h
  <2> QED
    BY <1>1, <1>2, <2>1, Induct
<1>5. j - i \in 0 .. h /\ i + (j - i) = j
  OBVIOUS
<1>6. j - i \in S
  BY <1>4, <1>5
<1> QED
  BY <1>5, <1>6

\* The merge keeps the others in their order.
LEMMA MergedKeeps ==
  ASSUME NEW managed, NEW unmanaged, IsRuleList(managed), IsRuleList(unmanaged), NEW desired,
         NEW r, NEW s, r \notin RulesIn(managed), s \notin RulesIn(managed),
         Before(Merged(managed, unmanaged, desired), r, s)
  PROVE  Before(unmanaged, r, s)
<1> DEFINE m == Len(managed)
           u == Len(unmanaged)
           n == m + u
           placed == PlacedManaged(managed, unmanaged, desired)
           merged == Merged(managed, unmanaged, desired)
<1>1. /\ m \in Nat /\ DOMAIN managed = 1 .. m
      /\ u \in Nat /\ DOMAIN unmanaged = 1 .. u
  BY ListForm
<1>2. Merging(merged, placed, managed, unmanaged)
  BY Slots
<1> HIDE DEF placed, merged
<1>3. \A k \in 0 .. n : placed[k] \in 0 .. m
  BY <1>2 DEF Merging
<1>4. ASSUME NEW k \in 1 .. n
      PROVE  \/ placed[k] = placed[k - 1] + 1 /\ placed[k] \in 1 .. m
                  /\ merged[k] = managed[placed[k]]
             \/ placed[k] = placed[k - 1] /\ k - placed[k] \in 1 .. u
                  /\ merged[k] = unmanaged[k - placed[k]]
  BY <1>2 DEF Merging
<1>5. merged = [k \in 1 .. n |-> merged[k]]
  BY <1>2 DEF Merging
<1>6. PICK i \in 1 .. n, j \in 1 .. n : i < j /\ merged[i] = r /\ merged[j] = s
  <2>1. PICK i \in DOMAIN merged, j \in DOMAIN merged : i < j /\ merged[i] = r /\ merged[j] = s
    BY DEF Before, merged
  <2>2. DOMAIN merged = 1 .. n
    BY <1>5
  <2> QED
    BY <2>1, <2>2
<1>7. n \in Nat
  BY <1>1
<1> HIDE DEF m, u, n
<1>8. \A k \in 1 .. m : managed[k] \in RulesIn(managed)
  BY <1>1 DEF RulesIn
<1>9. placed[i] = placed[i - 1] /\ i - placed[i] \in 1 .. u /\ r = unmanaged[i - placed[i]]
  BY <1>4, <1>6, <1>8
<1>10. placed[j] = placed[j - 1] /\ j - placed[j] \in 1 .. u /\ s = unmanaged[j - placed[j]]
  BY <1>4, <1>6, <1>8
<1>11. placed[j - 1] - placed[i] <= (j - 1) - i
  <2>1. \A k \in 0 .. n : placed[k] \in Int
    BY <1>1, <1>3
  <2>2. \A k \in 1 .. n : placed[k] = placed[k - 1] \/ placed[k] = placed[k - 1] + 1
    BY <1>4
  <2>3. i \in 0 .. n /\ j - 1 \in i .. n
    BY <1>6, <1>7
  <2> QED
    BY <1>7, <2>1, <2>2, <2>3, Rising
<1>12. i - placed[i] < j - placed[j]
  <2>1. i \in 0 .. n /\ j \in 0 .. n
    BY <1>7
  <2>2. placed[i] \in Int /\ placed[j] \in Int
    BY <1>1, <1>3, <2>1
  <2> QED
    BY <1>10, <1>11, <2>1, <2>2
<1> QED
  BY <1>1, <1>9, <1>10, <1>12 DEF Before

\* Laying a list out keeps its unmanaged rules in their order.
LEMMA ArrangedKeeps ==
  ASSUME NEW rules, IsRuleList(rules), NEW desired, \A n \in DOMAIN desired : desired[n] \in Int,
         NEW r, NEW s, r.name \notin DOMAIN desired, s.name \notin DOMAIN desired,
         Before(ArrangeRules(rules, desired), r, s)
  PROVE  Before(rules, r, s)
<1> DEFINE managed == Managed(rules, desired)
           unmanaged == Unmanaged(rules, desired)
<1>1. IsRuleList(managed) /\ IsRuleList(unmanaged)
  BY ManagedGathers, OnlyNamedGathers DEF Unmanaged
<1>2. r \notin RulesIn(managed) /\ s \notin RulesIn(managed)
  BY ManagedGathers
<1>3. Before(Merged(managed, unmanaged, desired), r, s)
  BY DEF ArrangeRules
<1> HIDE DEF managed, unmanaged
<1>4. Before(unmanaged, r, s)
  BY <1>1, <1>2, <1>3, MergedKeeps
<1> QED
  BY <1>4, OnlyNamedKeeps DEF unmanaged, Unmanaged

\* The two kinds of rules, each in its order, are what they were.
LEMMA ArrangedSplit ==
  ASSUME NEW rules, IsRuleList(rules), NEW desired, \A n \in DOMAIN desired : desired[n] \in Int,
         NEW laid, laid = ArrangeRules(rules, desired)
  PROVE  /\ Managed(laid, desired) = Managed(rules, desired)
         /\ Unmanaged(laid, desired) = Unmanaged(rules, desired)
<1>1. IsRuleList(laid) /\ RulesIn(laid) = RulesIn(rules)
  BY Arranged
<1>2. Managed(laid, desired) = Managed(rules, desired)
  BY <1>1, ManagedSame
<1> DEFINE names == NamesOf(rules) \ DOMAIN desired
<1>3. NamesOf(laid) = NamesOf(rules)
  BY <1>1, NamesAre
<1>4. \A r \in Those(laid, names) : r.name \notin DOMAIN desired
  BY DEF Those
<1>5. Those(laid, names) = Those(rules, names)
  BY <1>1 DEF Those
<1>6. \A r, s \in Those(laid, names) : Before(laid, r, s) => Before(rules, r, s)
  BY <1>4, ArrangedKeeps
<1> HIDE DEF names
<1>7. OnlyNamed(laid, names) = OnlyNamed(rules, names)
  BY <1>1, <1>5, <1>6, OnlyNamedSame
<1> QED
  BY <1>2, <1>3, <1>7 DEF Unmanaged, names

\* A list that arrangeFirewallRules has laid out it leaves as it is: a write that changes
\* nothing moves nothing.
THEOREM Idempotent ==
  ASSUME NEW rules, IsRuleList(rules), NEW desired, \A n \in DOMAIN desired : desired[n] \in Int
  PROVE  ArrangeRules(ArrangeRules(rules, desired), desired) = ArrangeRules(rules, desired)
<1> DEFINE laid == ArrangeRules(rules, desired)
<1>1. /\ Managed(laid, desired) = Managed(rules, desired)
      /\ Unmanaged(laid, desired) = Unmanaged(rules, desired)
  BY ArrangedSplit
<1> HIDE DEF laid
<1>2. ArrangeRules(laid, desired) = ArrangeRules(rules, desired)
  BY <1>1 DEF ArrangeRules
<1> QED
  BY <1>2 DEF laid

----------------------------------------------------------------------------
\* The loop's counter, over m rules of which number i is due at d[i], and u others.
Looping(placed, d, m, u) ==
    /\ placed[0] = 0
    /\ \A i \in 1 .. m : d[i] \in Nat
    /\ \A k \in 0 .. m + u : placed[k] \in 0 .. m /\ k - placed[k] \in 0 .. u
    /\ \A k \in 1 .. m + u :
          placed[k] = IF \/ placed[k - 1] < m /\ d[placed[k - 1] + 1] <= k - 1
                         \/ (k - 1) - placed[k - 1] >= u
                      THEN placed[k - 1] + 1 ELSE placed[k - 1]

\* The slot where the counter gets to j.
Reaches(placed, k, j) == placed[k] = j /\ placed[k - 1] = j - 1

\* The first position after the one before and not before it is due, or the last there is.
Fits(pos, prev, due, roof) ==
    LET floor == IF due > prev THEN due ELSE prev + 1
    IN  pos = IF floor < roof THEN floor ELSE roof

\* Where the loop puts rule number j, given where it put the one before: the slots in
\* between took none.
LEMMA NextSlot ==
  ASSUME NEW m \in Nat, NEW u \in Nat, NEW placed, NEW d, Looping(placed, d, m, u),
         NEW j \in 1 .. m, NEW k \in 1 .. m + u, Reaches(placed, k, j),
         NEW prev, \/ j = 1 /\ prev = 0 - 1
                   \/ \E l \in 1 .. m + u : Reaches(placed, l, j - 1) /\ prev = l - 1
  PROVE  Fits(k - 1, prev, d[j], u + j - 1)
<1> DEFINE n == m + u
           pos == k - 1
           roof == u + j - 1
           floor == IF d[j] > prev THEN d[j] ELSE prev + 1
<1>1. /\ placed[0] = 0
      /\ \A i \in 1 .. m : d[i] \in Nat
      /\ \A i \in 0 .. n : placed[i] \in 0 .. m /\ i - placed[i] \in 0 .. u
      /\ \A i \in 1 .. n :
            placed[i] = IF \/ placed[i - 1] < m /\ d[placed[i - 1] + 1] <= i - 1
                           \/ (i - 1) - placed[i - 1] >= u
                        THEN placed[i - 1] + 1 ELSE placed[i - 1]
  BY DEF Looping
<1>2. placed[k] = j /\ placed[k - 1] = j - 1
  BY DEF Reaches
<1>3. \/ j = 1 /\ prev = 0 - 1
      \/ \E l \in 1 .. n : placed[l] = j - 1 /\ placed[l - 1] = j - 2 /\ prev = l - 1
  <2>1. (j - 1) - 1 = j - 2
    OBVIOUS
  <2> QED
    BY <2>1 DEF Reaches
<1>4. n = m + u /\ k \in 1 .. n /\ pos = k - 1 /\ roof = u + j - 1 /\ roof = n - 1 - (m - j)
  OBVIOUS
<1>5. floor = IF d[j] > prev THEN d[j] ELSE prev + 1
  OBVIOUS
<1> HIDE DEF n, pos, roof, floor
<1>6. n \in Nat /\ roof = u + j - 1 /\ d[j] \in Nat /\ pos \in Nat /\ j \in Nat
  BY <1>1, <1>4
<1>7. \A i \in 0 .. n : placed[i] \in Int
  BY <1>1
<1>8. \A i \in 1 .. n : placed[i] = placed[i - 1] \/ placed[i] = placed[i - 1] + 1
  BY <1>1
<1>9. pos <= roof
  <2>1. k \in 0 .. n /\ k - placed[k] \in 0 .. u
    BY <1>1, <1>2, <1>4, <1>6
  <2> QED
    BY <1>1, <1>2, <1>4, <1>6, <2>1
<1>10. d[j] <= pos \/ pos >= roof
  <2>1. \/ placed[k - 1] < m /\ d[placed[k - 1] + 1] <= k - 1
        \/ (k - 1) - placed[k - 1] >= u
    <3>1. placed[k] # placed[k - 1]
      BY <1>1, <1>2, <1>4, <1>6
    <3> QED
      BY <1>1, <1>4, <3>1
  <2>2. placed[k - 1] + 1 = j
    BY <1>1, <1>2, <1>4, <1>6
  <2>3. d[j] <= k - 1 \/ (k - 1) - (j - 1) >= u
    BY <1>2, <2>1, <2>2
  <2> QED
    BY <1>1, <1>2, <1>4, <1>6, <2>3
<1>11. prev \in Int /\ prev < pos /\ (prev = 0 - 1 \/ prev >= 0)
  <2>1. CASE j = 1 /\ prev = 0 - 1
    BY <1>1, <1>2, <1>4, <1>6, <2>1
  <2>2. ASSUME NEW l \in 1 .. n, placed[l] = j - 1, placed[l - 1] = j - 2, prev = l - 1 PROVE l < k
    <3> SUFFICES ASSUME k <= l PROVE FALSE
      BY <1>1, <1>2, <1>4, <1>6
    <3>1. k \in 0 .. n /\ l \in k .. n
      BY <1>1, <1>2, <1>4, <1>6
    <3>2. placed[k] <= placed[l]
      BY <1>2, <1>4, <1>6, <1>7, <1>8, <3>1, Rising
    <3> QED
      BY <1>1, <1>2, <1>4, <1>6, <2>2, <3>2
  <2> QED
    BY <1>3, <1>4, <1>6, <2>1, <2>2
<1>12. pos = prev + 1 \/ (pos - 1 < d[j] /\ pos - 1 < roof)
  <2> SUFFICES ASSUME pos # prev + 1 PROVE pos - 1 < d[j] /\ pos - 1 < roof
    OBVIOUS
  <2>1. prev + 1 < pos /\ pos >= 1 /\ k - 1 \in 1 .. n /\ k - 2 \in 0 .. n /\ (k - 1) - 1 = k - 2
    BY <1>4, <1>6, <1>11
  <2>2. placed[k - 2] = j - 1
    <3>1. CASE j = 1
      <4>1. placed[k - 2] \in 0 .. m
        BY <1>1, <2>1
      <4>2. placed[k - 1] = placed[k - 2] \/ placed[k - 1] = placed[k - 2] + 1
        BY <1>8, <2>1
      <4> QED
        BY <1>2, <3>1, <4>1, <4>2
    <3>2. CASE j # 1
      <4>1. PICK l \in 1 .. n : placed[l] = j - 1 /\ prev = l - 1
        BY <1>3, <3>2
      <4>2. l \in 0 .. n /\ k - 2 \in l .. n
        BY <1>4, <1>6, <2>1, <4>1
      <4>3. placed[l] <= placed[k - 2]
        BY <1>2, <1>4, <1>6, <1>7, <1>8, <4>2, Rising
      <4>4. placed[k - 1] = placed[k - 2] \/ placed[k - 1] = placed[k - 2] + 1
        BY <1>8, <2>1
      <4>5. placed[k - 2] \in Int
        BY <1>7, <2>1
      <4> QED
        BY <1>1, <1>2, <1>4, <1>6, <4>1, <4>3, <4>4, <4>5
    <3> QED
      BY <3>1, <3>2
  <2>3. ~(\/ placed[k - 2] < m /\ d[placed[k - 2] + 1] <= k - 2
          \/ (k - 2) - placed[k - 2] >= u)
    <3>1. placed[k - 1] = IF \/ placed[k - 2] < m /\ d[placed[k - 2] + 1] <= k - 2
                            \/ (k - 2) - placed[k - 2] >= u
                         THEN placed[k - 2] + 1 ELSE placed[k - 2]
      BY <1>1, <2>1
    <3>2. placed[k - 1] # placed[k - 2] + 1
      BY <1>1, <1>2, <1>4, <1>6, <2>2
    <3> QED
      BY <3>1, <3>2
  <2>4. ~(d[j] <= k - 2) /\ ~((k - 2) - (j - 1) >= u)
    <3>1. placed[k - 2] + 1 = j /\ placed[k - 2] < m
      BY <1>1, <1>2, <1>4, <1>6, <2>2
    <3> QED
      BY <2>2, <2>3, <3>1
  <2> QED
    BY <1>1, <1>2, <1>4, <1>6, <2>4
<1>13. pos = IF floor < roof THEN floor ELSE roof
  BY ONLY <1>5, <1>6, <1>9, <1>10, <1>11, <1>12
<1> QED
  BY <1>13 DEF Fits, pos, floor, roof

\* The first half of LaidOut: every managed rule is where its priority puts it.
Positioned(rules, desired) ==
    LET managed  == Managed(rules, desired)
        k        == Len(managed)
        pos(j)   == PriorityOf(rules, managed[j].name)
        floor(j) == IF j = 1 \/ desired[managed[j].name] > pos(j - 1)
                    THEN desired[managed[j].name] ELSE pos(j - 1) + 1
        roof(j)  == Len(rules) - 1 - (k - j)
    IN  \A j \in 1 .. k : pos(j) = IF floor(j) < roof(j) THEN floor(j) ELSE roof(j)

LEMMA PriorityAt ==
  ASSUME NEW rules, IsRuleList(rules), NEW i \in DOMAIN rules
  PROVE  PriorityOf(rules, rules[i].name) = i - 1
<1>1. \A j \in DOMAIN rules : rules[j].name = rules[i].name => j = i
  BY DEF IsRuleList
<1>2. (CHOOSE j \in DOMAIN rules : rules[j].name = rules[i].name) = i
  BY <1>1
<1> QED
  BY <1>2 DEF PriorityOf

\* arrangeFirewallRules puts them there.
LEMMA ArrangedPositioned ==
  ASSUME NEW rules, IsRuleList(rules), NEW desired, \A n \in DOMAIN desired : desired[n] \in Nat,
         NEW laid, laid = ArrangeRules(rules, desired)
  PROVE  Positioned(laid, desired)
<1> DEFINE managed == Managed(rules, desired)
           unmanaged == Unmanaged(rules, desired)
           m == Len(managed)
           u == Len(unmanaged)
           n == m + u
           placed == PlacedManaged(managed, unmanaged, desired)
           d == [i \in 1 .. m |-> desired[managed[i].name]]
<1>1. \A i \in DOMAIN desired : desired[i] \in Int
  OBVIOUS
<1>2. IsRuleList(managed) /\ IsRuleList(unmanaged) /\ IsRuleList(laid)
  BY <1>1, ManagedGathers, OnlyNamedGathers, Arranged DEF Unmanaged
<1>3. \A i \in DOMAIN managed : managed[i].name \in DOMAIN desired
  BY <1>1, ManagedGathers DEF RulesIn
<1>4. Managed(laid, desired) = managed
  BY <1>1, ArrangedSplit
<1>5. laid = Merged(managed, unmanaged, desired)
  BY DEF ArrangeRules
<1> HIDE DEF managed, unmanaged
<1>6. m \in Nat /\ DOMAIN managed = 1 .. m /\ u \in Nat /\ n \in Nat
  BY <1>2, ListForm
<1>7. Merging(laid, placed, managed, unmanaged)
  BY <1>2, <1>5, Slots
<1>8. Advances(placed, managed, unmanaged, desired)
  BY <1>6, PlacedCounts
<1> HIDE DEF placed
<1>9. /\ placed[0] = 0 /\ placed[n] = m
      /\ \A k \in 0 .. n : placed[k] \in 0 .. m /\ k - placed[k] \in 0 .. u
  BY <1>7 DEF Merging
<1>10. ASSUME NEW k \in 1 .. n
       PROVE  \/ placed[k] = placed[k - 1] + 1 /\ laid[k] = managed[placed[k]]
              \/ placed[k] = placed[k - 1]
  BY <1>7 DEF Merging
<1>11. \A i \in 1 .. m : d[i] = desired[managed[i].name] /\ d[i] \in Nat
  BY <1>3, <1>6
<1>12. ASSUME NEW k \in 1 .. n
       PROVE  placed[k] = IF \/ placed[k - 1] < m /\ d[placed[k - 1] + 1] <= k - 1
                             \/ (k - 1) - placed[k - 1] >= u
                          THEN placed[k - 1] + 1 ELSE placed[k - 1]
  <2>1. placed[k] = IF Takes(managed, unmanaged, desired, placed[k - 1], k - 1)
                    THEN placed[k - 1] + 1 ELSE placed[k - 1]
    BY <1>8 DEF Advances
  <2>2. k - 1 \in 0 .. n /\ placed[k - 1] \in 0 .. m
    BY <1>6, <1>9
  <2>3. placed[k - 1] < m => placed[k - 1] + 1 \in 1 .. m
    BY <1>6, <2>2
  <2>4. placed[k - 1] < m =>
           d[placed[k - 1] + 1] = desired[managed[placed[k - 1] + 1].name]
    BY <1>11, <2>3
  <2> QED
    BY <2>1, <2>4 DEF Takes, Due
<1>13. DOMAIN laid = 1 .. n /\ Len(laid) = n
  <2>1. DOMAIN laid = 1 .. n
    BY <1>7 DEF Merging
  <2>2. Len(laid) \in Nat /\ DOMAIN laid = 1 .. Len(laid)
    BY <1>2, ListForm
  <2> HIDE DEF n
  <2> QED
    BY <1>6, <2>1, <2>2
<1>14. n = m + u
  OBVIOUS
<1> HIDE DEF m, u, n, d
<1>15. ASSUME NEW j \in 1 .. m
       PROVE  \E k \in 1 .. n : Reaches(placed, k, j) /\ PriorityOf(laid, managed[j].name) = k - 1
  <2>1. \A k \in 1 .. n : placed[k] = placed[k - 1] \/ placed[k] = placed[k - 1] + 1
    BY <1>10
  <2>2. \A k \in 0 .. n : placed[k] \in 0 .. m
    BY <1>9
  <2>3. n \in Nat /\ m \in Nat /\ placed[0] = 0 /\ placed[n] = m
    BY <1>6, <1>9
  <2>4. PICK k \in 1 .. n : placed[k] = j /\ placed[k - 1] = j - 1
    BY <2>1, <2>2, <2>3, SlotOf
  <2>5. laid[k] = managed[j]
    BY <1>10, <2>4
  <2>6. PriorityOf(laid, laid[k].name) = k - 1
    BY <1>2, <1>13, PriorityAt
  <2> QED
    BY <2>4, <2>5, <2>6 DEF Reaches
<1> DEFINE pos(j) == PriorityOf(laid, managed[j].name)
           floor(j) == IF j = 1 \/ desired[managed[j].name] > pos(j - 1)
                       THEN desired[managed[j].name] ELSE pos(j - 1) + 1
           roof(j) == Len(laid) - 1 - (m - j)
<1>16. Looping(placed, d, m, u)
  BY <1>9, <1>11, <1>12, <1>14 DEF Looping
<1>17. ASSUME NEW j \in 1 .. m
       PROVE  pos(j) = IF floor(j) < roof(j) THEN floor(j) ELSE roof(j)
  <2> DEFINE prev == IF j = 1 THEN 0 - 1 ELSE pos(j - 1)
  <2>1. PICK k \in 1 .. n : Reaches(placed, k, j) /\ pos(j) = k - 1
    BY <1>15
  <2>2. \/ j = 1 /\ prev = 0 - 1
        \/ \E l \in 1 .. m + u : Reaches(placed, l, j - 1) /\ prev = l - 1
    <3>1. CASE j # 1
      <4>1. j - 1 \in 1 .. m
        BY <1>6, <3>1
      <4> QED
        BY <1>14, <1>15, <3>1, <4>1
    <3> QED
      BY <3>1
  <2>3. k \in 1 .. m + u
    BY <1>14
  <2>4. floor(j) = IF d[j] > prev THEN d[j] ELSE prev + 1
    <3>1. d[j] \in Nat /\ d[j] = desired[managed[j].name]
      BY <1>11
    <3> QED
      BY <3>1
  <2>5. roof(j) = u + j - 1
    BY <1>6, <1>13, <1>14
  <2> HIDE DEF prev, floor, roof, pos
  <2>6. Fits(k - 1, prev, d[j], u + j - 1)
    BY <1>6, <1>16, <2>1, <2>2, <2>3, NextSlot
  <2> QED
    BY <2>1, <2>4, <2>5, <2>6 DEF Fits
<1> QED
  BY <1>4, <1>17 DEF Positioned, m

----------------------------------------------------------------------------
\* The second half of LaidOut: the rules that are not managed were there to begin with,
\* in that order.
Steady(rules, desired, initial) ==
    LET others == {r \in RulesIn(rules) : r.name \notin DOMAIN desired}
    IN  /\ others \subseteq RulesIn(initial)
        /\ \A r, s \in others : Before(rules, r, s) => Before(initial, r, s)

LaidWell(rules, desired, initial) == Positioned(rules, desired) /\ Steady(rules, desired, initial)

LEMMA SteadyIs ==
  ASSUME NEW rules, IsRuleList(rules), NEW initial, IsRuleList(initial),
         NEW desired, Steady(rules, desired, initial),
         NEW others, others = Unmanaged(rules, desired)
  PROVE  others = OnlyNamed(initial, NamesOf(others))
<1> DEFINE names == NamesOf(rules) \ DOMAIN desired
<1>1. RulesIn(others) = {r \in RulesIn(rules) : r.name \in names}
  BY OnlyNamedGathers DEF Unmanaged
<1>2. NamesOf(others) = names
  <2>1. \A n \in names : \E r \in RulesIn(rules) : r.name = n
    BY NamesAre
  <2> QED
    BY <1>1, <2>1, NamesAre
<1>3. \A r \in Those(rules, names) : r \in RulesIn(rules) /\ r.name \notin DOMAIN desired
  BY DEF Those
<1>4. Those(rules, names) = Those(initial, names)
  <2>1. \A r \in Those(rules, names) : r \in Those(initial, names)
    BY <1>3 DEF Those, Steady
  <2>2. ASSUME NEW r \in Those(initial, names) PROVE r \in Those(rules, names)
    <3>1. PICK s \in RulesIn(rules) : s.name = r.name
      BY NamesAre DEF Those
    <3>2. s \in Those(rules, names) /\ r \in RulesIn(initial)
      BY <3>1 DEF Those
    <3>3. s \in RulesIn(initial)
      BY <2>1, <3>2 DEF Those
    <3>4. s = r
      BY <3>1, <3>2, <3>3 DEF RulesIn, IsRuleList
    <3> QED
      BY <3>2, <3>4
  <2> QED
    BY <2>1, <2>2
<1>5. \A r, s \in Those(rules, names) : Before(rules, r, s) => Before(initial, r, s)
  BY <1>3 DEF Steady
<1> HIDE DEF names
<1>6. OnlyNamed(rules, names) = OnlyNamed(initial, names)
  BY <1>4, <1>5, OnlyNamedSame
<1> QED
  BY <1>2, <1>6 DEF Unmanaged, names

LEMMA LaidWellOut ==
  ASSUME NEW rules, IsRuleList(rules), NEW initial, IsRuleList(initial),
         NEW desired, LaidWell(rules, desired, initial)
  PROVE  LaidOut(rules, desired, initial)
<1>1. LET others == Unmanaged(rules, desired) IN others = OnlyNamed(initial, NamesOf(others))
  BY SteadyIs DEF LaidWell
<1> QED
  BY <1>1 DEF LaidOut, LaidWell, Positioned

\* Laying out, writing and deleting a rule leave the others alone.
LEMMA SteadyArranged ==
  ASSUME NEW rules, IsRuleList(rules), NEW initial, NEW desired,
         \A n \in DOMAIN desired : desired[n] \in Int, Steady(rules, desired, initial),
         NEW laid, laid = ArrangeRules(rules, desired)
  PROVE  Steady(laid, desired, initial)
<1>1. RulesIn(laid) = RulesIn(rules)
  BY Arranged
<1>2. \A r, s : r.name \notin DOMAIN desired /\ s.name \notin DOMAIN desired /\ Before(laid, r, s)
                   => Before(rules, r, s)
  BY ArrangedKeeps
<1> QED
  BY <1>1, <1>2 DEF Steady

LEMMA SteadyWithout ==
  ASSUME NEW rules, IsRuleList(rules), NEW initial, NEW desired, Steady(rules, desired, initial),
         NEW n
  PROVE  Steady(WithoutRule(rules, n), desired, initial)
<1>1. RulesIn(WithoutRule(rules, n)) \subseteq RulesIn(rules)
  BY Without
<1>2. \A r, s : Before(WithoutRule(rules, n), r, s) => Before(rules, r, s)
  BY OnlyNamedKeeps DEF WithoutRule
<1> QED
  BY <1>1, <1>2 DEF Steady

LEMMA UpsertedKeeps ==
  ASSUME NEW rules, IsRuleList(rules), NEW rule \in Rules, NEW r, NEW s, r # rule, s # rule,
         Before(UpsertRule(rules, rule), r, s)
  PROVE  Before(rules, r, s)
<1> DEFINE rest == WithoutRule(rules, rule.name)
           list == UpsertRule(rules, rule)
           n == Len(rest)
<1>1. list = Append(rest, rule)
  BY DEF UpsertRule
<1>2. rest \in Seq(Rules) /\ n \in Nat /\ DOMAIN rest = 1 .. n
  BY Without, ListForm DEF IsRuleList, Rules
<1> HIDE DEF rest, list
<1>3. DOMAIN list = 1 .. n + 1 /\ list[n + 1] = rule /\ \A i \in 1 .. n : list[i] = rest[i]
  BY <1>1, <1>2
<1>4. Before(list, r, s)
  BY DEF list
<1> HIDE DEF n
<1>5. PICK i \in 1 .. n + 1, j \in 1 .. n + 1 : i < j /\ list[i] = r /\ list[j] = s
  BY <1>3, <1>4 DEF Before
<1>6. i \in 1 .. n /\ j \in 1 .. n
  BY <1>2, <1>3, <1>5
<1>7. Before(rest, r, s)
  BY <1>2, <1>3, <1>5, <1>6 DEF Before
<1> QED
  BY <1>7, OnlyNamedKeeps DEF WithoutRule, rest

LEMMA SteadyUpserted ==
  ASSUME NEW rules, IsRuleList(rules), NEW rule \in Rules, NEW initial,
         NEW desired, Steady(rules, desired, initial),
         NEW now, DOMAIN now = DOMAIN desired \union {rule.name}
  PROVE  Steady(UpsertRule(rules, rule), now, initial)
<1> DEFINE list == UpsertRule(rules, rule)
           others == {r \in RulesIn(list) : r.name \notin DOMAIN now}
<1>1. RulesIn(list) = {r \in RulesIn(rules) : r.name # rule.name} \union {rule}
  BY Upserted
<1>2. \A r \in others : r # rule /\ r \in RulesIn(rules) /\ r.name \notin DOMAIN desired
  BY <1>1
<1>3. \A r, s : r # rule /\ s # rule /\ Before(list, r, s) => Before(rules, r, s)
  BY UpsertedKeeps
<1> HIDE DEF list
<1>4. others \subseteq RulesIn(initial)
  BY <1>2 DEF Steady
<1>5. \A r, s \in others : Before(list, r, s) => Before(initial, r, s)
  BY <1>2, <1>3 DEF Steady
<1> QED
  BY <1>4, <1>5 DEF Steady, list

\* What a set and a delete compute is laid out well if what they found was steady.
LEMMA SetLaidWell ==
  ASSUME NEW rules, IsRuleList(rules), NEW rule \in Rules, NEW initial,
         NEW desired, Steady(rules, desired, initial),
         NEW now, DOMAIN now = DOMAIN desired \union {rule.name},
         \A n \in DOMAIN now : now[n] \in Nat
  PROVE  LaidWell(ArrangeRules(UpsertRule(rules, rule), now), now, initial)
<1> DEFINE list == UpsertRule(rules, rule)
<1>1. IsRuleList(list) /\ Steady(list, now, initial)
  BY Upserted, SteadyUpserted
<1>2. \A n \in DOMAIN now : now[n] \in Int
  OBVIOUS
<1> HIDE DEF list
<1>3. Steady(ArrangeRules(list, now), now, initial) /\ Positioned(ArrangeRules(list, now), now)
  BY <1>1, <1>2, SteadyArranged, ArrangedPositioned
<1> QED
  BY <1>3 DEF LaidWell, list

LEMMA DeleteLaidWell ==
  ASSUME NEW rules, IsRuleList(rules), NEW n, NEW initial,
         NEW desired, Steady(rules, desired, initial), \A i \in DOMAIN desired : desired[i] \in Nat
  PROVE  LaidWell(ArrangeRules(WithoutRule(rules, n), desired), desired, initial)
<1> DEFINE list == WithoutRule(rules, n)
<1>1. IsRuleList(list) /\ Steady(list, desired, initial)
  BY Without, SteadyWithout
<1>2. \A i \in DOMAIN desired : desired[i] \in Int
  OBVIOUS
<1> HIDE DEF list
<1>3. /\ Steady(ArrangeRules(list, desired), desired, initial)
      /\ Positioned(ArrangeRules(list, desired), desired)
  BY <1>1, <1>2, SteadyArranged, ArrangedPositioned
<1> QED
  BY <1>3 DEF LaidWell, list

\* A list is laid out well for a record that manages none of it.
LEMMA UntouchedLaidWell ==
  ASSUME NEW rules, IsRuleList(rules)
  PROVE  LaidWell(rules, <<>>, rules)
<1>1. DOMAIN <<>> = {}
  OBVIOUS
<1>2. PlacesOf(rules, {}) = {}
  BY DEF PlacesOf
<1>3. Len(Managed(rules, <<>>)) = 0
  BY <1>1, <1>2, ManagedGathers, FS_EmptySet
<1>4. Positioned(rules, <<>>)
  BY <1>3 DEF Positioned
<1> QED
  BY <1>4 DEF LaidWell, Steady

\* Records that say the same lay out the same.
LEMMA SameRecord ==
  ASSUME NEW rules, NEW initial, NEW d, NEW e, DOMAIN d = DOMAIN e, \A n \in DOMAIN d : d[n] = e[n],
         IsRuleList(rules), LaidWell(rules, d, initial), \A n \in DOMAIN d : d[n] \in Int
  PROVE  LaidWell(rules, e, initial)
<1> DEFINE T == Those(rules, DOMAIN d)
<1>1. PrecedesIn(d, T) = PrecedesIn(e, T)
  BY DEF PrecedesIn, Precedes, Those
<1>2. T = Those(rules, DOMAIN e)
  OBVIOUS
<1> HIDE DEF T
<1>3. Managed(rules, d) = Managed(rules, e)
  <2>1. Managed(rules, d) = InOrder(T, PrecedesIn(d, T))
    BY ManagedIs DEF T
  <2>2. Managed(rules, e) = InOrder(T, PrecedesIn(e, T))
    BY <1>2, ManagedIs
  <2> QED
    BY <1>1, <2>1, <2>2
<1> DEFINE managed == Managed(rules, d)
<1>4. ASSUME NEW j \in 1 .. Len(managed) PROVE d[managed[j].name] = e[managed[j].name]
  <2>1. IsRuleList(managed) /\ RulesIn(managed) = {r \in RulesIn(rules) : r.name \in DOMAIN d}
    BY ManagedGathers
  <2>2. managed[j] \in RulesIn(managed)
    BY <2>1, ListForm DEF RulesIn
  <2> QED
    BY <2>1, <2>2
<1>5. Positioned(rules, e)
  BY <1>3, <1>4 DEF LaidWell, Positioned
<1> QED
  BY <1>5 DEF LaidWell, Steady

\* Whatever the list and the priorities, arrangeFirewallRules puts every managed rule where
\* LaidOut says and keeps the others in their order.
THEOREM LaidOutByPriority ==
  ASSUME NEW rules, IsRuleList(rules), NEW desired, \A n \in DOMAIN desired : desired[n] \in Nat
  PROVE  LaidOut(ArrangeRules(rules, desired), desired, rules)
<1> DEFINE laid == ArrangeRules(rules, desired)
<1>1. \A n \in DOMAIN desired : desired[n] \in Int
  OBVIOUS
<1>2. IsRuleList(laid)
  BY <1>1, Arranged
<1>3. Steady(rules, desired, rules)
  BY DEF Steady
<1>4. Steady(laid, desired, rules) /\ Positioned(laid, desired)
  BY <1>1, <1>3, SteadyArranged, ArrangedPositioned
<1> HIDE DEF laid
<1>5. LaidOut(laid, desired, rules)
  BY <1>2, <1>4, LaidWellOut DEF LaidWell
<1> QED
  BY <1>5 DEF laid

\* The list a second write is laid out from: what is in it, and what it keeps in order.
WrittenTwice(list, rules, r, s, both) ==
    /\ IsRuleList(list)
    /\ RulesIn(list) = {x \in RulesIn(rules) : x.name \notin {r.name, s.name}} \union {r, s}
    /\ Unmanaged(list, both) = OnlyNamed(rules, NamesOf(rules) \ DOMAIN both)

LEMMA SecondWrite ==
  ASSUME NEW rules, IsRuleList(rules), NEW r \in Rules, NEW s \in Rules, r.name # s.name,
         NEW first, \A n \in DOMAIN first : first[n] \in Int,
         NEW both, DOMAIN first \union {r.name, s.name} \subseteq DOMAIN both
  PROVE  WrittenTwice(UpsertRule(ArrangeRules(UpsertRule(rules, r), first), s), rules, r, s, both)
<1> DEFINE once == UpsertRule(rules, r)
           laid == ArrangeRules(once, first)
           list == UpsertRule(laid, s)
           names == NamesOf(rules) \ DOMAIN both
<1>1. IsRuleList(once) /\ RulesIn(once) = {x \in RulesIn(rules) : x.name # r.name} \union {r}
  BY Upserted
<1>2. \A x, y : x # r /\ y # r /\ Before(once, x, y) => Before(rules, x, y)
  BY UpsertedKeeps
<1> HIDE DEF once
<1>3. IsRuleList(laid) /\ RulesIn(laid) = RulesIn(once)
  BY <1>1, Arranged
<1>4. \A x, y : x.name \notin DOMAIN first /\ y.name \notin DOMAIN first /\ Before(laid, x, y)
                   => Before(once, x, y)
  BY <1>1, ArrangedKeeps
<1> HIDE DEF laid
<1>5. IsRuleList(list) /\ RulesIn(list) = {x \in RulesIn(laid) : x.name # s.name} \union {s}
  BY <1>3, Upserted
<1>6. \A x, y : x # s /\ y # s /\ Before(list, x, y) => Before(laid, x, y)
  BY <1>3, UpsertedKeeps
<1> HIDE DEF list
<1>7. RulesIn(list) = {x \in RulesIn(rules) : x.name \notin {r.name, s.name}} \union {r, s}
  BY <1>1, <1>3, <1>5
<1>8. NamesOf(list) \ DOMAIN both = names
  <2>1. \A n : n \notin DOMAIN both =>
           ((\E x \in RulesIn(list) : x.name = n) <=> (\E x \in RulesIn(rules) : x.name = n))
    BY <1>7
  <2> QED
    BY <2>1, NamesAre
<1>9. \A x \in Those(list, names) :
          x.name \notin DOMAIN first /\ x # r /\ x # s /\ x \in RulesIn(rules)
  BY <1>7 DEF Those
<1>10. Those(list, names) = Those(rules, names)
  BY <1>7 DEF Those
<1>11. \A x, y \in Those(list, names) : Before(list, x, y) => Before(rules, x, y)
  BY <1>2, <1>4, <1>6, <1>9
<1> HIDE DEF names
<1>12. OnlyNamed(list, names) = OnlyNamed(rules, names)
  BY <1>5, <1>10, <1>11, OnlyNamedSame
<1> QED
  BY <1>5, <1>7, <1>8, <1>12 DEF WrittenTwice, Unmanaged, names, list, laid, once

\* SetFirewallRule may be called for two rules in either order: the same list is saved in
\* the end, whatever rules, positions and priorities there are.
THEOREM ArrivalDoesNotMatter ==
  ASSUME NEW rules, IsRuleList(rules), NEW r \in Rules, NEW s \in Rules, r.name # s.name,
         NEW record, \A n \in DOMAIN record : record[n] \in Nat, NEW p \in Nat, NEW q \in Nat
  PROVE  LET Write(list, rule, desired) == ArrangeRules(UpsertRule(list, rule), desired)
             withR == Put(record, r.name, p)
             withS == Put(record, s.name, q)
         IN  Write(Write(rules, r, withR), s, Put(withR, s.name, q))
                = Write(Write(rules, s, withS), r, Put(withS, r.name, p))
<1> DEFINE withR == Put(record, r.name, p)
           withS == Put(record, s.name, q)
           both == Put(withR, s.name, q)
           onS == UpsertRule(ArrangeRules(UpsertRule(rules, r), withR), s)
           onR == UpsertRule(ArrangeRules(UpsertRule(rules, s), withS), r)
<1>1. both = Put(withS, r.name, p)
  BY DEF Put
<1>2. /\ \A n \in DOMAIN withR : withR[n] \in Int
      /\ \A n \in DOMAIN withS : withS[n] \in Int
      /\ \A n \in DOMAIN both : both[n] \in Int
  BY DEF Put
<1>3. /\ DOMAIN withR \union {r.name, s.name} \subseteq DOMAIN both
      /\ DOMAIN withS \union {s.name, r.name} \subseteq DOMAIN both
  BY DEF Put
<1> HIDE DEF withR, withS, both
<1>4. WrittenTwice(onS, rules, r, s, both)
  BY <1>2, <1>3, SecondWrite
<1>5. WrittenTwice(onR, rules, s, r, both)
  BY <1>2, <1>3, SecondWrite
<1> HIDE DEF onS, onR
<1>6. /\ IsRuleList(onS) /\ IsRuleList(onR) /\ RulesIn(onS) = RulesIn(onR)
      /\ Unmanaged(onS, both) = Unmanaged(onR, both)
  BY <1>4, <1>5 DEF WrittenTwice
<1>7. Managed(onS, both) = Managed(onR, both)
  BY <1>2, <1>6, ManagedSame
<1>8. ArrangeRules(onS, both) = ArrangeRules(onR, both)
  BY <1>6, <1>7 DEF ArrangeRules
<1> QED
  BY <1>1, <1>8 DEF onS, onR, both, withR, withS

----------------------------------------------------------------------------
(***************************************************************************)
(* The lock: OneWriter and FreshRead.                                      *)
(***************************************************************************)
Outside == {"idle", "queued"}

Inside == {"profile", "inForce", "save", "switch", "apply", "verify"}

\* The fields an operation has at the points that go on to use them.
Shaped(j) ==
    /\ j.pc \in Outside \union Inside
    /\ "pc" \in DOMAIN j
    /\ j.pc # "idle" => "req" \in DOMAIN j
    /\ j.pc \in Inside => "settings" \in DOMAIN j
    /\ j.pc = "inForce" => {"before", "after", "changed"} \subseteq DOMAIN j

\* What FreshRead says of one operation.
FreshJob(j) ==
    /\ j.pc \in {"profile", "inForce", "save"} /\ budget.foreign = MaxForeign =>
           j.settings = dsm.settings
    /\ j.pc \in {"inForce", "save"} /\ budget.foreign = MaxForeign =>
           j.before = dsm.stored[j.req.profile]

\* The budget tells whether there was a foreign save because it only goes down.
ForeignBudget ==
    /\ {"retries", "restarts", "foreign"} \subseteq DOMAIN budget
    /\ budget.foreign \in Nat
    /\ budget.foreign <= MaxForeign

\* The inductive invariant.
IInv ==
    /\ mu \in Workers \union {NoOne}
    /\ job = [w \in Workers |-> job[w]]
    /\ \A w \in Workers : Shaped(job[w])
    /\ ForeignBudget
    /\ OneWriter
    /\ FreshRead

\* A worker that holds the lock either keeps it, with an operation that is fresh
\* still, or leaves.
Stays(w, j) ==
    /\ job' = [job EXCEPT ![w] = j]
    /\ mu' = mu
    /\ j.pc \in Inside
    /\ Shaped(j)
    /\ FreshJob(j)'

Leaves(w) ==
    /\ job' = [job EXCEPT ![w] = Idle]
    /\ mu' = NoOne

LockedStep(w) ==
    /\ job[w].pc \in Inside
    /\ Leaves(w) \/ \E j : Stays(w, j)
    /\ ForeignBudget'

----------------------------------------------------------------------------
LEMMA InitIInv == Init => IInv
  BY WorkersAssumption, BoundsAssumption
  DEF Init, IInv, Shaped, ForeignBudget, OneWriter, FreshRead, Idle, Outside, Inside

\* Only one worker is inside, so a step of that worker disturbs no other.
LEMMA LockedStepIInv ==
  ASSUME NEW w \in Workers, IInv, LockedStep(w)
  PROVE  IInv'
<1>1. mu = w /\ \A v \in Workers : v # w => job[v].pc \in Outside
  BY DEF IInv, LockedStep, OneWriter, Shaped, Outside, Inside
<1>2. CASE Leaves(w)
  BY <1>1, <1>2, WorkersAssumption
  DEF IInv, LockedStep, Leaves, OneWriter, FreshRead, Shaped, Idle, Outside, Inside
<1>3. ASSUME NEW j, Stays(w, j) PROVE IInv'
  <2>1. job'[w] = j /\ \A v \in Workers : v # w => job'[v] = job[v]
    BY <1>3 DEF IInv, Stays
  <2>2. FreshRead'
    BY <1>1, <1>3, <2>1 DEF Stays, FreshRead, FreshJob, Outside
  <2>3. OneWriter'
    BY <1>1, <1>3, <2>1 DEF IInv, Stays, OneWriter, Outside, Inside
  <2> QED
    BY <1>3, <2>1, <2>2, <2>3 DEF IInv, Stays, LockedStep
<1> QED
  BY <1>2, <1>3 DEF LockedStep

\* How the operators that end a step look from outside.
LEMMA FailLeaves ==
  ASSUME NEW w \in Workers, IInv, Fail(w)
  PROVE  Leaves(w) /\ ForeignBudget'
  BY DEF IInv, Fail, Leaves, ForeignBudget

LEMMA SucceedLeaves ==
  ASSUME NEW w \in Workers, IInv, Succeed(w)
  PROVE  Leaves(w) /\ ForeignBudget'
  BY DEF IInv, Succeed, Leaves, ForeignBudget

LEMMA CommitStays ==
  ASSUME NEW w \in Workers, NEW j, IInv, Commit(w, j), UNCHANGED dsm,
         j.pc \in Inside, Shaped(j), FreshJob(j)
  PROVE  Stays(w, j) /\ ForeignBudget'
  BY DEF IInv, Commit, Stays, ForeignBudget, FreshJob

LEMMA GotoStays ==
  ASSUME NEW w \in Workers, NEW pc \in {"switch", "apply", "verify"}, IInv,
         job[w].pc \in Inside, Goto(w, pc)
  PROVE  (\E j : Stays(w, j)) /\ ForeignBudget'
<1> DEFINE j == [job[w] EXCEPT !.pc = pc]
<1>1. job' = [job EXCEPT ![w] = j]
  BY DEF Goto
<1>2. j.pc = pc /\ Shaped(j)
  BY DEF IInv, Shaped, Inside, Outside
<1>3. Stays(w, j)
  BY <1>1, <1>2 DEF Goto, Stays, FreshJob, Inside
<1> QED
  BY <1>3 DEF IInv, Goto, ForeignBudget

----------------------------------------------------------------------------
\* Deciding: what the operation goes on with was read in this very step.
LEMMA DecideSetLocked ==
  ASSUME NEW w \in Workers, IInv, DecideSet(w)
  PROVE  LockedStep(w)
<1> DEFINE before == dsm.stored[job[w].req.profile]
           Saving(after) == [pc |-> "save", req |-> job[w].req, settings |-> job[w].settings,
                             before |-> before, after |-> after]
<1>1. job[w].pc \in Inside /\ UNCHANGED dsm
  BY DEF DecideSet, At, Inside
<1>2. Fail(w) \/ \E after : Commit(w, Saving(after))
  BY DEF DecideSet
<1>3. ASSUME NEW after
      PROVE  Saving(after).pc \in Inside /\ Shaped(Saving(after)) /\ FreshJob(Saving(after))
  BY DEF IInv, DecideSet, At, FreshRead, Shaped, FreshJob, Inside
<1> HIDE DEF Saving
<1> QED
  BY <1>1, <1>2, <1>3, FailLeaves, CommitStays DEF LockedStep

LEMMA DecideDeleteLocked ==
  ASSUME NEW w \in Workers, IInv, DecideDelete(w)
  PROVE  LockedStep(w)
<1> DEFINE before == dsm.stored[job[w].req.profile]
           Saving(after) == [pc |-> "save", req |-> job[w].req, settings |-> job[w].settings,
                             before |-> before, after |-> after]
<1>1. job[w].pc \in Inside /\ UNCHANGED dsm
  BY DEF DecideDelete, At, Inside
<1>2. Succeed(w) \/ Fail(w) \/ \E after : Commit(w, Saving(after))
  BY DEF DecideDelete
<1>3. ASSUME NEW after
      PROVE  Saving(after).pc \in Inside /\ Shaped(Saving(after)) /\ FreshJob(Saving(after))
  BY DEF IInv, DecideDelete, At, FreshRead, Shaped, FreshJob, Inside
<1> HIDE DEF Saving
<1> QED
  BY <1>1, <1>2, <1>3, FailLeaves, SucceedLeaves, CommitStays DEF LockedStep

\* Configure goes on from an operation that is fresh at one of three points.
LEMMA ConfigureLocked ==
  ASSUME NEW w \in Workers, NEW j, IInv, Configure(w, j) \/ Fail(w), UNCHANGED dsm,
         job[w].pc \in Inside, j.pc = "inForce", Shaped(j), FreshJob(j)
  PROVE  LockedStep(w)
<1> DEFINE Onward(pc) == [j EXCEPT !.pc = pc]
<1>1. Fail(w) \/ \E pc \in {"save", "switch", "verify"} : Commit(w, Onward(pc))
  BY DEF Configure
<1>2. ASSUME NEW pc \in {"save", "switch", "verify"}
      PROVE  Onward(pc).pc \in Inside /\ Shaped(Onward(pc)) /\ FreshJob(Onward(pc))
  BY DEF Shaped, FreshJob, Inside, Outside
<1> HIDE DEF Onward
<1> QED
  BY <1>1, <1>2, FailLeaves, CommitStays DEF LockedStep

LEMMA DecideConfigureLocked ==
  ASSUME NEW w \in Workers, IInv, DecideConfigure(w)
  PROVE  LockedStep(w)
<1> DEFINE before == dsm.stored[job[w].req.profile]
           Reading(after, changed) ==
               [pc |-> "inForce", req |-> job[w].req, settings |-> job[w].settings,
                before |-> before, after |-> after, changed |-> changed]
<1>1. job[w].pc \in Inside /\ UNCHANGED dsm
  BY DEF DecideConfigure, At, Inside
<1>2. \/ Fail(w)
      \/ \E after, changed :
            \/ /\ job' = [job EXCEPT ![w] = Reading(after, changed)]
               /\ UNCHANGED <<mu, todo, budget, promise>>
            \/ Configure(w, Reading(after, changed))
  BY DEF DecideConfigure, GuardedConfigure
<1>3. ASSUME NEW after, NEW changed
      PROVE  /\ Reading(after, changed).pc = "inForce"
             /\ Shaped(Reading(after, changed))
             /\ FreshJob(Reading(after, changed))
  BY DEF IInv, DecideConfigure, At, FreshRead, Shaped, FreshJob, Inside
<1> HIDE DEF Reading
<1>4. CASE Fail(w)
  BY <1>1, <1>4, FailLeaves DEF LockedStep
<1>5. ASSUME NEW after, NEW changed, Configure(w, Reading(after, changed))
      PROVE  LockedStep(w)
  BY <1>1, <1>3, <1>5, ConfigureLocked
<1>6. ASSUME NEW j, job' = [job EXCEPT ![w] = j], UNCHANGED <<mu, todo, budget, promise>>,
             j.pc = "inForce", Shaped(j), FreshJob(j)
      PROVE  LockedStep(w)
  <2>1. Stays(w, j)
    BY <1>1, <1>6 DEF Stays, FreshJob, Inside
  <2> QED
    BY <1>1, <1>6, <2>1 DEF LockedStep, IInv, ForeignBudget
<1> QED
  BY <1>2, <1>3, <1>4, <1>5, <1>6

LEMMA ReadInForceLocked ==
  ASSUME NEW w \in Workers, IInv, ReadInForce(w)
  PROVE  LockedStep(w)
<1>1. job[w].pc = "inForce" /\ UNCHANGED dsm /\ (Configure(w, job[w]) \/ Fail(w))
  BY DEF ReadInForce, At, GuardedConfigure
<1>2. Shaped(job[w]) /\ FreshJob(job[w])
  BY DEF IInv, FreshRead, FreshJob
<1> QED
  BY <1>1, <1>2, ConfigureLocked DEF Inside

----------------------------------------------------------------------------
\* Writing: nobody else is at a point that relies on what was read.
LEMMA WriteLocked ==
  ASSUME NEW w \in Workers, IInv, Save(w) \/ Switch(w) \/ Apply(w)
  PROVE  LockedStep(w)
<1>1. job[w].pc \in Inside
  BY DEF Save, Switch, Apply, At, Inside
<1>2. Fail(w) \/ \E pc \in {"switch", "apply", "verify"} : Goto(w, pc)
  BY DEF Save, Switch, Apply, Call, AfterSave, AfterSwitch
<1> QED
  BY <1>1, <1>2, FailLeaves, GotoStays DEF LockedStep

LEMMA VerifyLocked ==
  ASSUME NEW w \in Workers, IInv, ReadFails(w) \/ Verified(w) \/ NotPersisted(w)
  PROVE  LockedStep(w)
<1>1. job[w].pc \in Inside
  BY DEF ReadFails, Verified, NotPersisted, At, Inside
<1>2. Fail(w) \/ Succeed(w)
  BY DEF ReadFails, Verified, NotPersisted
<1> QED
  BY <1>1, <1>2, FailLeaves, SucceedLeaves DEF LockedStep

----------------------------------------------------------------------------
\* The steps that are not a step of the worker that has the lock.
LEMMA StartIInv ==
  ASSUME NEW w \in Workers, NEW req \in Requests, IInv, Start(w, req)
  PROVE  IInv'
  BY WorkersAssumption
  DEF IInv, Start, At, Shaped, ForeignBudget, OneWriter, FreshRead, Outside, Inside

LEMMA LockIInv ==
  ASSUME NEW w \in Workers, IInv, LockAndReadSettings(w)
  PROVE  IInv'
<1>1. \A v \in Workers : job[v].pc \in Outside
  BY WorkersAssumption DEF IInv, LockAndReadSettings, MuFree, OneWriter, Outside, Inside
<1>2. /\ job'[w] = [pc |-> "profile", req |-> job[w].req, settings |-> dsm.settings]
      /\ \A v \in Workers : v # w => job'[v] = job[v]
  BY DEF IInv, LockAndReadSettings
<1>3. Shaped(job'[w])
  BY <1>2 DEF Shaped, Inside, Outside
<1>4. FreshRead'
  BY <1>1, <1>2 DEF LockAndReadSettings, FreshRead, Outside
<1>5. OneWriter'
  BY <1>1, <1>2 DEF LockAndReadSettings, OneWriter, Outside
<1> QED
  BY <1>2, <1>3, <1>4, <1>5 DEF IInv, LockAndReadSettings, ForeignBudget

LEMMA ForeignSaveIInv ==
  ASSUME IInv, ForeignSave
  PROVE  IInv'
<1>1. budget'.foreign = budget.foreign - 1 /\ budget'.foreign # MaxForeign
  BY BoundsAssumption DEF IInv, ForeignSave, ForeignBudget
<1>2. FreshRead'
  BY <1>1 DEF FreshRead
<1> QED
  BY <1>1, <1>2, BoundsAssumption DEF IInv, ForeignSave, ForeignBudget, OneWriter

LEMMA RestartIInv ==
  ASSUME IInv, Restart
  PROVE  IInv'
<1>1. job' = [w \in Workers |-> Idle] /\ mu' = NoOne
  BY DEF Restart
<1>2. ForeignBudget'
  BY DEF IInv, Restart, ForeignBudget
<1> QED
  BY <1>1, <1>2, WorkersAssumption
  DEF IInv, Shaped, OneWriter, FreshRead, Idle, Outside, Inside

\* The lock is exclusive and what is read is fresh: every step preserves it.
THEOREM StepIInv == IInv /\ [Next]_vars => IInv'
<1> SUFFICES ASSUME IInv, [Next]_vars PROVE IInv'
  OBVIOUS
<1>1. ASSUME NEW w \in Workers, NEW req \in Requests, Start(w, req) PROVE IInv'
  BY <1>1, StartIInv
<1>2. ASSUME NEW w \in Workers, Step(w) PROVE IInv'
  <2>1. CASE LockAndReadSettings(w)
    BY <2>1, LockIInv
  <2>2. CASE ReadFails(w) \/ Verified(w) \/ NotPersisted(w)
    BY <2>2, VerifyLocked, LockedStepIInv
  <2>3. CASE DecideSet(w)
    BY <2>3, DecideSetLocked, LockedStepIInv
  <2>4. CASE DecideDelete(w)
    BY <2>4, DecideDeleteLocked, LockedStepIInv
  <2>5. CASE DecideConfigure(w)
    BY <2>5, DecideConfigureLocked, LockedStepIInv
  <2>6. CASE ReadInForce(w)
    BY <2>6, ReadInForceLocked, LockedStepIInv
  <2>7. CASE Save(w) \/ Switch(w) \/ Apply(w)
    BY <2>7, WriteLocked, LockedStepIInv
  <2> QED
    BY <1>2, <2>1, <2>2, <2>3, <2>4, <2>5, <2>6, <2>7 DEF Step
<1>3. CASE ForeignSave
  BY <1>3, ForeignSaveIInv
<1>4. CASE Restart
  BY <1>4, RestartIInv
<1>5. CASE UNCHANGED vars
  BY <1>5 DEF vars, IInv, ForeignBudget, OneWriter, FreshRead
<1> QED
  BY <1>1, <1>2, <1>3, <1>4, <1>5 DEF Next, Terminating

\* From the first read to the read-back an operation has Client.mu, and nobody
\* else is between the two.
THEOREM MutualExclusion == Spec => []OneWriter
<1>1. IInv => OneWriter
  BY DEF IInv
<1> QED
  BY InitIInv, StepIInv, <1>1, PTL DEF Spec

\* No save of this process undoes a change it did not read.
THEOREM NoLostUpdate == Spec => []FreshRead
<1>1. IInv => FreshRead
  BY DEF IInv
<1> QED
  BY InitIInv, StepIInv, <1>1, PTL DEF Spec

----------------------------------------------------------------------------
(***************************************************************************)
(* What DSM stores, what is promised and what the record says.             *)
(***************************************************************************)
Quiet == budget.foreign = MaxForeign

\* The rules of the request's adapter after the write.
Wanted(profile, req) ==
    {r \in RulesIn(RulesOn(profile, req.adapter)) : r.name # req.rule.name}
        \union (IF req.op = "set" THEN {req.rule} ELSE {})

\* What is about to be saved: the profile that was read, with the one change.
Planned(j) ==
    /\ IsProfile(j.before)
    /\ IF j.req.op = "configure"
       THEN j.after = [j.before EXCEPT !.policy = Overlay(j.before.policy, j.req.policy)]
       ELSE \E rules : /\ IsRuleList(rules)
                       /\ j.after = PutRules(j.before, j.req.adapter, rules)
                       /\ RulesIn(rules) = Wanted(j.before, j.req)

\* An operation has what its next step uses.
JobOK(j) ==
    /\ j.pc # "idle" => j.req \in Requests
    /\ j.pc \in Inside => j.settings \in [enabled : BOOLEAN, active : Profiles]
    /\ j.pc = "inForce" \/ j.pc = "switch" => j.req.op = "configure"
    /\ j.pc \in {"inForce", "save"} => Planned(j)

\* DSM keeps profiles of the form it was found in, and the record keeps positions.
WellFormed ==
    /\ DOMAIN dsm = {"settings", "stored", "live"}
    /\ dsm.settings \in [enabled : BOOLEAN, active : Profiles]
    /\ DOMAIN dsm.stored = Profiles
    /\ \A p \in Profiles : IsProfile(dsm.stored[p])
    /\ IsProfile(dsm.live)

Recordable ==
    /\ DOMAIN order = Keys
    /\ \A k \in Keys : \A n \in DOMAIN order[k] : order[k][n] \in Nat

\* Nothing is run or promised that the configuration does not ask for.
Requested ==
    /\ todo \subseteq Requests
    /\ \A res \in DOMAIN promise : promise[res] \in Requests /\ ResourceOf(promise[res]) = res
    /\ \A w \in Workers : JobOK(job[w])

\* When two requests are about the same resource.
LEMMA Apart ==
  ASSUME NEW r \in Requests, NEW s \in Requests
  PROVE  ResourceOf(r) = ResourceOf(s) <=>
            \/ r.op = "configure" /\ s.op = "configure"
            \/ /\ r.op # "configure" /\ s.op # "configure"
               /\ r.profile = s.profile /\ r.adapter = s.adapter /\ r.rule.name = s.rule.name
<1>1. \A a, b, c : <<"firewall">> # <<a, b, c>>
  OBVIOUS
<1> QED
  BY <1>1 DEF ResourceOf

\* Replacing one adapter's rules touches nothing else in the profile, setting its policies
\* touches no rule, and an adapter without rules has an empty list.
LEMMA Rearrange ==
  ASSUME NEW profile, IsProfile(profile), NEW a \in Adapters, NEW rules, IsRuleList(rules)
  PROVE  LET after == PutRules(profile, a, rules)
         IN  /\ IsProfile(after)
             /\ after.policy = profile.policy
             /\ RulesOn(after, a) = rules
             /\ \A b \in Adapters : b # a => RulesOn(after, b) = RulesOn(profile, b)
<1> DEFINE after == PutRules(profile, a, rules)
           table == Put(profile.rules, a, rules)
<1>1. after = [profile EXCEPT !.rules = table]
  BY DEF PutRules
<1>2. DOMAIN after = {"rules", "policy"} /\ after.rules = table /\ after.policy = profile.policy
  BY <1>1 DEF IsProfile
<1>3. /\ DOMAIN table = DOMAIN profile.rules \union {a}
      /\ table[a] = rules
      /\ \A b \in DOMAIN profile.rules : b # a => table[b] = profile.rules[b]
  BY DEF Put
<1> HIDE DEF after, table
<1>4. IsProfile(after)
  BY <1>2, <1>3 DEF IsProfile
<1> QED
  BY <1>2, <1>3, <1>4 DEF RulesOn, after

LEMMA Reconfigured ==
  ASSUME NEW profile, IsProfile(profile), NEW req \in Requests, req.op = "configure",
         NEW after, after = [profile EXCEPT !.policy = Overlay(profile.policy, req.policy)]
  PROVE  /\ IsProfile(after)
         /\ after.rules = profile.rules
         /\ DOMAIN after.policy = DOMAIN req.policy \union DOMAIN profile.policy
         /\ \A b \in DOMAIN req.policy : after.policy[b] = req.policy[b]
<1> DEFINE table == Overlay(profile.policy, req.policy)
<1>1. DOMAIN after = {"rules", "policy"} /\ after.policy = table /\ after.rules = profile.rules
  BY DEF IsProfile
<1>2. /\ DOMAIN table = DOMAIN req.policy \union DOMAIN profile.policy
      /\ \A b \in DOMAIN req.policy : table[b] = req.policy[b]
      /\ \A b \in DOMAIN profile.policy :
            b \notin DOMAIN req.policy => table[b] = profile.policy[b]
  BY DEF Overlay
<1> HIDE DEF table
<1>3. IsProfile(after)
  BY <1>1, <1>2, RequestsAssumption DEF IsProfile, IsRequest
<1> QED
  BY <1>1, <1>2, <1>3

LEMMA RulesOnProfile ==
  ASSUME NEW profile, IsProfile(profile), NEW a
  PROVE  IsRuleList(RulesOn(profile, a))
<1>1. IsRuleList(<<>>)
  BY DEF IsRuleList
<1> QED
  BY <1>1 DEF RulesOn, IsProfile

LEMMA PlannedProfile ==
  ASSUME NEW j, Planned(j), j.req \in Requests
  PROVE  IsProfile(j.after)
<1>1. CASE j.req.op = "configure"
  <2>1. j.after = [j.before EXCEPT !.policy = Overlay(j.before.policy, j.req.policy)]
        /\ IsProfile(j.before)
    BY <1>1 DEF Planned
  <2> QED
    BY <1>1, <2>1, Reconfigured
<1>2. CASE j.req.op # "configure"
  <2>1. j.req.adapter \in Adapters
    BY RequestsAssumption DEF IsRequest
  <2> QED
    BY <1>2, <2>1, Rearrange DEF Planned
<1> QED
  BY <1>1, <1>2

\* What a write computes is what was asked for and nothing else.
LEMMA WithRulePlanned ==
  ASSUME NEW req \in Requests, req.op = "set", WellFormed, Recordable
  PROVE  \E rules : /\ IsRuleList(rules)
                    /\ WithRule(req) = PutRules(dsm.stored[req.profile], req.adapter, rules)
                    /\ RulesIn(rules) = Wanted(dsm.stored[req.profile], req)
<1> DEFINE before == dsm.stored[req.profile]
           given == RulesOn(before, req.adapter)
           desired == Put(order[KeyOf(req)], req.rule.name, NormalizePriority(req.priority))
           upserted == UpsertRule(given, req.rule)
           rules == ArrangeRules(upserted, desired)
<1>1. req.profile \in Profiles /\ req.rule \in Rules /\ KeyOf(req) \in Keys /\ req.priority \in Int
  BY RequestsAssumption DEF IsRequest, KeyOf, Keys, Rules
<1>2. IsRuleList(given)
  BY <1>1, RulesOnProfile DEF WellFormed
<1>3. \A n \in DOMAIN desired : desired[n] \in Int
  <2>1. \A n \in DOMAIN order[KeyOf(req)] : order[KeyOf(req)][n] \in Int
    BY <1>1 DEF Recordable
  <2>2. NormalizePriority(req.priority) \in Int
    BY <1>1 DEF NormalizePriority
  <2> QED
    BY <2>1, <2>2 DEF Put
<1> HIDE DEF given, desired
<1>4. /\ IsRuleList(upserted)
      /\ RulesIn(upserted) = {r \in RulesIn(given) : r.name # req.rule.name} \union {req.rule}
  BY <1>1, <1>2, Upserted
<1> HIDE DEF upserted
<1>5. IsRuleList(rules) /\ RulesIn(rules) = RulesIn(upserted)
  BY <1>3, <1>4, Arranged
<1>6. WithRule(req) = PutRules(before, req.adapter, rules)
  BY DEF WithRule, given, desired, upserted
<1>7. RulesIn(rules) = Wanted(before, req)
  BY <1>4, <1>5 DEF Wanted, given
<1> HIDE DEF rules
<1> QED
  BY <1>5, <1>6, <1>7

LEMMA WithoutTheRulePlanned ==
  ASSUME NEW req \in Requests, req.op = "delete", WellFormed, Recordable
  PROVE  \E rules : /\ IsRuleList(rules)
                    /\ WithoutTheRule(req) = PutRules(dsm.stored[req.profile], req.adapter, rules)
                    /\ RulesIn(rules) = Wanted(dsm.stored[req.profile], req)
<1> DEFINE before == dsm.stored[req.profile]
           given == RulesOn(before, req.adapter)
           desired == Forget(req)
           rest == WithoutRule(given, req.rule.name)
           rules == ArrangeRules(rest, desired)
<1>1. req.profile \in Profiles /\ KeyOf(req) \in Keys
  BY RequestsAssumption DEF IsRequest, KeyOf, Keys
<1>2. IsRuleList(given)
  BY <1>1, RulesOnProfile DEF WellFormed
<1>3. \A n \in DOMAIN desired : desired[n] \in Int
  BY <1>1 DEF Recordable, Forget, Drop
<1> HIDE DEF given, desired
<1>4. /\ IsRuleList(rest)
      /\ RulesIn(rest) = {r \in RulesIn(given) : r.name # req.rule.name}
  BY <1>2, Without
<1> HIDE DEF rest
<1>5. IsRuleList(rules) /\ RulesIn(rules) = RulesIn(rest)
  BY <1>3, <1>4, Arranged
<1>6. WithoutTheRule(req) = PutRules(before, req.adapter, rules)
  BY DEF WithoutTheRule, given, desired, rest
<1>7. RulesIn(rules) = Wanted(before, req)
  BY <1>4, <1>5 DEF Wanted, given
<1> HIDE DEF rules
<1> QED
  BY <1>5, <1>6, <1>7

\* What a completed operation promises, of the profiles and the settings alone.
RuleHolds(rules, req) ==
    IF req.op = "set" THEN req.rule \in RulesIn(rules)
    ELSE req.rule.name \notin NamesOf(rules)

Holds(stored, settings, req) ==
    IF req.op = "configure"
    THEN /\ settings = [enabled |-> req.enabled, active |-> req.profile]
         /\ \A a \in DOMAIN req.policy :
               /\ a \in DOMAIN stored[req.profile].policy
               /\ stored[req.profile].policy[a] = req.policy[a]
    ELSE RuleHolds(RulesOn(stored[req.profile], req.adapter), req)

LEMMA RuleNamedHolds ==
  ASSUME NEW rules, IsRuleList(rules), NEW rule
  PROVE  rule.name \in NamesOf(rules) /\ RuleNamed(rules, rule.name) = rule <=>
             rule \in RulesIn(rules)
  BY Named

\* The read-back asks whether that is the case.
LEMMA PersistedHolds ==
  ASSUME NEW req \in Requests, WellFormed
  PROVE  Persisted(req) <=> Holds(dsm.stored, dsm.settings, req)
<1> DEFINE rules == RulesOn(dsm.stored[req.profile], req.adapter)
<1>1. req.op \in {"set", "delete", "configure"} /\ req.profile \in Profiles
  BY RequestsAssumption DEF IsRequest
<1>2. IsRuleList(rules)
  BY <1>1, RulesOnProfile DEF WellFormed
<1> HIDE DEF rules
<1>3. req.rule.name \in NamesOf(rules) /\ RuleNamed(rules, req.rule.name) = req.rule
         <=> req.rule \in RulesIn(rules)
  BY <1>2, RuleNamedHolds
<1>4. CASE req.op = "set"
  BY <1>3, <1>4 DEF Persisted, Holds, RuleHolds, rules
<1>5. CASE req.op = "delete"
  BY <1>5 DEF Persisted, Holds, RuleHolds, rules
<1>6. CASE req.op = "configure"
  BY <1>6 DEF Persisted, Holds
<1> QED
  BY <1>1, <1>4, <1>5, <1>6

\* Saving what one operation planned leaves every other promise standing.
LEMMA SaveHolds ==
  ASSUME NEW stored, NEW settings, NEW j, j.req \in Requests, Planned(j),
         DOMAIN stored = Profiles, \A p \in Profiles : IsProfile(stored[p]),
         j.before = stored[j.req.profile],
         NEW req \in Requests, ResourceOf(req) # ResourceOf(j.req), Holds(stored, settings, req)
  PROVE  Holds([stored EXCEPT ![j.req.profile] = j.after], settings, req)
<1> DEFINE new == [stored EXCEPT ![j.req.profile] = j.after]
<1>1. /\ j.req.profile \in Profiles /\ j.req.adapter \in Adapters /\ req.profile \in Profiles
      /\ req.adapter \in Adapters
      /\ req.op \in {"set", "delete", "configure"} /\ j.req.op \in {"set", "delete", "configure"}
  BY RequestsAssumption DEF IsRequest
<1>2. new[j.req.profile] = j.after /\ \A p \in Profiles : p # j.req.profile => new[p] = stored[p]
  BY <1>1
<1> HIDE DEF new
<1>3. CASE j.req.op = "configure"
  <2>1. req.op # "configure"
    BY <1>3, Apart
  <2>2. j.after.rules = j.before.rules
    <3>1. j.after = [j.before EXCEPT !.policy = Overlay(j.before.policy, j.req.policy)]
          /\ IsProfile(j.before)
      BY <1>3 DEF Planned
    <3> QED
      BY <1>3, <3>1, Reconfigured
  <2>3. new[req.profile].rules = stored[req.profile].rules
    BY <1>1, <1>2, <2>2
  <2> QED
    BY <2>1, <2>3 DEF Holds, RulesOn, new
<1>4. CASE j.req.op # "configure"
  <2>1. PICK rules : /\ IsRuleList(rules)
                     /\ j.after = PutRules(j.before, j.req.adapter, rules)
                     /\ RulesIn(rules) = Wanted(j.before, j.req)
    BY <1>4 DEF Planned
  <2>2. /\ j.after.policy = j.before.policy
        /\ RulesOn(j.after, j.req.adapter) = rules
        /\ \A b \in Adapters : b # j.req.adapter => RulesOn(j.after, b) = RulesOn(j.before, b)
    BY <1>1, <2>1, Rearrange DEF Planned
  <2>3. CASE req.op = "configure"
    <3>1. new[req.profile].policy = stored[req.profile].policy
      BY <1>1, <1>2, <2>2
    <3> QED
      BY <2>3, <3>1 DEF Holds, new
  <2>4. CASE req.op # "configure" /\ <<req.profile, req.adapter>> # <<j.req.profile, j.req.adapter>>
    <3>1. RulesOn(new[req.profile], req.adapter) = RulesOn(stored[req.profile], req.adapter)
      BY <1>1, <1>2, <2>2, <2>4
    <3> QED
      BY <2>4, <3>1 DEF Holds, new
  <2>5. CASE req.op # "configure" /\ req.profile = j.req.profile /\ req.adapter = j.req.adapter
    <3>1. req.rule.name # j.req.rule.name
      BY <1>4, <2>5, Apart
    <3>2. RulesOn(new[req.profile], req.adapter) = rules
      BY <1>2, <2>2, <2>5
    <3> DEFINE given == RulesOn(j.before, j.req.adapter)
    <3>3. RuleHolds(given, req)
      BY <2>5 DEF Holds
    <3> HIDE DEF given
    <3>4. \A r : r.name = req.rule.name => (r \in RulesIn(rules) <=> r \in RulesIn(given))
      BY <2>1, <3>1 DEF Wanted, given
    <3>5. RuleHolds(rules, req)
      BY <3>3, <3>4, NamesAre DEF RuleHolds
    <3> QED
      BY <2>5, <3>2, <3>5 DEF Holds, new
  <2> QED
    BY <2>3, <2>4, <2>5
<1> QED
  BY <1>3, <1>4

\* The record names rules that are there.
Listed(stored, record) ==
    \A k \in Keys : \A n \in DOMAIN record[k] : n \in NamesOf(RulesOn(stored[k[1]], k[2]))

\* Nor does it take away a rule the record still names.
LEMMA SaveListed ==
  ASSUME NEW stored, NEW record, NEW j, j.req \in Requests, Planned(j),
         DOMAIN stored = Profiles, \A p \in Profiles : IsProfile(stored[p]),
         j.before = stored[j.req.profile], Listed(stored, record),
         j.req.op = "delete" => j.req.rule.name \notin DOMAIN record[KeyOf(j.req)]
  PROVE  Listed([stored EXCEPT ![j.req.profile] = j.after], record)
<1> DEFINE new == [stored EXCEPT ![j.req.profile] = j.after]
<1>1. /\ j.req.profile \in Profiles /\ j.req.adapter \in Adapters
      /\ j.req.op \in {"set", "delete", "configure"}
  BY RequestsAssumption DEF IsRequest
<1>2. new[j.req.profile] = j.after /\ \A p \in Profiles : p # j.req.profile => new[p] = stored[p]
  BY <1>1
<1> HIDE DEF new
<1> SUFFICES ASSUME NEW k \in Keys, NEW n \in DOMAIN record[k]
             PROVE  n \in NamesOf(RulesOn(new[k[1]], k[2]))
  BY DEF Listed, new
<1>3. k[1] \in Profiles /\ k[2] \in Adapters /\ k = <<k[1], k[2]>>
  BY DEF Keys
<1>4. n \in NamesOf(RulesOn(stored[k[1]], k[2]))
  BY DEF Listed
<1>5. CASE j.req.op = "configure"
  <2>1. j.after = [j.before EXCEPT !.policy = Overlay(j.before.policy, j.req.policy)]
        /\ IsProfile(j.before)
    BY <1>5 DEF Planned
  <2>2. j.after.rules = j.before.rules
    BY <1>5, <2>1, Reconfigured
  <2>3. new[k[1]].rules = stored[k[1]].rules
    BY <1>2, <1>3, <2>2
  <2> QED
    BY <1>4, <2>3 DEF RulesOn
<1>6. CASE j.req.op # "configure"
  <2>1. PICK rules : /\ IsRuleList(rules)
                     /\ j.after = PutRules(j.before, j.req.adapter, rules)
                     /\ RulesIn(rules) = Wanted(j.before, j.req)
    BY <1>6 DEF Planned
  <2>2. /\ RulesOn(j.after, j.req.adapter) = rules
        /\ \A b \in Adapters : b # j.req.adapter => RulesOn(j.after, b) = RulesOn(j.before, b)
    BY <1>1, <2>1, Rearrange DEF Planned
  <2>3. CASE <<k[1], k[2]>> # <<j.req.profile, j.req.adapter>>
    <3>1. RulesOn(new[k[1]], k[2]) = RulesOn(stored[k[1]], k[2])
      BY <1>1, <1>2, <1>3, <2>2, <2>3
    <3> QED
      BY <1>4, <3>1
  <2>4. CASE k[1] = j.req.profile /\ k[2] = j.req.adapter
    <3> DEFINE given == RulesOn(j.before, j.req.adapter)
    <3>1. RulesOn(new[k[1]], k[2]) = rules
      BY <1>2, <2>2, <2>4
    <3>2. PICK r \in RulesIn(given) : r.name = n
      BY <1>4, <2>4, NamesAre
    <3>3. j.req.op = "delete" => r.name # j.req.rule.name
      BY <1>3, <2>4, <3>2 DEF KeyOf
    <3>4. r \in Wanted(j.before, j.req) \/ (j.req.op = "set" /\ r.name = j.req.rule.name)
      BY <1>1, <1>6, <3>2, <3>3 DEF Wanted
    <3>5. j.req.op = "set" => j.req.rule \in Wanted(j.before, j.req)
      BY DEF Wanted
    <3>6. \E s \in RulesIn(rules) : s.name = n
      BY <2>1, <3>2, <3>4, <3>5
    <3> QED
      BY <3>1, <3>6, NamesAre
  <2> QED
    BY <2>3, <2>4
<1> QED
  BY <1>5, <1>6

----------------------------------------------------------------------------
\* The operations' side: what is asked for, waiting, under way and promised.
DroppedJob(j) ==
    j.pc \in {"save", "switch", "apply", "verify"} => ResourceOf(j.req) \notin DOMAIN promise

\* A rule operation knows the switch as it is: only a configure throws it, and no other
\* operation is under way then.  Before the read-back, what is stored is in force.
InForceJob(j) ==
    j.pc \in Inside /\ j.req.op # "configure" =>
        /\ j.settings = dsm.settings
        /\ j.pc = "verify" /\ dsm.settings.active = j.req.profile =>
               dsm.live = dsm.stored[j.req.profile]

\* A rule is out of the record before it is out of DSM.
ForgottenJob(j) ==
    j.pc = "save" /\ j.req.op = "delete" => j.req.rule.name \notin DOMAIN order[KeyOf(j.req)]

Current(j) == DroppedJob(j) /\ InForceJob(j) /\ ForgottenJob(j)

\* An operation is run once: it is waiting, or under way, or its outcome stands.
Pending ==
    /\ \A w \in Busy : job[w].req \notin todo
    /\ \A v, w \in Busy : v # w => job[v].req # job[w].req
    /\ \A res \in DOMAIN promise : promise[res] \notin todo
    /\ \A res \in DOMAIN promise : \A w \in Busy : job[w].req # promise[res]

\* The operations' side of the inductive invariant.
Operating ==
    /\ Requested
    /\ Pending
    /\ \A w \in Workers : Current(job[w])

\* What a step of the worker that has the lock does to that side.
Goes(w, j) ==
    /\ job' = [job EXCEPT ![w] = j]
    /\ j.pc \in Inside
    /\ j.req = job[w].req
    /\ todo' = todo
    /\ promise' = promise \/ promise' = Drop(promise, ResourceOf(j.req))
    /\ JobOK(j)
    /\ Current(j)'

Stops(w) ==
    /\ job' = [job EXCEPT ![w] = Idle]
    /\ \/ promise' = promise /\ (todo' = todo \/ todo' = todo \union {job[w].req})
       \/ promise' = Put(promise, ResourceOf(job[w].req), job[w].req) /\ todo' = todo

LEMMA GoesOperating ==
  ASSUME NEW w \in Workers, IInv, Operating, job[w].pc \in Inside, NEW j, Goes(w, j)
  PROVE  Operating'
<1>1. job'[w] = j /\ \A v \in Workers : v # w => job'[v] = job[v]
  BY DEF IInv, Goes
<1>2. \A v \in Workers : v # w => job[v].pc \in Outside
  BY DEF IInv, OneWriter, Shaped, Outside, Inside
<1>3. Busy' = Busy /\ \A v \in Busy : job'[v].req = job[v].req
  BY <1>1 DEF Busy, Goes, Inside
<1>4. \A res \in DOMAIN promise' : res \in DOMAIN promise /\ promise'[res] = promise[res]
  BY DEF Goes, Drop
<1>5. Pending'
  BY <1>3, <1>4 DEF Operating, Pending, Goes
<1>6. Requested'
  BY <1>1, <1>4 DEF Operating, Requested, Goes, JobOK, Planned, IsProfile, Inside
<1>7. ASSUME NEW v \in Workers PROVE Current(job[v])'
  <2>1. CASE v = w
    BY <1>1, <2>1 DEF Goes, Current, DroppedJob, InForceJob, ForgottenJob
  <2>2. CASE v # w
    BY <1>1, <1>2, <2>2 DEF Current, DroppedJob, InForceJob, ForgottenJob, Outside, Inside
  <2> QED
    BY <2>1, <2>2
<1> QED
  BY <1>5, <1>6, <1>7 DEF Operating

LEMMA StopsOperating ==
  ASSUME NEW w \in Workers, IInv, Operating, job[w].pc \in Inside, Stops(w)
  PROVE  Operating'
<1> DEFINE req == job[w].req
<1>1. job'[w] = Idle /\ \A v \in Workers : v # w => job'[v] = job[v]
  BY DEF IInv, Stops
<1>2. \A v \in Workers : job'[v].pc \in Outside
  BY <1>1 DEF IInv, OneWriter, Shaped, Outside, Inside, Idle
<1>3. Busy' = Busy \ {w} /\ w \in Busy /\ \A v \in Busy' : job'[v].req = job[v].req
  BY <1>1 DEF Busy, Idle, Inside
<1>4. req \in Requests
  BY DEF Operating, Requested, JobOK, Inside
<1>5. \A res \in DOMAIN promise' :
         \/ res \in DOMAIN promise /\ promise'[res] = promise[res]
         \/ res = ResourceOf(req) /\ promise'[res] = req /\ todo' = todo
  BY DEF Stops, Put
<1> HIDE DEF req
<1>6. todo' = todo \/ (todo' = todo \union {req} /\ promise' = promise)
  BY DEF Stops, req
<1>7. \A v \in Busy' : job[v].req # req
  BY <1>3 DEF Operating, Pending, req
<1>8. Pending'
  <2>1. \A v \in Busy' : job'[v].req \notin todo'
    BY <1>3, <1>6, <1>7 DEF Operating, Pending
  <2>2. \A u, v \in Busy' : u # v => job'[u].req # job'[v].req
    BY <1>3 DEF Operating, Pending
  <2>3. \A res \in DOMAIN promise' : promise'[res] \notin todo'
    BY <1>3, <1>5, <1>6 DEF Operating, Pending, req
  <2>4. \A res \in DOMAIN promise' : \A v \in Busy' : job'[v].req # promise'[res]
    BY <1>3, <1>5, <1>7 DEF Operating, Pending
  <2> QED
    BY <2>1, <2>2, <2>3, <2>4 DEF Pending
<1>9. Requested'
  <2>1. todo' \subseteq Requests
    BY <1>4, <1>6 DEF Operating, Requested
  <2>2. \A res \in DOMAIN promise' : promise'[res] \in Requests /\ ResourceOf(promise'[res]) = res
    BY <1>4, <1>5 DEF Operating, Requested
  <2>3. \A v \in Workers : JobOK(job'[v])
    BY <1>1 DEF Operating, Requested, JobOK, Idle, Inside
  <2> QED
    BY <2>1, <2>2, <2>3 DEF Requested, JobOK, Planned
<1>10. ASSUME NEW v \in Workers PROVE Current(job[v])'
  BY <1>2 DEF Current, DroppedJob, InForceJob, ForgottenJob, Outside, Inside
<1> QED
  BY <1>8, <1>9, <1>10 DEF Operating

LEMMA InitOperating == Init => Operating
  BY DEF Init, Operating, Requested, JobOK, Pending, Current, DroppedJob, InForceJob, ForgottenJob,
         Busy, Idle, Inside

\* The steps of everybody else.
LEMMA StartOperating ==
  ASSUME NEW w \in Workers, NEW req \in Requests, IInv, Operating, Start(w, req)
  PROVE  Operating'
<1>1. /\ job'[w].pc = "queued" /\ job'[w].req = req
      /\ \A v \in Workers : v # w => job'[v] = job[v]
  BY DEF IInv, Start
<1>2. /\ w \notin Busy /\ Busy' = Busy \union {w} /\ req \in todo /\ todo' = todo \ {req}
      /\ promise' = promise
  BY <1>1 DEF Start, At, Busy
<1>3. \A v \in Busy : job'[v] = job[v]
  BY <1>1 DEF Start, At, Busy
<1>4. Pending'
  BY <1>1, <1>2, <1>3 DEF Operating, Pending
<1>5. \A v \in Workers : JobOK(job'[v])
  BY <1>1 DEF Operating, Requested, JobOK, Inside
<1>6. Requested'
  BY <1>2, <1>5 DEF Operating, Requested, JobOK, Planned
<1>7. ASSUME NEW v \in Workers PROVE Current(job[v])'
  BY <1>1 DEF Operating, Current, DroppedJob, InForceJob, ForgottenJob, Inside, Start
<1> QED
  BY <1>4, <1>6, <1>7 DEF Operating

LEMMA LockOperating ==
  ASSUME NEW w \in Workers, IInv, Operating, WellFormed, LockAndReadSettings(w)
  PROVE  Operating'
<1>1. /\ job'[w].pc = "profile" /\ job'[w].req = job[w].req /\ job'[w].settings = dsm.settings
      /\ job[w].pc = "queued"
      /\ \A v \in Workers : v # w => job'[v] = job[v]
  BY DEF IInv, LockAndReadSettings, At
<1>2. Busy' = Busy /\ \A v \in Busy : job'[v].req = job[v].req
  BY <1>1 DEF Busy
<1>3. todo' = todo /\ promise' = promise /\ dsm' = dsm /\ order' = order
  BY DEF LockAndReadSettings
<1>4. Pending'
  BY <1>2, <1>3 DEF Operating, Pending
<1>5. \A v \in Workers : JobOK(job'[v])
  BY <1>1 DEF Operating, Requested, JobOK, WellFormed, Inside
<1>6. Requested'
  BY <1>3, <1>5 DEF Operating, Requested, JobOK, Planned
<1>7. ASSUME NEW v \in Workers PROVE Current(job[v])'
  BY <1>1, <1>3 DEF Operating, Current, DroppedJob, InForceJob, ForgottenJob, Inside
<1> QED
  BY <1>4, <1>6, <1>7 DEF Operating

LEMMA ForeignOperating ==
  ASSUME IInv, Operating, WellFormed, ForeignSave
  PROVE  Operating' /\ WellFormed'
<1>1. PICK pw \in ForeignWrites :
         dsm' = [dsm EXCEPT !.stored[pw[1]] = pw[2],
                            !.live = IF dsm.settings.active = pw[1] THEN pw[2] ELSE @]
  BY DEF ForeignSave
<1>2. pw[1] \in Profiles /\ IsProfile(pw[2])
  BY ForeignAssumption
<1>3. /\ dsm'.settings = dsm.settings
      /\ DOMAIN dsm' = DOMAIN dsm /\ DOMAIN dsm'.stored = DOMAIN dsm.stored
      /\ dsm'.stored[pw[1]] = pw[2]
      /\ \A p \in Profiles : p # pw[1] => dsm'.stored[p] = dsm.stored[p]
      /\ dsm'.live = IF dsm.settings.active = pw[1] THEN pw[2] ELSE dsm.live
  BY <1>1, <1>2 DEF WellFormed
<1>4. WellFormed'
  BY <1>2, <1>3 DEF WellFormed, IsProfile
<1>5. order' = order /\ job' = job /\ todo' = todo /\ promise' = promise
  BY DEF ForeignSave
<1>6. Pending' /\ Requested'
  BY <1>5 DEF Operating, Pending, Requested, JobOK, Planned, Busy
<1>7. ASSUME NEW v \in Workers PROVE Current(job[v])'
  <2>1. DroppedJob(job[v])' /\ ForgottenJob(job[v])'
    BY <1>5 DEF Operating, Current, DroppedJob, ForgottenJob
  <2>2. job[v].pc \in Inside => job[v].req.profile \in Profiles
    BY RequestsAssumption DEF Operating, Requested, JobOK, IsRequest, Inside
  <2>3. InForceJob(job[v])'
    BY <1>3, <1>5, <2>2 DEF Operating, Current, InForceJob
  <2> QED
    BY <2>1, <2>3 DEF Current
<1> QED
  BY <1>4, <1>6, <1>7 DEF Operating

LEMMA RestartOperating ==
  ASSUME IInv, Operating, Restart
  PROVE  Operating'
<1>1. \A v \in Workers : job'[v].pc = "idle"
  BY DEF Restart, Idle
<1>2. Busy' = {} /\ promise' = promise
  BY <1>1 DEF Busy, Restart
<1>3. /\ \A r \in todo' : r \in todo \/ \E w \in Busy : r = job[w].req
      /\ \A w \in Busy : job[w].req \in Requests
  BY DEF Restart, Operating, Requested, JobOK, Busy
<1>4. Pending' /\ Requested'
  BY <1>1, <1>2, <1>3 DEF Operating, Pending, Requested, JobOK, Inside
<1>5. ASSUME NEW v \in Workers PROVE Current(job[v])'
  BY <1>1 DEF Current, DroppedJob, InForceJob, ForgottenJob, Inside
<1> QED
  BY <1>4, <1>5 DEF Operating

----------------------------------------------------------------------------
\* Every promise holds.
Kept(stored, settings, promised) ==
    \A res \in DOMAIN promised : Holds(stored, settings, promised[res])

\* The record of a rule is what its last completed write asked for, or, while that
\* is in doubt, what some write asks for.
Backed(record, promised) ==
    \A k \in Keys : \A n \in DOMAIN record[k] :
        LET res == <<k[1], k[2], n>>
        IN  \/ /\ res \in DOMAIN promised
               /\ promised[res].op = "set"
               /\ record[k][n] = NormalizePriority(promised[res].priority)
            \/ /\ res \notin DOMAIN promised
               /\ \E req \in Requests : req.op = "set" /\ ResourceOf(req) = res
                       /\ record[k][n] = NormalizePriority(req.priority)

\* What DSM stores, the record and the promises agree.
Faithful(stored, settings, record, promised) ==
    Listed(stored, record) /\ Kept(stored, settings, promised) /\ Backed(record, promised)

\* A promise is filed under its request's resource.
Own(promised) ==
    \A res \in DOMAIN promised : promised[res] \in Requests /\ ResourceOf(promised[res]) = res

\* A part of a map.
Within(f, g) == DOMAIN f \subseteq DOMAIN g /\ \A x \in DOMAIN f : f[x] = g[x]

\* Forgetting positions, or withdrawing promises, breaks none of that,
LEMMA FewerFaithful ==
  ASSUME NEW stored, NEW settings, NEW record, NEW promised, NEW record2, NEW promised2,
         Own(promised), Faithful(stored, settings, record, promised),
         \A k \in Keys : Within(record2[k], record[k]), Within(promised2, promised)
  PROVE  Faithful(stored, settings, record2, promised2)
<1>1. Listed(stored, record2)
  BY DEF Faithful, Listed, Within
<1>2. Kept(stored, settings, promised2)
  BY DEF Faithful, Kept, Within
<1>3. Backed(record2, promised2)
  <2> SUFFICES ASSUME NEW k \in Keys, NEW n \in DOMAIN record2[k], NEW res, res = <<k[1], k[2], n>>
      PROVE \/ /\ res \in DOMAIN promised2
               /\ promised2[res].op = "set"
               /\ record2[k][n] = NormalizePriority(promised2[res].priority)
            \/ /\ res \notin DOMAIN promised2
               /\ \E req \in Requests : req.op = "set" /\ ResourceOf(req) = res
                       /\ record2[k][n] = NormalizePriority(req.priority)
    BY DEF Backed
  <2>1. n \in DOMAIN record[k] /\ record2[k][n] = record[k][n]
    BY DEF Within
  <2>2. \/ /\ res \in DOMAIN promised
           /\ promised[res].op = "set"
           /\ record[k][n] = NormalizePriority(promised[res].priority)
        \/ /\ res \notin DOMAIN promised
           /\ \E req \in Requests : req.op = "set" /\ ResourceOf(req) = res
                   /\ record[k][n] = NormalizePriority(req.priority)
    BY <2>1 DEF Faithful, Backed
  <2> QED
    BY <2>1, <2>2 DEF Within, Own
<1> QED
  BY <1>1, <1>2, <1>3 DEF Faithful

\* nor does recording what was found to hold,
LEMMA SucceedFaithful ==
  ASSUME NEW stored, NEW settings, NEW record, NEW promised, NEW req \in Requests,
         DOMAIN record = Keys, Own(promised), Faithful(stored, settings, record, promised),
         Holds(stored, settings, req),
         NEW record2,
         record2 = IF req.op = "set"
                   THEN [record EXCEPT ![KeyOf(req)] =
                            Put(@, req.rule.name, NormalizePriority(req.priority))]
                   ELSE record
  PROVE  Faithful(stored, settings, record2, Put(promised, ResourceOf(req), req))
<1> DEFINE now == Put(promised, ResourceOf(req), req)
           mine == <<req.profile, req.adapter, req.rule.name>>
<1>1. /\ DOMAIN now = DOMAIN promised \union {ResourceOf(req)}
      /\ now[ResourceOf(req)] = req
      /\ \A res \in DOMAIN promised : res # ResourceOf(req) => now[res] = promised[res]
  BY DEF Put
<1>2. req.op \in {"set", "delete", "configure"} /\ KeyOf(req) \in Keys
  BY RequestsAssumption DEF IsRequest, KeyOf, Keys
<1>3. /\ req.op = "configure" => ResourceOf(req) = <<"firewall">>
      /\ req.op # "configure" => ResourceOf(req) = mine
  BY DEF ResourceOf
<1>4. \A a, b, c : <<"firewall">> # <<a, b, c>>
  OBVIOUS
<1> HIDE DEF now
<1>5. Kept(stored, settings, now)
  BY <1>1 DEF Faithful, Kept
<1>6. ASSUME NEW k \in Keys, NEW n \in DOMAIN record2[k]
      PROVE  \/ /\ req.op = "set" /\ k = KeyOf(req) /\ n = req.rule.name
                /\ record2[k][n] = NormalizePriority(req.priority)
             \/ /\ n \in DOMAIN record[k] /\ record2[k][n] = record[k][n]
                /\ req.op = "set" => k # KeyOf(req) \/ n # req.rule.name
  BY <1>2 DEF Put
<1>7. req.op = "set" => req.rule.name \in NamesOf(RulesOn(stored[req.profile], req.adapter))
  BY NamesAre DEF Holds, RuleHolds
<1>8. Listed(stored, record2)
  BY <1>6, <1>7 DEF Listed, Faithful, KeyOf
<1>9. Backed(record2, now)
  <2> SUFFICES ASSUME NEW k \in Keys, NEW n \in DOMAIN record2[k], NEW res, res = <<k[1], k[2], n>>
      PROVE \/ /\ res \in DOMAIN now
               /\ now[res].op = "set"
               /\ record2[k][n] = NormalizePriority(now[res].priority)
            \/ /\ res \notin DOMAIN now
               /\ \E r \in Requests : r.op = "set" /\ ResourceOf(r) = res
                       /\ record2[k][n] = NormalizePriority(r.priority)
    BY DEF Backed
  <2>1. k = <<k[1], k[2]>>
    BY DEF Keys
  <2>2. CASE req.op = "set" /\ k = KeyOf(req) /\ n = req.rule.name
             /\ record2[k][n] = NormalizePriority(req.priority)
    <3>1. res = ResourceOf(req)
      BY <1>3, <2>2 DEF KeyOf
    <3> QED
      BY <1>1, <2>2, <3>1
  <2>3. CASE n \in DOMAIN record[k] /\ record2[k][n] = record[k][n]
             /\ (req.op = "set" => k # KeyOf(req) \/ n # req.rule.name)
    <3>1. n \in NamesOf(RulesOn(stored[k[1]], k[2]))
      BY <2>3 DEF Faithful, Listed
    <3>2. req.op = "delete" => k # KeyOf(req) \/ n # req.rule.name
      BY <3>1 DEF Holds, RuleHolds, KeyOf
    <3>3. req.op # "configure" => <<k[1], k[2]>> # <<req.profile, req.adapter>> \/ n # req.rule.name
      BY <1>2, <2>1, <2>3, <3>2 DEF KeyOf
    <3>4. res # ResourceOf(req)
      BY <1>3, <1>4, <3>3
    <3>5. \/ /\ res \in DOMAIN promised
             /\ promised[res].op = "set"
             /\ record[k][n] = NormalizePriority(promised[res].priority)
          \/ /\ res \notin DOMAIN promised
             /\ \E r \in Requests : r.op = "set" /\ ResourceOf(r) = res
                     /\ record[k][n] = NormalizePriority(r.priority)
      BY <2>3 DEF Faithful, Backed
    <3> QED
      BY <1>1, <2>3, <3>4, <3>5
  <2> QED
    BY <1>6, <2>2, <2>3
<1> QED
  BY <1>5, <1>8, <1>9 DEF Faithful, now

\* nor a save of what was planned from the profile as it is stored,
LEMMA SaveFaithful ==
  ASSUME NEW stored, NEW settings, NEW record, NEW promised, NEW j, j.req \in Requests, Planned(j),
         DOMAIN stored = Profiles, \A p \in Profiles : IsProfile(stored[p]),
         j.before = stored[j.req.profile],
         Own(promised), Faithful(stored, settings, record, promised),
         ResourceOf(j.req) \notin DOMAIN promised,
         j.req.op = "delete" => j.req.rule.name \notin DOMAIN record[KeyOf(j.req)]
  PROVE  Faithful([stored EXCEPT ![j.req.profile] = j.after], settings, record, promised)
<1> DEFINE new == [stored EXCEPT ![j.req.profile] = j.after]
<1>1. Listed(new, record)
  BY SaveListed DEF Faithful
<1>2. ASSUME NEW res \in DOMAIN promised PROVE Holds(new, settings, promised[res])
  <2>1. promised[res] \in Requests /\ ResourceOf(promised[res]) # ResourceOf(j.req)
        /\ Holds(stored, settings, promised[res])
    BY DEF Own, Faithful, Kept
  <2> QED
    BY <2>1, SaveHolds
<1> HIDE DEF new
<1>3. Kept(new, settings, promised)
  BY <1>2 DEF Kept
<1>4. Backed(record, promised)
  BY DEF Faithful
<1> QED
  BY <1>1, <1>3, <1>4 DEF Faithful, new

\* nor throwing the switch while its promise is withdrawn.
LEMMA SwitchFaithful ==
  ASSUME NEW stored, NEW settings, NEW record, NEW promised, NEW req \in Requests,
         req.op = "configure", ResourceOf(req) \notin DOMAIN promised,
         Own(promised), Faithful(stored, settings, record, promised), NEW settings2
  PROVE  Faithful(stored, settings2, record, promised)
<1>1. ASSUME NEW res \in DOMAIN promised PROVE promised[res].op # "configure"
  BY Apart DEF Own
<1>2. Kept(stored, settings2, promised)
  BY <1>1 DEF Faithful, Kept, Holds
<1> QED
  BY <1>2 DEF Faithful

----------------------------------------------------------------------------
\* What is stored, promised and recorded: agreeing, until the interface saves something.
Data ==
    /\ WellFormed
    /\ Recordable
    /\ Quiet => Faithful(dsm.stored, dsm.settings, order, promise)

\* The inductive invariant of everything below.
Sound == IInv /\ Operating /\ Data

Bounded == budget'.foreign = budget.foreign

\* A step that writes nothing, and at most forgets.
LEMMA SameData ==
  ASSUME Sound, UNCHANGED dsm, DOMAIN order' = Keys, \A k \in Keys : Within(order'[k], order[k]),
         Within(promise', promise), Bounded
  PROVE  Data'
<1>1. WellFormed'
  BY DEF Sound, Data, WellFormed, IsProfile
<1>2. Recordable'
  BY DEF Sound, Data, Recordable, Within
<1>3. Own(promise)
  BY DEF Sound, Operating, Requested, Own
<1>4. Quiet' => Faithful(dsm'.stored, dsm'.settings, order', promise')
  <2> SUFFICES ASSUME Quiet PROVE Faithful(dsm.stored, dsm.settings, order', promise')
    BY DEF Quiet, Bounded
  <2>1. Faithful(dsm.stored, dsm.settings, order, promise)
    BY DEF Sound, Data
  <2> QED
    BY <1>3, <2>1, FewerFaithful
<1> QED
  BY <1>1, <1>2, <1>4 DEF Data, Faithful, Listed, Kept, Backed

LEMMA WithinSelf == \A f : Within(f, f)
  BY DEF Within

\* An operation that ends in success, having found what it promises.
LEMMA SucceedData ==
  ASSUME Sound, NEW req \in Requests, UNCHANGED dsm, Bounded, Holds(dsm.stored, dsm.settings, req),
         promise' = Put(promise, ResourceOf(req), req),
         order' = IF req.op = "set"
                  THEN [order EXCEPT ![KeyOf(req)] =
                            Put(@, req.rule.name, NormalizePriority(req.priority))]
                  ELSE order
  PROVE  Data'
<1>1. WellFormed'
  BY DEF Sound, Data, WellFormed, IsProfile
<1>2. Recordable'
  <2>1. CASE req.op = "set"
    <3>1. NormalizePriority(req.priority) \in Nat
      BY <2>1, RequestsAssumption DEF IsRequest, NormalizePriority
    <3>2. Recordable
      BY DEF Sound, Data
    <3> HIDE DEF NormalizePriority
    <3> QED
      BY <2>1, <3>1, <3>2 DEF Recordable, Put
  <2>2. CASE req.op # "set"
    BY <2>2 DEF Sound, Data, Recordable
  <2> QED
    BY <2>1, <2>2
<1>3. Own(promise) /\ DOMAIN order = Keys
  BY DEF Sound, Operating, Requested, Own, Data, Recordable
<1>4. Quiet' => Faithful(dsm'.stored, dsm'.settings, order', promise')
  <2> SUFFICES ASSUME Quiet PROVE Faithful(dsm.stored, dsm.settings, order', promise')
    BY DEF Quiet, Bounded
  <2>1. Faithful(dsm.stored, dsm.settings, order, promise)
    BY DEF Sound, Data
  <2> QED
    BY <1>3, <2>1, SucceedFaithful
<1> QED
  BY <1>1, <1>2, <1>4 DEF Data, Faithful, Listed, Kept, Backed

LEMMA DropWithin ==
  ASSUME NEW f, NEW x
  PROVE  Within(Drop(f, x), f) /\ x \notin DOMAIN Drop(f, x)
  BY DEF Within, Drop

\* A write to DSM, by an operation whose own promise is withdrawn.
LEMMA WriteData ==
  ASSUME Sound, WellFormed', UNCHANGED <<order, promise>>, Bounded,
         Quiet => Faithful(dsm'.stored, dsm'.settings, order, promise)
  PROVE  Data'
<1>1. Recordable'
  BY DEF Sound, Data, Recordable
<1> QED
  BY <1>1 DEF Data, Quiet, Bounded, Faithful, Listed, Kept, Backed

\* How the operators that end a step look to it.
LEMMA FailStops ==
  ASSUME NEW w \in Workers, Sound, Fail(w)
  PROVE  Stops(w) /\ promise' = promise /\ Bounded
  BY DEF Fail, Stops, Bounded, Sound, IInv, ForeignBudget

LEMMA SucceedStops ==
  ASSUME NEW w \in Workers, Succeed(w)
  PROVE  Stops(w) /\ promise' = Put(promise, ResourceOf(job[w].req), job[w].req) /\ Bounded
  BY DEF Succeed, Stops, Bounded

LEMMA CommitGoes ==
  ASSUME NEW w \in Workers, NEW j, Commit(w, j), j.pc \in {"save", "switch", "verify"},
         j.req = job[w].req, JobOK(j),
         j.req.op # "configure" => j.pc = "save" /\ j.settings = dsm'.settings,
         j.req.op = "delete" => j.req.rule.name \notin DOMAIN order'[KeyOf(j.req)]
  PROVE  Goes(w, j) /\ Within(promise', promise) /\ Bounded
<1>1. promise' = Drop(promise, ResourceOf(j.req)) /\ job' = [job EXCEPT ![w] = j]
      /\ todo' = todo /\ budget' = budget
  BY DEF Commit
<1>2. Within(promise', promise) /\ ResourceOf(j.req) \notin DOMAIN promise'
  BY <1>1, DropWithin
<1>3. DroppedJob(j)'
  BY <1>2 DEF DroppedJob, ResourceOf
<1>4. InForceJob(j)'
  BY DEF InForceJob
<1>5. ForgottenJob(j)'
  BY DEF ForgottenJob, KeyOf
<1> QED
  BY <1>1, <1>2, <1>3, <1>4, <1>5 DEF Goes, Current, Bounded, Inside

LEMMA GotoGoes ==
  ASSUME NEW w \in Workers, Sound, NEW pc \in {"switch", "apply", "verify"},
         job[w].pc \in {"save", "switch", "apply"}, Goto(w, pc),
         pc = "switch" => job[w].req.op = "configure",
         dsm'.settings = dsm.settings \/ job[w].req.op = "configure",
         pc = "verify" /\ job[w].req.op # "configure"
           /\ dsm'.settings.active = job[w].req.profile =>
             dsm'.live = dsm'.stored[job[w].req.profile]
  PROVE  (\E j : Goes(w, j)) /\ promise' = promise /\ Bounded
<1> DEFINE j == [job[w] EXCEPT !.pc = pc]
<1>1. /\ job' = [job EXCEPT ![w] = j] /\ todo' = todo /\ promise' = promise /\ budget' = budget
  BY DEF Goto
<1>2. j.pc = pc /\ j.req = job[w].req /\ j.settings = job[w].settings
  BY DEF Sound, IInv, Shaped, Inside, Outside
<1>3. JobOK(job[w]) /\ Current(job[w])
  BY DEF Sound, Operating, Requested
<1>4. JobOK(j)
  BY <1>2, <1>3 DEF JobOK, Inside
<1> HIDE DEF j
<1>5. ASSUME NEW i, i = j PROVE Current(i)'
  <2>1. DroppedJob(i)'
    BY <1>1, <1>2, <1>3, <1>5 DEF DroppedJob, Current, ResourceOf
  <2>2. InForceJob(i)'
    BY <1>2, <1>3, <1>5 DEF InForceJob, Current, Inside
  <2>3. ForgottenJob(i)'
    BY <1>2, <1>5 DEF ForgottenJob
  <2> QED
    BY <2>1, <2>2, <2>3 DEF Current
<1>6. ASSUME NEW i, i = j PROVE Goes(w, i)
  BY <1>1, <1>2, <1>4, <1>5, <1>6 DEF Goes, Inside
<1> QED
  BY <1>1, <1>6 DEF Bounded

----------------------------------------------------------------------------
\* The steps of an operation, one by one.
LEMMA DecideSetSound ==
  ASSUME NEW w \in Workers, Sound, DecideSet(w)
  PROVE  Operating' /\ Data'
<1> DEFINE req == job[w].req
           before == dsm.stored[req.profile]
           j == [pc |-> "save", req |-> req, settings |-> job[w].settings,
                 before |-> before, after |-> WithRule(req)]
<1>1. job[w].pc = "profile" /\ req.op = "set" /\ UNCHANGED <<dsm, order>>
  BY DEF DecideSet, At
<1>2. Fail(w) \/ Commit(w, j)
  BY DEF DecideSet
<1>3. req \in Requests /\ job[w].settings \in [enabled : BOOLEAN, active : Profiles]
      /\ WellFormed /\ Recordable /\ job[w].settings = dsm.settings
  BY <1>1 DEF Sound, Data, Operating, Requested, JobOK, Current, InForceJob, Inside
<1>4. JobOK(j)
  <2>1. IsProfile(before)
    BY <1>3, RequestsAssumption DEF WellFormed, IsRequest
  <2>2. PICK rules : /\ IsRuleList(rules)
                     /\ WithRule(req) = PutRules(before, req.adapter, rules)
                     /\ RulesIn(rules) = Wanted(before, req)
    BY <1>1, <1>3, WithRulePlanned
  <2>3. Planned(j)
    BY <1>1, <2>1, <2>2 DEF Planned
  <2> QED
    BY <1>3, <2>3 DEF JobOK
<1>5. DOMAIN order' = Keys /\ \A k \in Keys : Within(order'[k], order[k])
  BY <1>1, <1>3, WithinSelf DEF Recordable
<1>6. CASE Fail(w)
  <2>1. Stops(w) /\ promise' = promise /\ Bounded
    BY <1>6, FailStops
  <2> QED
    BY <1>1, <1>5, <2>1, SameData, StopsOperating, WithinSelf DEF Sound, Inside
<1>7. CASE Commit(w, j)
  <2>1. j.pc = "save" /\ j.req = job[w].req /\ j.settings = dsm'.settings /\ j.req.op = "set"
    BY <1>1, <1>3
  <2> HIDE DEF j
  <2>2. Goes(w, j) /\ Within(promise', promise) /\ Bounded
    BY <1>4, <1>7, <2>1, CommitGoes
  <2> QED
    BY <1>1, <1>5, <2>2, SameData, GoesOperating DEF Sound, Inside
<1> QED
  BY <1>2, <1>6, <1>7

\* A rule that is gone is one the record no longer names.
LEMMA DecideDeleteSound ==
  ASSUME NEW w \in Workers, Sound, DecideDelete(w)
  PROVE  Operating' /\ Data'
<1> DEFINE req == job[w].req
           before == dsm.stored[req.profile]
           j == [pc |-> "save", req |-> req, settings |-> job[w].settings,
                 before |-> before, after |-> WithoutTheRule(req)]
<1>1. job[w].pc = "profile" /\ req.op = "delete" /\ UNCHANGED dsm
  BY DEF DecideDelete, At
<1>2. \/ /\ req.rule.name \notin NamesOf(RulesOn(before, req.adapter))
         /\ Succeed(w) /\ UNCHANGED order
      \/ /\ order' = [order EXCEPT ![KeyOf(req)] = Forget(req)]
         /\ Fail(w) \/ Commit(w, j)
  BY DEF DecideDelete
<1>3. req \in Requests /\ job[w].settings \in [enabled : BOOLEAN, active : Profiles]
      /\ WellFormed /\ Recordable /\ job[w].settings = dsm.settings
  BY <1>1 DEF Sound, Data, Operating, Requested, JobOK, Current, InForceJob, Inside
<1>4. JobOK(j)
  <2>1. IsProfile(before)
    BY <1>3, RequestsAssumption DEF WellFormed, IsRequest
  <2>2. PICK rules : /\ IsRuleList(rules)
                     /\ WithoutTheRule(req) = PutRules(before, req.adapter, rules)
                     /\ RulesIn(rules) = Wanted(before, req)
    BY <1>1, <1>3, WithoutTheRulePlanned
  <2>3. Planned(j)
    BY <1>1, <2>1, <2>2 DEF Planned
  <2> QED
    BY <1>3, <2>3 DEF JobOK
<1>5. KeyOf(req) \in Keys
  BY <1>3, RequestsAssumption DEF IsRequest, KeyOf, Keys
<1>6. CASE /\ order' = [order EXCEPT ![KeyOf(req)] = Forget(req)]
           /\ Fail(w) \/ Commit(w, j)
  <2>1. Forget(req) = Drop(order[KeyOf(req)], req.rule.name)
    BY DEF Forget
  <2>2. /\ DOMAIN order' = Keys
        /\ \A k \in Keys : Within(order'[k], order[k])
        /\ req.rule.name \notin DOMAIN order'[KeyOf(req)]
    BY <1>3, <1>5, <1>6, <2>1, DropWithin, WithinSelf DEF Recordable
  <2>3. CASE Fail(w)
    <3>1. Stops(w) /\ promise' = promise /\ Bounded
      BY <2>3, FailStops
    <3> QED
      BY <1>1, <2>2, <3>1, SameData, StopsOperating, WithinSelf DEF Sound, Inside
  <2>4. CASE Commit(w, j)
    <3>1. j.pc = "save" /\ j.req = job[w].req /\ j.settings = dsm'.settings
          /\ j.req.rule.name \notin DOMAIN order'[KeyOf(j.req)]
      BY <1>1, <1>3, <2>2
    <3> HIDE DEF j
    <3>2. Goes(w, j) /\ Within(promise', promise) /\ Bounded
      BY <1>4, <2>4, <3>1, CommitGoes
    <3> QED
      BY <1>1, <2>2, <3>2, SameData, GoesOperating DEF Sound, Inside
  <2> QED
    BY <2>3, <2>4, <1>6
<1>7. CASE /\ req.rule.name \notin NamesOf(RulesOn(before, req.adapter))
           /\ Succeed(w) /\ UNCHANGED order
  <2>1. Stops(w) /\ promise' = Put(promise, ResourceOf(req), req) /\ Bounded
    BY <1>7, SucceedStops
  <2>2. Holds(dsm.stored, dsm.settings, req)
    BY <1>1, <1>7 DEF Holds, RuleHolds
  <2>3. Data'
    BY <1>1, <1>3, <1>7, <2>1, <2>2, SucceedData
  <2> QED
    BY <1>1, <2>1, <2>3, StopsOperating DEF Sound, Inside
<1> QED
  BY <1>2, <1>6, <1>7

\* Whatever a configure does next, from a plan it made.
LEMMA ConfigureSound ==
  ASSUME NEW w \in Workers, NEW j, Sound, Configure(w, j) \/ Fail(w), UNCHANGED <<dsm, order>>,
         job[w].pc \in Inside, j.pc = "inForce", Shaped(j), JobOK(j), j.req = job[w].req
  PROVE  Operating' /\ Data'
<1>1. DOMAIN order' = Keys /\ \A k \in Keys : Within(order'[k], order[k])
  BY WithinSelf DEF Sound, Data, Recordable
<1>2. CASE Fail(w)
  <2>1. Stops(w) /\ promise' = promise /\ Bounded
    BY <1>2, FailStops
  <2> QED
    BY <1>1, <2>1, SameData, StopsOperating, WithinSelf DEF Sound
<1>3. ASSUME NEW pc \in {"save", "switch", "verify"}, NEW i, i = [j EXCEPT !.pc = pc], Commit(w, i)
      PROVE  Operating' /\ Data'
  <2>1. i.pc = pc /\ i.req = j.req /\ i.settings = j.settings /\ i.before = j.before
        /\ i.after = j.after
    BY <1>3 DEF Shaped, Inside
  <2>2. j.req.op = "configure" /\ JobOK(i)
    BY <2>1 DEF JobOK, Planned, Inside
  <2>3. Goes(w, i) /\ Within(promise', promise) /\ Bounded
    BY <1>3, <2>1, <2>2, CommitGoes
  <2> QED
    BY <1>1, <2>3, SameData, GoesOperating DEF Sound
<1> QED
  BY <1>2, <1>3 DEF Configure

LEMMA DecideConfigureSound ==
  ASSUME NEW w \in Workers, Sound, DecideConfigure(w)
  PROVE  Operating' /\ Data'
<1> DEFINE req == job[w].req
           before == dsm.stored[req.profile]
           j == [pc |-> "inForce", req |-> req, settings |-> job[w].settings,
                 before |-> before,
                 after |-> [before EXCEPT !.policy = Overlay(before.policy, req.policy)],
                 changed |-> PolicyChanges(req, before)]
<1>1. job[w].pc = "profile" /\ req.op = "configure" /\ UNCHANGED <<dsm, order>>
  BY DEF DecideConfigure, At
<1>2. \/ Fail(w)
      \/ job' = [job EXCEPT ![w] = j] /\ UNCHANGED <<mu, todo, budget, promise>>
      \/ Configure(w, j)
  BY DEF DecideConfigure, GuardedConfigure
<1>3. req \in Requests /\ job[w].settings \in [enabled : BOOLEAN, active : Profiles] /\ WellFormed
  BY <1>1 DEF Sound, Data, Operating, Requested, JobOK, Inside
<1>4. JobOK(j)
  <2>1. IsProfile(before)
    BY <1>3, RequestsAssumption DEF WellFormed, IsRequest
  <2> QED
    BY <1>1, <1>3, <2>1 DEF JobOK, Planned
<1>5. j.pc = "inForce" /\ Shaped(j) /\ j.req = job[w].req /\ j.req.op = "configure"
  BY <1>1 DEF Shaped, Inside
<1> HIDE DEF j
<1>6. CASE Fail(w) \/ Configure(w, j)
  BY <1>1, <1>4, <1>5, <1>6, ConfigureSound DEF Inside
<1>7. ASSUME NEW i, i = j, job' = [job EXCEPT ![w] = i], UNCHANGED <<mu, todo, budget, promise>>
      PROVE  Operating' /\ Data'
  <2>1. Current(i)'
    BY <1>5, <1>7 DEF Current, DroppedJob, InForceJob, ForgottenJob
  <2>2. Goes(w, i)
    BY <1>4, <1>5, <1>7, <2>1 DEF Goes, Inside
  <2>3. DOMAIN order' = Keys /\ \A k \in Keys : Within(order'[k], order[k])
    BY <1>1, WithinSelf DEF Sound, Data, Recordable
  <2>4. Within(promise', promise) /\ Bounded
    BY <1>7, WithinSelf DEF Bounded
  <2> QED
    BY <1>1, <2>2, <2>3, <2>4, SameData, GoesOperating DEF Sound, Inside
<1> QED
  BY <1>2, <1>6, <1>7

LEMMA ReadInForceSound ==
  ASSUME NEW w \in Workers, Sound, ReadInForce(w)
  PROVE  Operating' /\ Data'
<1>1. job[w].pc = "inForce" /\ UNCHANGED <<dsm, order>> /\ (Configure(w, job[w]) \/ Fail(w))
  BY DEF ReadInForce, At, GuardedConfigure
<1>2. JobOK(job[w]) /\ Shaped(job[w])
  BY DEF Sound, Operating, Requested, IInv
<1> QED
  BY <1>1, <1>2, ConfigureSound DEF Inside

----------------------------------------------------------------------------
\* A call that has its effect or not, and ends the operation or not.
LEMMA CallSound ==
  ASSUME NEW w \in Workers, Sound, NEW next \in {"switch", "apply", "verify"},
         job[w].pc \in {"save", "switch", "apply"},
         UNCHANGED order, WellFormed',
         Quiet => Faithful(dsm'.stored, dsm'.settings, order, promise),
         Fail(w) \/ Goto(w, next),
         next = "switch" => job[w].req.op = "configure",
         dsm'.settings = dsm.settings \/ job[w].req.op = "configure",
         next = "verify" /\ job[w].req.op # "configure"
             /\ dsm'.settings.active = job[w].req.profile =>
                 dsm'.live = dsm'.stored[job[w].req.profile]
  PROVE  Operating' /\ Data'
<1>1. CASE Fail(w)
  <2>1. Stops(w) /\ promise' = promise /\ Bounded
    BY <1>1, FailStops
  <2> QED
    BY <2>1, WriteData, StopsOperating DEF Sound, Inside
<1>2. CASE Goto(w, next)
  <2>1. (\E j : Goes(w, j)) /\ promise' = promise /\ Bounded
    BY <1>2, GotoGoes
  <2> QED
    BY <2>1, WriteData, GoesOperating DEF Sound, Inside
<1> QED
  BY <1>1, <1>2

\* The save writes over the very profile the operation planned from.
LEMMA SaveSound ==
  ASSUME NEW w \in Workers, Sound, Save(w)
  PROVE  Operating' /\ Data'
<1> DEFINE j == job[w]
           next == AfterSave(j)
           saved == [dsm.stored EXCEPT ![j.req.profile] = j.after]
<1>1. /\ j.pc = "save" /\ order' = order
      /\ \/ dsm' = dsm
         \/ dsm' = [dsm EXCEPT !.stored[j.req.profile] = j.after]
      /\ Fail(w) \/ Goto(w, next)
  BY DEF Save, Call, At
<1>2. /\ j.req \in Requests /\ Planned(j) /\ Current(j) /\ WellFormed /\ Own(promise)
      /\ j.settings \in [enabled : BOOLEAN, active : Profiles]
  BY <1>1 DEF Sound, Data, Operating, Requested, JobOK, Own, Inside
<1>3. j.req.profile \in Profiles /\ IsProfile(j.after)
  BY <1>2, PlannedProfile, RequestsAssumption DEF IsRequest
<1>4. \/ dsm' = dsm
      \/ /\ dsm'.settings = dsm.settings /\ dsm'.live = dsm.live /\ dsm'.stored = saved
         /\ DOMAIN dsm' = DOMAIN dsm
  BY <1>1, <1>2 DEF WellFormed
<1>5. dsm'.settings = dsm.settings
  BY <1>4
<1>6. WellFormed'
  <2>1. CASE dsm' = dsm
    BY <1>2, <2>1 DEF WellFormed, IsProfile
  <2>2. CASE /\ dsm'.settings = dsm.settings /\ dsm'.live = dsm.live /\ dsm'.stored = saved
             /\ DOMAIN dsm' = DOMAIN dsm
    <3>1. DOMAIN saved = Profiles /\ \A p \in Profiles : IsProfile(saved[p])
      BY <1>2, <1>3 DEF WellFormed
    <3> HIDE DEF saved
    <3> QED
      BY <1>2, <2>2, <3>1 DEF WellFormed, IsProfile
  <2> QED
    BY <1>4, <2>1, <2>2
<1>7. ASSUME Quiet PROVE Faithful(dsm'.stored, dsm'.settings, order, promise)
  <2>1. Faithful(dsm.stored, dsm.settings, order, promise)
    BY <1>7 DEF Sound, Data
  <2>2. j.before = dsm.stored[j.req.profile]
    BY <1>1, <1>7 DEF Sound, IInv, FreshRead, Quiet
  <2>3. ResourceOf(j.req) \notin DOMAIN promise
    BY <1>1, <1>2 DEF Current, DroppedJob
  <2>4. j.req.op = "delete" => j.req.rule.name \notin DOMAIN order[KeyOf(j.req)]
    BY <1>1, <1>2 DEF Current, ForgottenJob
  <2> HIDE DEF j
  <2>5. Faithful(saved, dsm.settings, order, promise)
    BY <1>2, <2>1, <2>2, <2>3, <2>4, SaveFaithful DEF WellFormed
  <2> QED
    BY <1>4, <2>1, <2>5
<1>8. /\ next \in {"switch", "apply", "verify"}
      /\ next = "switch" => j.req.op = "configure"
      /\ next = "verify" /\ j.req.op # "configure" => j.settings.active # j.req.profile
  BY DEF AfterSave, AfterSwitch
<1>9. j.req.op # "configure" => j.settings = dsm.settings
  BY <1>1, <1>2 DEF Current, InForceJob, Inside
<1> HIDE DEF next
<1> QED
  BY <1>1, <1>5, <1>6, <1>7, <1>8, <1>9, CallSound

LEMMA SwitchSound ==
  ASSUME NEW w \in Workers, Sound, Switch(w)
  PROVE  Operating' /\ Data'
<1> DEFINE j == job[w]
           next == AfterSwitch(j)
           thrown == [enabled |-> j.req.enabled, active |-> j.req.profile]
<1>1. /\ j.pc = "switch" /\ order' = order
      /\ \/ dsm' = dsm
         \/ dsm' = [dsm EXCEPT !.settings = thrown]
      /\ Fail(w) \/ Goto(w, next)
  BY DEF Switch, Call, At
<1>2. j.req \in Requests /\ j.req.op = "configure" /\ Current(j) /\ WellFormed /\ Own(promise)
  BY <1>1 DEF Sound, Data, Operating, Requested, JobOK, Own
<1>3. thrown \in [enabled : BOOLEAN, active : Profiles]
  BY <1>2, RequestsAssumption DEF IsRequest
<1>4. /\ dsm'.settings = dsm.settings \/ dsm'.settings = thrown
      /\ dsm'.live = dsm.live /\ dsm'.stored = dsm.stored
      /\ DOMAIN dsm' = DOMAIN dsm
  BY <1>1, <1>2 DEF WellFormed
<1> HIDE DEF thrown
<1>5. WellFormed'
  BY <1>2, <1>3, <1>4 DEF WellFormed, IsProfile
<1>6. ASSUME Quiet PROVE Faithful(dsm'.stored, dsm'.settings, order, promise)
  <2>1. Faithful(dsm.stored, dsm.settings, order, promise)
    BY <1>6 DEF Sound, Data
  <2>2. ResourceOf(j.req) \notin DOMAIN promise
    BY <1>1, <1>2 DEF Current, DroppedJob
  <2> QED
    BY <1>2, <1>4, <2>1, <2>2, SwitchFaithful
<1>7. next \in {"apply", "verify"}
  BY DEF AfterSwitch
<1> HIDE DEF next
<1> QED
  BY <1>1, <1>2, <1>5, <1>6, <1>7, CallSound

\* After an apply that is answered, what is stored is in force.
LEMMA ApplySound ==
  ASSUME NEW w \in Workers, Sound, Apply(w)
  PROVE  Operating' /\ Data'
<1> DEFINE j == job[w]
           rendered == [dsm EXCEPT !.live = dsm.stored[j.req.profile]]
<1>1. /\ j.pc = "apply" /\ order' = order
      /\ \/ dsm' = rendered /\ Goto(w, "verify")
         \/ (dsm' = dsm \/ dsm' = rendered) /\ Fail(w)
  BY DEF Apply, At
<1>2. j.req \in Requests /\ WellFormed
  BY <1>1 DEF Sound, Data, Operating, Requested, JobOK
<1>3. j.req.profile \in Profiles
  BY <1>2, RequestsAssumption DEF IsRequest
<1>4. /\ dsm'.settings = dsm.settings /\ dsm'.stored = dsm.stored
      /\ DOMAIN dsm' = DOMAIN dsm
      /\ dsm'.live = dsm.live \/ dsm'.live = dsm.stored[j.req.profile]
  BY <1>1, <1>2 DEF WellFormed
<1>5. WellFormed'
  BY <1>2, <1>3, <1>4 DEF WellFormed, IsProfile
<1>6. Quiet => Faithful(dsm'.stored, dsm'.settings, order, promise)
  BY <1>4 DEF Sound, Data
<1>7. CASE Fail(w)
  BY <1>1, <1>4, <1>5, <1>6, <1>7, CallSound
<1>8. CASE dsm' = rendered /\ Goto(w, "verify")
  <2>1. dsm'.live = dsm'.stored[j.req.profile]
    BY <1>2, <1>8 DEF WellFormed
  <2> HIDE DEF rendered
  <2> QED
    BY <1>1, <1>4, <1>5, <1>6, <1>8, <2>1, CallSound
<1> QED
  BY <1>1, <1>7, <1>8

----------------------------------------------------------------------------
\* The read-back records what it found.
LEMMA VerifiedSound ==
  ASSUME NEW w \in Workers, Sound, Verified(w)
  PROVE  Operating' /\ Data'
<1> DEFINE req == job[w].req
<1>1. /\ job[w].pc = "verify" /\ UNCHANGED dsm /\ Persisted(req) /\ Succeed(w)
      /\ order' = IF req.op = "set"
                  THEN [order EXCEPT ![KeyOf(req)] =
                            Put(@, req.rule.name, NormalizePriority(req.priority))]
                  ELSE order
  BY DEF Verified, At
<1>2. req \in Requests /\ WellFormed
  BY <1>1 DEF Sound, Data, Operating, Requested, JobOK
<1>3. Stops(w) /\ promise' = Put(promise, ResourceOf(req), req) /\ Bounded
  BY <1>1, SucceedStops
<1>4. Holds(dsm.stored, dsm.settings, req)
  BY <1>1, <1>2, PersistedHolds
<1>5. Data'
  BY <1>1, <1>2, <1>3, <1>4, SucceedData
<1> QED
  BY <1>1, <1>3, <1>5, StopsOperating DEF Sound, Inside

LEMMA FailSound ==
  ASSUME NEW w \in Workers, Sound, ReadFails(w) \/ NotPersisted(w)
  PROVE  Operating' /\ Data'
<1>1. job[w].pc \in Inside /\ Fail(w) /\ UNCHANGED <<dsm, order>>
  BY DEF ReadFails, NotPersisted, At, Inside
<1>2. DOMAIN order' = Keys /\ \A k \in Keys : Within(order'[k], order[k])
  BY <1>1, WithinSelf DEF Sound, Data, Recordable
<1>3. Stops(w) /\ promise' = promise /\ Bounded
  BY <1>1, FailStops
<1> QED
  BY <1>1, <1>2, <1>3, SameData, StopsOperating, WithinSelf DEF Sound

----------------------------------------------------------------------------
LEMMA InitSound == Init => Sound
<1> SUFFICES ASSUME Init PROVE Sound
  OBVIOUS
<1>1. WellFormed
  BY DsmAssumption DEF Init, WellFormed
<1>2. Recordable
  BY DEF Init, Recordable
<1>3. Faithful(dsm.stored, dsm.settings, order, promise)
  BY DEF Init, Faithful, Listed, Kept, Backed
<1> QED
  BY <1>1, <1>2, <1>3, InitIInv, InitOperating DEF Sound, Data

\* Every step preserves it.
LEMMA StepSound == Sound /\ [Next]_vars => Sound'
<1> SUFFICES ASSUME Sound, [Next]_vars PROVE Operating' /\ Data'
  BY StepIInv DEF Sound
<1>1. ASSUME NEW w \in Workers, NEW req \in Requests, Start(w, req) PROVE Operating' /\ Data'
  <2>1. UNCHANGED <<dsm, order, promise, budget>>
    BY <1>1 DEF Start
  <2>2. DOMAIN order' = Keys /\ (\A k \in Keys : Within(order'[k], order[k]))
        /\ Within(promise', promise) /\ Bounded
    BY <2>1, WithinSelf DEF Sound, Data, Recordable, Bounded
  <2> QED
    BY <1>1, <2>1, <2>2, StartOperating, SameData DEF Sound
<1>2. ASSUME NEW w \in Workers, Step(w) PROVE Operating' /\ Data'
  <2>1. CASE LockAndReadSettings(w)
    <3>1. UNCHANGED <<dsm, order, promise, budget>>
      BY <2>1 DEF LockAndReadSettings
    <3>2. DOMAIN order' = Keys /\ (\A k \in Keys : Within(order'[k], order[k]))
          /\ Within(promise', promise) /\ Bounded
      BY <3>1, WithinSelf DEF Sound, Data, Recordable, Bounded
    <3> QED
      BY <2>1, <3>1, <3>2, LockOperating, SameData DEF Sound, Data
  <2> QED
    BY <1>2, <2>1, FailSound, VerifiedSound, DecideSetSound, DecideDeleteSound,
       DecideConfigureSound, ReadInForceSound, SaveSound, SwitchSound, ApplySound DEF Step
<1>3. CASE ForeignSave
  <2>1. Operating' /\ WellFormed'
    BY <1>3, ForeignOperating DEF Sound, Data
  <2>2. ~Quiet'
    BY <1>3, BoundsAssumption DEF ForeignSave, Quiet, Sound, IInv, ForeignBudget
  <2>3. Recordable'
    BY <1>3 DEF ForeignSave, Sound, Data, Recordable
  <2> QED
    BY <2>1, <2>2, <2>3 DEF Data
<1>4. CASE Restart
  <2>1. dsm' = dsm /\ promise' = promise /\ order' = [k \in Keys |-> <<>>] /\ Bounded
    BY <1>4 DEF Restart, Bounded, Sound, IInv, ForeignBudget
  <2>2. DOMAIN order' = Keys /\ \A k \in Keys : Within(order'[k], order[k])
    BY <2>1 DEF Within
  <2> QED
    BY <1>4, <2>1, <2>2, RestartOperating, SameData, WithinSelf DEF Sound
<1>5. CASE UNCHANGED vars
  <2>1. UNCHANGED <<dsm, order, mu, job, todo, budget, promise>>
    BY <1>5 DEF vars
  <2>2. DOMAIN order' = Keys /\ (\A k \in Keys : Within(order'[k], order[k]))
        /\ Within(promise', promise) /\ Bounded
    BY <2>1, WithinSelf DEF Sound, Data, Recordable, Bounded
  <2>3. Operating'
    BY <2>1 DEF Sound, Operating, Requested, Pending, JobOK, Planned, Busy, Current, DroppedJob,
                InForceJob, ForgottenJob
  <2> QED
    BY <2>1, <2>2, <2>3, SameData
<1> QED
  BY <1>1, <1>2, <1>3, <1>4, <1>5 DEF Next, Terminating

\* The types, whatever is asked for and whatever fails.
THEOREM TypeCorrect == Spec => []TypeOK
<1>1. Sound => TypeOK
  <2> SUFFICES ASSUME Sound PROVE TypeOK
    OBVIOUS
  <2>1. \A w \in Busy : job[w].req \in Requests
    BY DEF Sound, Operating, Requested, JobOK, Busy
  <2>2. \A w \in Workers : job[w].pc \in
          {"idle", "queued", "profile", "inForce", "save", "switch", "apply", "verify"}
    BY DEF Sound, IInv, Shaped, Inside, Outside
  <2> QED
    BY <2>1, <2>2 DEF Sound, IInv, Operating, Requested, Data, WellFormed, Recordable, TypeOK
<1> QED
  BY InitSound, StepSound, <1>1, PTL DEF Spec

\* What a completed operation promised stays true, whatever the others do, fail at or
\* leave half done (SetFirewallRule, DeleteFirewallRule and SetFirewall save whole
\* profiles), as long as DSM's interface saves nothing.
THEOREM PromisesStand == Spec => []PromiseKept
<1>1. Sound => PromiseKept
  <2> SUFFICES ASSUME Sound, Quiet, NEW res \in DOMAIN promise PROVE Persisted(promise[res])
    BY DEF PromiseKept, Quiet
  <2>1. promise[res] \in Requests /\ WellFormed
    BY DEF Sound, Operating, Requested, Data
  <2>2. Holds(dsm.stored, dsm.settings, promise[res])
    BY DEF Sound, Data, Faithful, Kept
  <2> QED
    BY <2>1, <2>2, PersistedHolds
<1> QED
  BY InitSound, StepSound, <1>1, PTL DEF Spec

\* firewallRuleOrder names only rules that were written, with the priority asked for.
THEOREM RecordIsTrue == Spec => []RecordIsPromised
<1>1. Sound => RecordIsPromised
  BY DEF Sound, Data, Faithful, Backed, RecordIsPromised, Quiet
<1> QED
  BY InitSound, StepSound, <1>1, PTL DEF Spec

\* WrittenIsInForce, of one step.
WrittenStep ==
    \A w \in Workers :
          Completes(w, "set") /\ dsm.settings.active = job[w].req.profile =>
              dsm'.live = dsm'.stored[job[w].req.profile]

\* An operation's outcome is not among the promises before it succeeds.
LEMMA NotYet ==
  ASSUME Sound, NEW w \in Workers, NEW op, Completes(w, op)
  PROVE  promise' # promise /\ w \in Busy /\ job'[w] = Idle /\ job'[w] # job[w]
<1>1. w \in Busy /\ job'[w] = Idle
  BY DEF Completes
<1>2. job[w].pc # "idle"
  BY <1>1 DEF Busy
<1>3. ASSUME promise' = promise PROVE FALSE
  <2>1. ResourceOf(job[w].req) \in DOMAIN promise /\ promise[ResourceOf(job[w].req)] = job[w].req
    BY <1>3 DEF Completes
  <2> QED
    BY <1>1, <2>1 DEF Sound, Operating, Pending
<1> QED
  BY <1>1, <1>2, <1>3 DEF Idle

\* A set completes at its read-back only, and there InForceJob says it.
LEMMA StepWritten == Sound /\ [Next]_vars => WrittenStep
<1> SUFFICES ASSUME Sound, [Next]_vars, NEW w \in Workers, Completes(w, "set"),
                    dsm.settings.active = job[w].req.profile
             PROVE  dsm'.live = dsm'.stored[job[w].req.profile]
  BY DEF WrittenStep
<1>1. promise' # promise /\ w \in Busy /\ job'[w] = Idle /\ job'[w] # job[w]
        /\ job[w].req.op = "set"
  BY NotYet DEF Completes
<1>2. ASSUME NEW v \in Workers, Step(v)
      PROVE  dsm'.live = dsm'.stored[job[w].req.profile]
  <2>1. CASE Verified(v)
    <3>1. w = v
      BY <1>1, <2>1 DEF Verified, Succeed, Sound, IInv
    <3>2. job[w].pc = "verify" /\ dsm' = dsm
      BY <2>1, <3>1 DEF Verified, At
    <3> QED
      BY <1>1, <3>2 DEF Sound, Operating, Current, InForceJob, Inside
  <2>2. CASE DecideDelete(v)
    <3>1. job[v].req.op = "delete"
      BY <2>2 DEF DecideDelete
    <3>2. v # w
      BY <1>1, <3>1
    <3>3. job'[w] = job[w]
      BY <2>2, <3>2 DEF DecideDelete, Succeed, Fail, Commit, Sound, IInv
    <3> QED
      BY <1>1, <3>3
  <2>3. CASE ReadFails(v) \/ NotPersisted(v)
    BY <1>1, <2>3 DEF ReadFails, NotPersisted, Fail
  <2>4. CASE LockAndReadSettings(v)
    BY <1>1, <2>4 DEF LockAndReadSettings
  <2>5. CASE Save(v) \/ Switch(v) \/ Apply(v)
    BY <1>1, <2>5 DEF Save, Switch, Apply, Call, Fail, Goto
  <2>6. CASE DecideSet(v)
    <3>1. Fail(v) \/ \E j : Commit(v, j) /\ j.pc = "save"
      BY <2>6 DEF DecideSet
    <3> QED
      BY <1>1, <3>1 DEF Fail, Commit, Idle, Sound, IInv
  <2>7. CASE DecideConfigure(v) \/ ReadInForce(v)
    <3>1. job[v].pc \in Inside /\ job[v].req.op = "configure"
      BY <2>7 DEF DecideConfigure, ReadInForce, At, Sound, Operating, Requested, JobOK, Inside
    <3>2. v # w
      BY <1>1, <3>1
    <3>3. \/ Fail(v)
          \/ \E j : job' = [job EXCEPT ![v] = j]
      BY <2>7 DEF DecideConfigure, ReadInForce, GuardedConfigure, Configure, Commit
    <3>4. job'[w] = job[w]
      BY <3>2, <3>3 DEF Fail, Sound, IInv
    <3> QED
      BY <1>1, <3>4
  <2> QED
    BY <1>2, <2>1, <2>2, <2>3, <2>4, <2>5, <2>6, <2>7 DEF Step
<1>3. ASSUME NEW v \in Workers, NEW req \in Requests, Start(v, req) PROVE FALSE
  BY <1>1, <1>3 DEF Start
<1>4. CASE ForeignSave
  BY <1>1, <1>4 DEF ForeignSave
<1>5. CASE Restart
  BY <1>1, <1>5 DEF Restart
<1>6. CASE UNCHANGED vars
  BY <1>1, <1>6 DEF vars
<1> QED
  BY <1>2, <1>3, <1>4, <1>5, <1>6 DEF Next, Terminating

\* A rule write reported as done is enforced, if its profile is the active one.
THEOREM WritesAreInForce == Spec => WrittenIsInForce
<1>1. Sound /\ [Next]_vars => [WrittenStep]_vars
  BY StepWritten
<1>2. Spec => [][WrittenStep]_vars
  BY InitSound, StepSound, <1>1, PTL DEF Spec
<1> QED
  BY <1>2 DEF WrittenIsInForce, WrittenStep

\* The four together.
THEOREM NoWriteIsLost == Spec => NothingLost
  BY NoLostUpdate, PromisesStand, RecordIsTrue, WritesAreInForce, PTL DEF NothingLost

----------------------------------------------------------------------------
\* What DSM stores, seen through the instance.
LEMMA StoreRules ==
  ASSUME NEW profile, NEW a
  PROVE  /\ Store!RulesOn(profile, a) = RulesOn(profile, a)
         /\ Store!RuleSet(profile, a) = RulesIn(RulesOn(profile, a))
  BY DEF Store!RulesOn, Store!RuleSet, Store!RulesIn, RulesOn, RulesIn

\* Saving a planned profile changes the one rule.
LEMMA RuleSaved ==
  ASSUME NEW j, j.req \in Requests, j.req.op # "configure", Planned(j), WellFormed,
         j.before = dsm.stored[j.req.profile],
         dsm'.stored = [dsm.stored EXCEPT ![j.req.profile] = j.after]
  PROVE  Store!RulesBecome(j.req.profile, j.req.adapter, Wanted(j.before, j.req))
<1>1. PICK rules : /\ IsRuleList(rules)
                   /\ j.after = PutRules(j.before, j.req.adapter, rules)
                   /\ RulesIn(rules) = Wanted(j.before, j.req)
  BY DEF Planned
<1>2. j.req.profile \in Profiles /\ j.req.adapter \in Adapters
  BY RequestsAssumption DEF IsRequest
<1>3. /\ j.after.policy = j.before.policy
      /\ RulesOn(j.after, j.req.adapter) = rules
      /\ \A b \in Adapters : b # j.req.adapter => RulesOn(j.after, b) = RulesOn(j.before, b)
  BY <1>1, <1>2, Rearrange DEF Planned
<1>4. /\ dsm'.stored[j.req.profile] = j.after
      /\ \A p \in Profiles : p # j.req.profile => dsm'.stored[p] = dsm.stored[p]
  BY <1>2 DEF WellFormed
<1>5. \A p \in Profiles : dsm'.stored[p].policy = dsm.stored[p].policy
  BY <1>3, <1>4
<1>6. \A p \in Profiles, a \in Adapters : <<p, a>> # <<j.req.profile, j.req.adapter>> =>
          RulesOn(dsm'.stored[p], a) = RulesOn(dsm.stored[p], a)
  BY <1>3, <1>4
<1>7. RulesOn(dsm'.stored[j.req.profile], j.req.adapter) = rules
  BY <1>3, <1>4
<1>8. Store!IsRuleList(rules)
  BY <1>1 DEF IsRuleList, Store!IsRuleList, Effects, Store!Effects
<1> QED
  BY <1>1, <1>5, <1>6, <1>7, <1>8, StoreRules, SMTT(20) DEF Store!RulesBecome

\* Every write of this process is one of the store's.
LEMMA SaveChangesOne ==
  ASSUME NEW w \in Workers, Sound, Quiet, Save(w)
  PROVE  Store!Next \/ UNCHANGED <<dsm.stored, dsm.settings>>
<1> DEFINE j == job[w]
<1>1. /\ j.pc = "save"
      /\ \/ dsm' = dsm
         \/ dsm' = [dsm EXCEPT !.stored[j.req.profile] = j.after]
  BY DEF Save, Call, At
<1>2. j.req \in Requests /\ Planned(j) /\ WellFormed
  BY <1>1 DEF Sound, Data, Operating, Requested, JobOK, Inside
<1>3. j.before = dsm.stored[j.req.profile]
  BY <1>1 DEF Sound, IInv, FreshRead, Quiet
<1>4. j.req.op \in {"set", "delete", "configure"} /\ j.req.profile \in Profiles
  BY <1>2, RequestsAssumption DEF IsRequest
<1> SUFFICES ASSUME dsm'.settings = dsm.settings,
                    dsm'.stored = [dsm.stored EXCEPT ![j.req.profile] = j.after]
             PROVE  Store!Next
  BY <1>1, <1>2 DEF WellFormed
<1> HIDE DEF j
<1>5. CASE j.req.op # "configure"
  <2>1. Store!RulesBecome(j.req.profile, j.req.adapter, Wanted(j.before, j.req))
    BY <1>2, <1>3, <1>5, RuleSaved
  <2>2. Store!OtherRules(j.req) =
           {r \in RulesIn(RulesOn(j.before, j.req.adapter)) : r.name # j.req.rule.name}
    BY <1>3, StoreRules DEF Store!OtherRules
  <2>3. CASE j.req.op = "set"
    <3>1. Wanted(j.before, j.req) = Store!OtherRules(j.req) \union {j.req.rule}
      BY <2>2, <2>3 DEF Wanted
    <3> QED
      BY <1>2, <2>1, <2>3, <3>1 DEF Store!Next, Store!PutRule
  <2>4. CASE j.req.op = "delete"
    <3>1. Wanted(j.before, j.req) = Store!OtherRules(j.req)
      BY <2>2, <2>4 DEF Wanted
    <3> QED
      BY <1>2, <2>1, <2>4, <3>1 DEF Store!Next, Store!RemoveRule
  <2> QED
    BY <1>4, <1>5, <2>3, <2>4
<1>6. CASE j.req.op = "configure"
  <2> DEFINE policy == dsm.stored[j.req.profile].policy
             table == [a \in DOMAIN policy \union DOMAIN j.req.policy |->
                            IF a \in DOMAIN j.req.policy THEN j.req.policy[a] ELSE policy[a]]
  <2>1. j.after = [dsm.stored[j.req.profile] EXCEPT !.policy = table]
    BY <1>2, <1>3, <1>6 DEF Planned, Overlay
  <2>2. dsm'.stored = [dsm.stored EXCEPT ![j.req.profile].policy = table]
    BY <2>1
  <2> QED
    BY <1>2, <1>6, <2>2 DEF Store!Next, Store!PutPolicies
<1> QED
  BY <1>4, <1>5, <1>6

LEMMA SwitchChangesOne ==
  ASSUME NEW w \in Workers, Sound, Switch(w)
  PROVE  Store!Next \/ UNCHANGED <<dsm.stored, dsm.settings>>
<1> DEFINE req == job[w].req
           thrown == [enabled |-> req.enabled, active |-> req.profile]
<1>1. job[w].pc = "switch" /\ (dsm' = dsm \/ dsm' = [dsm EXCEPT !.settings = thrown])
  BY DEF Switch, Call, At
<1>2. req \in Requests /\ req.op = "configure" /\ WellFormed
  BY <1>1 DEF Sound, Data, Operating, Requested, JobOK
<1>3. dsm'.stored = dsm.stored /\ (dsm'.settings = dsm.settings \/ dsm'.settings = thrown)
  BY <1>1, <1>2 DEF WellFormed
<1> QED
  BY <1>2, <1>3 DEF Store!Next, Store!ThrowSwitch

\* Nothing else changes what is stored, and the interface saves nothing.
LEMMA StepChangesOne ==
  Sound /\ MaxForeign = 0 /\ [Next]_vars => [Store!Next]_<<dsm.stored, dsm.settings>>
<1> SUFFICES ASSUME Sound, MaxForeign = 0, [Next]_vars
             PROVE  Store!Next \/ UNCHANGED <<dsm.stored, dsm.settings>>
  OBVIOUS
<1>1. Quiet /\ budget.foreign = 0
  BY DEF Sound, IInv, ForeignBudget, Quiet
<1>2. ASSUME NEW w \in Workers, Step(w)
      PROVE  Store!Next \/ UNCHANGED <<dsm.stored, dsm.settings>>
  <2>1. CASE Apply(w)
    BY <2>1 DEF Apply, Sound, Data, WellFormed
  <2>2. CASE \/ LockAndReadSettings(w) \/ ReadFails(w) \/ DecideSet(w) \/ DecideDelete(w)
             \/ DecideConfigure(w) \/ ReadInForce(w) \/ Verified(w) \/ NotPersisted(w)
    <3>1. dsm' = dsm
      BY <2>2 DEF LockAndReadSettings, ReadFails, DecideSet, DecideDelete, DecideConfigure,
                  ReadInForce, Verified, NotPersisted
    <3> QED
      BY <3>1
  <2> QED
    BY <1>1, <1>2, <2>1, <2>2, SaveChangesOne, SwitchChangesOne DEF Step
<1>3. ASSUME NEW w \in Workers, NEW req \in Requests, Start(w, req) PROVE dsm' = dsm
  BY <1>3 DEF Start
<1>4. CASE ForeignSave
  BY <1>1, <1>4 DEF ForeignSave
<1>5. CASE Restart \/ UNCHANGED vars
  BY <1>5 DEF Restart, vars
<1> QED
  BY <1>2, <1>3, <1>4, <1>5 DEF Next, Terminating

\* As long as only this process writes, what DSM stores goes through the states of
\* FirewallStore: every save of a whole profile is a change of one rule or of the policies.
THEOREM Implements ==
  ASSUME MaxForeign = 0
  PROVE  Spec => OneChangeAtATime
<1>1. Init => Store!Init
  BY DEF Init, Store!Init
<1>2. Sound /\ [Next]_vars => [Store!Next]_<<dsm.stored, dsm.settings>>
  BY StepChangesOne
<1> QED
  BY InitSound, StepSound, <1>1, <1>2, PTL DEF Spec, OneChangeAtATime, Store!Spec

----------------------------------------------------------------------------
(***************************************************************************)
(* What the guards see.                                                    *)
(***************************************************************************)
Deciding == {"profile", "inForce", "save", "switch"}

\* The switch and the active profile are thrown by the operation that has the lock, as
\* its last word on them, and by nobody else.
FreshSettings ==
    \A w \in Workers : job[w].pc \in Deciding => job[w].settings = dsm.settings

\* The worker that has the lock, and a step of it.
LEMMA Alone ==
  ASSUME IInv, NEW w \in Workers, job[w].pc \in Inside
  PROVE  mu = w /\ \A v \in Workers : v # w => job[v].pc \in Outside
  BY DEF IInv, OneWriter, Shaped, Outside, Inside

LEMMA StepMoves ==
  ASSUME Sound, NEW w \in Workers, Step(w)
  PROVE  /\ \A v \in Workers : v # w => job'[v] = job[v]
         /\ budget' = budget \/ Fail(w)
  BY DEF Step, LockAndReadSettings, ReadFails, DecideSet, DecideDelete, DecideConfigure,
         ReadInForce, Save, Switch, Apply, Verified, NotPersisted, GuardedConfigure, Configure,
         Commit, Fail, Succeed, Goto, Call, Sound, IInv

LEMMA FailEnds ==
  ASSUME Sound, NEW w \in Workers, Fail(w) \/ Succeed(w)
  PROVE  job'[w] = Idle
  BY DEF Fail, Succeed, Sound, IInv

\* A rule write that is decided on: what was read, what is to be saved, and that neither
\* the lockout guard nor the one against an empty firewall objects.
Decided(j, w) ==
    /\ j.pc = "save" /\ j.req = job[w].req /\ j.settings = job[w].settings
    /\ j.req.op \in {"set", "delete"}
    /\ j.before = dsm.stored[j.req.profile]
    /\ Planned(j)
    /\ GuardRuleWrite(j.before, j.after, j.settings, j.req.profile, j.req.lockout) # "refuse"
    /\ j.req.op = "delete" => ~Empties(j.req, j.settings, j.after)

LEMMA DecideMoves ==
  ASSUME Sound, NEW w \in Workers, DecideSet(w) \/ DecideDelete(w)
  PROVE  /\ job[w].pc = "profile" /\ dsm' = dsm
         /\ job'[w] = Idle \/ Decided(job'[w], w)
<1>1. job[w].pc = "profile" /\ dsm' = dsm /\ job[w].req \in Requests
  BY DEF DecideSet, DecideDelete, At, Sound, Operating, Requested, JobOK, Inside
<1>2. WellFormed /\ Recordable
  BY DEF Sound, Data
<1>3. ASSUME NEW i PROVE (job' = [job EXCEPT ![w] = i]) => job'[w] = i
  BY DEF Sound, IInv
<1>4. CASE DecideSet(w)
  <2> DEFINE req == job[w].req
             j == [pc |-> "save", req |-> req, settings |-> job[w].settings,
                   before |-> dsm.stored[req.profile], after |-> WithRule(req)]
  <2>1. \/ Fail(w)
        \/ /\ Commit(w, j)
           /\ GuardRuleWrite(j.before, j.after, j.settings, req.profile, req.lockout) # "refuse"
    BY <1>4 DEF DecideSet
  <2>2. Planned(j)
    <3>1. IsProfile(dsm.stored[req.profile])
      BY <1>1, <1>2, RequestsAssumption DEF WellFormed, IsRequest
    <3>2. req.op = "set"
      BY <1>4 DEF DecideSet
    <3> QED
      BY <1>1, <1>2, <3>1, <3>2, WithRulePlanned DEF Planned
  <2>3. j.req.op = "set"
    BY <1>4 DEF DecideSet
  <2>4. job'[w] = Idle \/ job'[w] = j
    BY <1>3, <2>1 DEF Fail, Commit
  <2>5. CASE Fail(w)
    BY <1>1, <1>3, <2>5 DEF Fail
  <2>6. CASE Commit(w, j)
            /\ GuardRuleWrite(j.before, j.after, j.settings, req.profile, req.lockout) # "refuse"
    <3>1. job'[w] = j
      BY <1>3, <2>6 DEF Commit
    <3>2. j.pc = "save" /\ j.req = job[w].req /\ j.settings = job[w].settings
          /\ j.before = dsm.stored[j.req.profile]
      OBVIOUS
    <3> HIDE DEF j
    <3> QED
      BY <1>1, <2>2, <2>3, <2>6, <3>1, <3>2 DEF Decided
  <2> QED
    BY <2>1, <2>5, <2>6
<1>5. CASE DecideDelete(w)
  <2> DEFINE req == job[w].req
             j == [pc |-> "save", req |-> req, settings |-> job[w].settings,
                   before |-> dsm.stored[req.profile], after |-> WithoutTheRule(req)]
  <2>1. \/ Fail(w) \/ Succeed(w)
        \/ /\ Commit(w, j)
           /\ ~Empties(req, j.settings, j.after)
           /\ GuardRuleWrite(j.before, j.after, j.settings, req.profile, req.lockout) # "refuse"
    BY <1>5 DEF DecideDelete
  <2>2. Planned(j)
    <3>1. IsProfile(dsm.stored[req.profile])
      BY <1>1, <1>2, RequestsAssumption DEF WellFormed, IsRequest
    <3>2. req.op = "delete"
      BY <1>5 DEF DecideDelete
    <3> QED
      BY <1>1, <1>2, <3>1, <3>2, WithoutTheRulePlanned DEF Planned
  <2>3. j.req.op = "delete"
    BY <1>5 DEF DecideDelete
  <2>5. CASE Fail(w) \/ Succeed(w)
    BY <1>1, <1>3, <2>5 DEF Fail, Succeed
  <2>6. CASE /\ Commit(w, j)
             /\ ~Empties(req, j.settings, j.after)
             /\ GuardRuleWrite(j.before, j.after, j.settings, req.profile, req.lockout) # "refuse"
    <3>1. job'[w] = j
      BY <1>3, <2>6 DEF Commit
    <3>2. j.pc = "save" /\ j.req = job[w].req /\ j.settings = job[w].settings
          /\ j.before = dsm.stored[j.req.profile]
      OBVIOUS
    <3> HIDE DEF j
    <3> QED
      BY <1>1, <2>2, <2>3, <2>6, <3>1, <3>2 DEF Decided
  <2> QED
    BY <2>1, <2>5, <2>6
<1> QED
  BY <1>4, <1>5

\* A configuration that is decided on, or waits for the profile in force.
Carries(j, i) ==
    /\ i.req = j.req /\ i.settings = j.settings
    /\ i.before = j.before /\ i.after = j.after /\ i.changed = j.changed

Onward(j, i) ==
    /\ Carries(j, i)
    /\ \/ i.pc = "save" /\ j.changed
       \/ i.pc = "switch" /\ ~j.changed /\ SettingsChange(j)
       \/ i.pc = "verify" /\ ~j.changed /\ ~SettingsChange(j)

LEMMA ConfigureMoves ==
  ASSUME NEW w \in Workers, IInv, NEW j, j.pc = "inForce", Shaped(j), Configure(w, j)
  PROVE  Onward(j, job'[w])
<1>1. ASSUME NEW pc, NEW i, i = [j EXCEPT !.pc = pc] PROVE i.pc = pc /\ Carries(j, i)
  BY <1>1 DEF Carries, Shaped, Inside
<1>2. ASSUME NEW i, Commit(w, i) PROVE job'[w] = i
  BY <1>2 DEF IInv, Commit
<1> QED
  BY <1>1, <1>2 DEF Configure, Onward

\* What a configuration knows once it has read its profile.
Informed(j, w) ==
    /\ j.pc = "inForce" /\ Shaped(j)
    /\ j.req = job[w].req /\ j.settings = job[w].settings
    /\ j.before = dsm.stored[j.req.profile]
    /\ j.after = [j.before EXCEPT !.policy = Overlay(j.before.policy, j.req.policy)]
    /\ j.changed = PolicyChanges(j.req, j.before)
    /\ j.req.enabled => ~NoRules(j.after) \/ j.req.empty

\* The guard has let the configuration pass, compared with this profile.
Passed(j, inForce) ==
    GuardSettings(inForce, j.after, j.settings, j.req.enabled, j.req.lockout) # "refuse"

\* Another profile is in force, and has to be read first.
Elsewhere(j) ==
    /\ j.req.enabled /\ ~j.req.lockout
    /\ j.settings.enabled /\ j.settings.active # j.req.profile

LEMMA DecideConfigureMoves ==
  ASSUME Sound, NEW w \in Workers, DecideConfigure(w)
  PROVE  /\ job[w].pc = "profile" /\ dsm' = dsm /\ job[w].req.op = "configure"
         /\ job'[w] = Idle => Fail(w)
         /\ \/ job'[w] = Idle
            \/ \E j : /\ Informed(j, w)
                      /\ \/ Elsewhere(j) /\ job'[w] = j
                         \/ ~Elsewhere(j) /\ Passed(j, j.before) /\ Onward(j, job'[w])
<1> DEFINE req == job[w].req
           settings == job[w].settings
           before == dsm.stored[req.profile]
           j == [pc |-> "inForce", req |-> req, settings |-> settings, before |-> before,
                 after |-> [before EXCEPT !.policy = Overlay(before.policy, req.policy)],
                 changed |-> PolicyChanges(req, before)]
<1>1. job[w].pc = "profile" /\ dsm' = dsm /\ req.op = "configure"
  BY DEF DecideConfigure, At
<1>2. \/ Fail(w)
      \/ /\ ~(req.enabled /\ NoRules(j.after) /\ ~req.empty)
         /\ \/ /\ req.enabled /\ ~req.lockout
               /\ settings.enabled /\ settings.active # req.profile
               /\ job' = [job EXCEPT ![w] = j]
            \/ /\ ~(/\ req.enabled /\ ~req.lockout
                    /\ settings.enabled /\ settings.active # req.profile)
               /\ GuardedConfigure(w, j, before)
  BY DEF DecideConfigure
<1>3. /\ j.pc = "inForce" /\ Shaped(j) /\ j.req = req /\ j.settings = settings
      /\ j.before = before /\ j.changed = PolicyChanges(req, before)
      /\ j.after = [before EXCEPT !.policy = Overlay(before.policy, req.policy)]
  BY DEF Shaped, Inside
<1>4. CASE Fail(w)
  BY <1>1, <1>4 DEF Fail, Sound, IInv
<1>5. CASE ~Fail(w)
  <2> HIDE DEF j
  <2>1. Informed(j, w)
    BY <1>2, <1>3, <1>5 DEF Informed
  <2>2. CASE Elsewhere(j)
    <3>1. job' = [job EXCEPT ![w] = j]
      BY <1>2, <1>3, <1>5, <2>2 DEF Elsewhere
    <3>2. job'[w] = j
      BY <3>1 DEF Sound, IInv
    <3> QED
      BY <1>1, <1>3, <2>1, <2>2, <3>2 DEF Idle
  <2>3. CASE ~Elsewhere(j)
    <3>1. GuardedConfigure(w, j, before)
      BY <1>2, <1>3, <1>5, <2>3 DEF Elsewhere
    <3>2. Passed(j, j.before) /\ Configure(w, j)
      BY <1>3, <1>5, <3>1 DEF GuardedConfigure, Passed
    <3>3. Onward(j, job'[w])
      BY <1>3, <3>2, ConfigureMoves DEF Sound
    <3> QED
      BY <1>1, <2>1, <2>3, <3>2, <3>3 DEF Onward, Idle
  <2> QED
    BY <2>2, <2>3
<1> QED
  BY <1>4, <1>5

LEMMA ReadInForceMoves ==
  ASSUME Sound, NEW w \in Workers, ReadInForce(w)
  PROVE  /\ job[w].pc = "inForce" /\ dsm' = dsm /\ job[w].req.op = "configure"
         /\ job'[w] = Idle => Fail(w)
         /\ \/ job'[w] = Idle
            \/ /\ Onward(job[w], job'[w])
               /\ Passed(job[w], dsm.stored[job[w].settings.active]) \/ "read" \in Faults
<1>1. /\ job[w].pc = "inForce" /\ dsm' = dsm /\ job[w].req.op = "configure" /\ Shaped(job[w])
  BY DEF ReadInForce, At, Sound, Operating, Requested, JobOK, IInv
<1>2. \/ Fail(w)
      \/ /\ Configure(w, job[w])
         /\ Passed(job[w], dsm.stored[job[w].settings.active]) \/ "read" \in Faults
  BY DEF ReadInForce, GuardedConfigure, Passed
<1>3. CASE Fail(w)
  BY <1>1, <1>3 DEF Fail, Sound, IInv
<1>4. CASE Configure(w, job[w])
  <2>1. Onward(job[w], job'[w])
    BY <1>1, <1>4, ConfigureMoves DEF Sound
  <2> QED
    BY <1>1, <1>2, <1>4, <2>1, FailEnds DEF Onward, Idle
<1> QED
  BY <1>2, <1>3, <1>4

\* The writes.  A call has its effect or not, and the operation goes on or ends; without
\* lost or ignored calls the two go together.
Lossless == Faults \cap {"lost", "ignored", "apply"} = {}

Advanced(w, next) ==
    /\ job'[w].pc = next /\ job'[w].req = job[w].req /\ job'[w].settings = job[w].settings

LEMMA GotoAdvances ==
  ASSUME Sound, NEW w \in Workers, job[w].pc \in Inside, NEW pc, Goto(w, pc)
  PROVE  Advanced(w, pc)
<1> DEFINE j == [job[w] EXCEPT !.pc = pc]
<1>1. Shaped(job[w])
  BY DEF Sound, IInv
<1>2. j.pc = pc /\ j.req = job[w].req /\ j.settings = job[w].settings
  BY <1>1 DEF Shaped, Inside
<1>3. job'[w] = j
  BY DEF Goto, Sound, IInv
<1> HIDE DEF j
<1> QED
  BY <1>2, <1>3 DEF Advanced

LEMMA SaveMoves ==
  ASSUME Sound, NEW w \in Workers, Save(w)
  PROVE  LET req == job[w].req
         IN  /\ job[w].pc = "save" /\ req \in Requests /\ req.profile \in Profiles
             /\ Planned(job[w])
             /\ dsm'.settings = dsm.settings /\ dsm'.live = dsm.live
             /\ \A p \in Profiles : p # req.profile => dsm'.stored[p] = dsm.stored[p]
             /\ dsm'.stored[req.profile] \in {dsm.stored[req.profile], job[w].after}
             /\ job'[w] = Idle \/ Advanced(w, AfterSave(job[w]))
             /\ Lossless => IF job'[w] = Idle THEN dsm' = dsm /\ "save" \in Faults
                            ELSE dsm'.stored[req.profile] = job[w].after
<1> DEFINE req == job[w].req
           effect == [dsm EXCEPT !.stored[req.profile] = job[w].after]
<1>1. job[w].pc = "save" /\ req \in Requests /\ Planned(job[w]) /\ WellFormed
  BY DEF Save, At, Sound, Data, Operating, Requested, JobOK
<1>2. req.profile \in Profiles
  BY <1>1, RequestsAssumption DEF IsRequest
<1>3. /\ effect.settings = dsm.settings /\ effect.live = dsm.live
      /\ \A p \in Profiles : p # req.profile => effect.stored[p] = dsm.stored[p]
      /\ effect.stored[req.profile] = job[w].after
  BY <1>1, <1>2 DEF WellFormed
<1>4. Call(w, "save", effect, AfterSave(job[w]))
  BY DEF Save
<1>5. Fail(w) => job'[w] = Idle
  BY FailEnds
<1>6. Goto(w, AfterSave(job[w])) => Advanced(w, AfterSave(job[w]))
  BY <1>1, GotoAdvances DEF Inside
<1>7. Advanced(w, AfterSave(job[w])) => job'[w] # Idle
  <2>1. AfterSave(job[w]) # "idle"
    BY DEF AfterSave, AfterSwitch
  <2> QED
    BY <2>1 DEF Advanced, Idle
<1>8. dsm' = dsm \/ dsm' = effect
  BY <1>4 DEF Call
<1> HIDE DEF effect
<1>9. Lossless => \/ dsm' = effect /\ Advanced(w, AfterSave(job[w]))
                  \/ dsm' = dsm /\ job'[w] = Idle /\ "save" \in Faults
  BY <1>4, <1>5, <1>6 DEF Call, Lossless
<1>10. job'[w] = Idle \/ Advanced(w, AfterSave(job[w]))
  BY <1>4, <1>5, <1>6 DEF Call
<1> QED
  BY <1>1, <1>2, <1>3, <1>7, <1>8, <1>9, <1>10

LEMMA SwitchMoves ==
  ASSUME Sound, NEW w \in Workers, Switch(w)
  PROVE  LET req == job[w].req
             thrown == [enabled |-> req.enabled, active |-> req.profile]
         IN  /\ job[w].pc = "switch" /\ req \in Requests /\ req.op = "configure"
             /\ req.profile \in Profiles /\ req.enabled \in BOOLEAN
             /\ dsm'.stored = dsm.stored /\ dsm'.live = dsm.live
             /\ dsm'.settings \in {dsm.settings, thrown}
             /\ job'[w] = Idle \/ Advanced(w, AfterSwitch(job[w]))
             /\ Lossless => IF job'[w] = Idle THEN dsm' = dsm /\ "switch" \in Faults
                            ELSE dsm'.settings = thrown
<1> DEFINE req == job[w].req
           thrown == [enabled |-> req.enabled, active |-> req.profile]
           effect == [dsm EXCEPT !.settings = thrown]
<1>1. job[w].pc = "switch" /\ req \in Requests /\ req.op = "configure" /\ WellFormed
  BY DEF Switch, At, Sound, Data, Operating, Requested, JobOK
<1>2. req.profile \in Profiles /\ req.enabled \in BOOLEAN
  BY <1>1, RequestsAssumption DEF IsRequest
<1>3. effect.stored = dsm.stored /\ effect.live = dsm.live /\ effect.settings = thrown
  BY <1>1 DEF WellFormed
<1>4. Call(w, "switch", effect, AfterSwitch(job[w]))
  BY DEF Switch
<1>5. Fail(w) => job'[w] = Idle
  BY FailEnds
<1>6. Goto(w, AfterSwitch(job[w])) => Advanced(w, AfterSwitch(job[w]))
  BY <1>1, GotoAdvances DEF Inside
<1>7. Advanced(w, AfterSwitch(job[w])) => job'[w] # Idle
  <2>1. AfterSwitch(job[w]) # "idle"
    BY DEF AfterSwitch
  <2> QED
    BY <2>1 DEF Advanced, Idle
<1>8. dsm' = dsm \/ dsm' = effect
  BY <1>4 DEF Call
<1> HIDE DEF effect
<1>9. Lossless => \/ dsm' = effect /\ Advanced(w, AfterSwitch(job[w]))
                  \/ dsm' = dsm /\ job'[w] = Idle /\ "switch" \in Faults
  BY <1>4, <1>5, <1>6 DEF Call, Lossless
<1>10. job'[w] = Idle \/ Advanced(w, AfterSwitch(job[w]))
  BY <1>4, <1>5, <1>6 DEF Call
<1> QED
  BY <1>1, <1>2, <1>3, <1>7, <1>8, <1>9, <1>10

LEMMA ApplyMoves ==
  ASSUME Sound, NEW w \in Workers, Apply(w)
  PROVE  LET req == job[w].req
         IN  /\ job[w].pc = "apply" /\ req \in Requests /\ req.profile \in Profiles
             /\ dsm'.settings = dsm.settings /\ dsm'.stored = dsm.stored
             /\ dsm'.live \in {dsm.live, dsm.stored[req.profile]}
             /\ job'[w] = Idle \/ Advanced(w, "verify")
             /\ Lossless => Advanced(w, "verify") /\ dsm'.live = dsm.stored[req.profile]
<1> DEFINE req == job[w].req
           rendered == [dsm EXCEPT !.live = dsm.stored[req.profile]]
<1>1. job[w].pc = "apply" /\ req \in Requests /\ WellFormed
  BY DEF Apply, At, Sound, Data, Operating, Requested, JobOK
<1>2. req.profile \in Profiles
  BY <1>1, RequestsAssumption DEF IsRequest
<1>3. rendered.settings = dsm.settings /\ rendered.stored = dsm.stored
      /\ rendered.live = dsm.stored[req.profile]
  BY <1>1 DEF WellFormed
<1>4. \/ dsm' = rendered /\ Goto(w, "verify")
      \/ "lost" \in Faults /\ dsm' = rendered /\ Fail(w)
      \/ "apply" \in Faults /\ dsm' = dsm /\ Fail(w)
  BY DEF Apply
<1> HIDE DEF rendered
<1>5. Fail(w) => job'[w] = Idle
  BY FailEnds
<1>6. Goto(w, "verify") => Advanced(w, "verify")
  BY <1>1, GotoAdvances DEF Inside
<1> QED
  BY <1>1, <1>2, <1>3, <1>4, <1>5, <1>6 DEF Lossless

\* Every other step of an operation ends it.
LEMMA EndMoves ==
  ASSUME Sound, NEW w \in Workers, ReadFails(w) \/ Verified(w) \/ NotPersisted(w)
  PROVE  /\ job[w].pc \in {"profile", "verify"} /\ dsm' = dsm /\ job'[w] = Idle
  BY FailEnds DEF ReadFails, Verified, NotPersisted, At

\* What an invariant about each operation has to look at.
LEMMA Others ==
  ASSUME Sound, NEW w \in Workers, Step(w)
  PROVE  /\ job[w].pc # "idle"
         /\ \A v \in Workers : v # w => job'[v] = job[v] /\ job[v].pc \in Outside
<1>1. \A v \in Workers : v # w => job'[v] = job[v]
  BY StepMoves
<1>2. job[w].pc \in Inside \/ (LockAndReadSettings(w) /\ job[w].pc = "queued")
  BY DecideMoves, DecideConfigureMoves, ReadInForceMoves, SaveMoves, SwitchMoves, ApplyMoves,
     EndMoves DEF Step, LockAndReadSettings, At, Inside
<1>3. CASE job[w].pc \in Inside
  BY <1>1, <1>3, Alone DEF Sound, Inside
<1>4. CASE LockAndReadSettings(w) /\ job[w].pc = "queued"
  BY <1>1, <1>4, WorkersAssumption
  DEF LockAndReadSettings, MuFree, Sound, IInv, OneWriter, Outside
<1> QED
  BY <1>2, <1>3, <1>4

LEMMA LockMoves ==
  ASSUME Sound, NEW w \in Workers, LockAndReadSettings(w)
  PROVE  /\ job[w].pc = "queued" /\ mu = NoOne /\ dsm' = dsm
         /\ job'[w].pc = "profile" /\ job'[w].req = job[w].req /\ job'[w].settings = dsm.settings
  BY DEF LockAndReadSettings, MuFree, At, Sound, IInv

LEMMA StepFreshSettings ==
  ASSUME Sound, FreshSettings, NEW w \in Workers, Step(w)
  PROVE  FreshSettings'
<1> SUFFICES ASSUME job'[w].pc \in Deciding PROVE job'[w].settings = dsm'.settings
  BY Others DEF FreshSettings, Outside, Deciding
<1>1. job'[w] # Idle
  BY DEF Idle, Deciding
<1>2. CASE LockAndReadSettings(w)
  BY <1>2, LockMoves
<1>3. CASE DecideSet(w) \/ DecideDelete(w)
  BY <1>1, <1>3, DecideMoves DEF FreshSettings, Deciding, Decided
<1>4. CASE DecideConfigure(w)
  <2>1. PICK j : Informed(j, w) /\ (job'[w] = j \/ Onward(j, job'[w]))
    BY <1>1, <1>4, DecideConfigureMoves
  <2>2. job'[w].settings = job[w].settings
    BY <2>1 DEF Informed, Onward, Carries
  <2> QED
    BY <1>4, <2>2, DecideConfigureMoves DEF FreshSettings, Deciding
<1>5. CASE ReadInForce(w)
  BY <1>1, <1>5, ReadInForceMoves DEF FreshSettings, Deciding, Onward, Carries
<1>6. CASE Save(w)
  BY <1>1, <1>6, SaveMoves DEF FreshSettings, Deciding, Advanced
<1>7. CASE Switch(w) \/ Apply(w)
  <2>1. Advanced(w, "verify") \/ Advanced(w, "apply")
    BY <1>1, <1>7, SwitchMoves, ApplyMoves DEF AfterSwitch
  <2> QED
    BY <2>1 DEF Advanced, Deciding
<1>8. CASE ReadFails(w) \/ Verified(w) \/ NotPersisted(w)
  BY <1>1, <1>8, EndMoves
<1> QED
  BY <1>2, <1>3, <1>4, <1>5, <1>6, <1>7, <1>8 DEF Step

\* The steps of everybody else, for an invariant about operations that have the lock.
LEMMA ForeignMoves ==
  ASSUME Sound, ForeignSave
  PROVE  \E pw \in ForeignWrites :
            /\ pw[1] \in Profiles /\ IsProfile(pw[2]) /\ MaxForeign > 0
            /\ dsm'.settings = dsm.settings
            /\ dsm'.stored[pw[1]] = pw[2]
            /\ \A p \in Profiles : p # pw[1] => dsm'.stored[p] = dsm.stored[p]
            /\ dsm'.live = IF dsm.settings.active = pw[1] THEN pw[2] ELSE dsm.live
            /\ job' = job /\ mu' = mu
<1>1. PICK pw \in ForeignWrites :
         dsm' = [dsm EXCEPT !.stored[pw[1]] = pw[2],
                            !.live = IF dsm.settings.active = pw[1] THEN pw[2] ELSE @]
  BY DEF ForeignSave
<1>2. pw[1] \in Profiles /\ IsProfile(pw[2])
  BY ForeignAssumption
<1>3. /\ dsm'.settings = dsm.settings
      /\ dsm'.stored[pw[1]] = pw[2]
      /\ \A p \in Profiles : p # pw[1] => dsm'.stored[p] = dsm.stored[p]
      /\ dsm'.live = IF dsm.settings.active = pw[1] THEN pw[2] ELSE dsm.live
  BY <1>1, <1>2 DEF Sound, Data, WellFormed
<1>4. MaxForeign > 0
  BY BoundsAssumption DEF ForeignSave, Sound, IInv, ForeignBudget
<1> QED
  BY <1>2, <1>3, <1>4 DEF ForeignSave

LEMMA StartMoves ==
  ASSUME Sound, NEW w \in Workers, NEW req \in Requests, Start(w, req)
  PROVE  /\ dsm' = dsm /\ mu' = mu /\ budget' = budget
         /\ job'[w].pc = "queued" /\ \A v \in Workers : v # w => job'[v] = job[v]
  BY DEF Start, Sound, IInv

LEMMA RestartMoves ==
  ASSUME Restart
  PROVE  dsm' = dsm /\ \A w \in Workers : job'[w] = Idle
  BY DEF Restart

LEMMA NextFreshSettings ==
  ASSUME Sound, FreshSettings, [Next]_vars
  PROVE  FreshSettings'
<1>1. ASSUME NEW w \in Workers, Step(w) PROVE FreshSettings'
  BY <1>1, StepFreshSettings
<1>2. ASSUME NEW w \in Workers, NEW req \in Requests, Start(w, req) PROVE FreshSettings'
  BY <1>2, StartMoves DEF FreshSettings, Deciding
<1>3. CASE ForeignSave
  BY <1>3, ForeignMoves DEF FreshSettings
<1>4. CASE Restart
  BY <1>4, RestartMoves DEF FreshSettings, Deciding, Idle
<1>5. CASE UNCHANGED vars
  BY <1>5 DEF vars, FreshSettings
<1> QED
  BY <1>1, <1>2, <1>3, <1>4, <1>5 DEF Next, Terminating

LEMMA InitFreshSettings == Init => FreshSettings
  BY DEF Init, FreshSettings, Deciding, Idle

----------------------------------------------------------------------------
(***************************************************************************)
(* An enabled firewall is never empty.                                     *)
(***************************************************************************)
\* The profile in force is the operation's own; the operation turns its profile on.
Lasting(j) == j.settings.enabled /\ j.settings.active = j.req.profile

TurningOn(j) == j.req.op = "configure" /\ j.req.enabled

\* What an operation is about to put into force has rules in it.
FilledJob(j) ==
    /\ j.pc \in {"inForce", "save"} /\ (Lasting(j) \/ TurningOn(j)) => ~NoRules(j.after)
    /\ j.pc \in {"inForce", "save", "switch"} /\ TurningOn(j) =>
           ~NoRules(dsm.stored[j.req.profile])

Filled == EnabledNeverEmpty /\ \A w \in Workers : FilledJob(job[w])

\* No operation is told to allow an empty firewall, and none is found or put there.
NobodyEmpties ==
    /\ \A req \in Requests : req.op # "set" => ~req.empty
    /\ InitDsm.settings.enabled => ~NoRules(InitDsm.stored[InitDsm.settings.active])
    /\ MaxForeign > 0 => \A pw \in ForeignWrites : ~NoRules(pw[2])

LEMMA RequestForm ==
  ASSUME NEW req \in Requests
  PROVE  /\ req.op \in {"set", "delete", "configure"}
         /\ req.profile \in Profiles /\ req.adapter \in Adapters
         /\ req.op = "configure" => req.enabled \in BOOLEAN
  BY RequestsAssumption DEF IsRequest

\* A rule that is written is there.
LEMMA SetFills ==
  ASSUME NEW j, j.req \in Requests, j.req.op = "set", Planned(j)
  PROVE  ~NoRules(j.after)
<1>1. PICK rules : /\ IsRuleList(rules)
                   /\ j.after = PutRules(j.before, j.req.adapter, rules)
                   /\ RulesIn(rules) = Wanted(j.before, j.req)
  BY DEF Planned
<1>2. RulesOn(j.after, j.req.adapter) = rules
  BY <1>1, RequestForm, Rearrange DEF Planned
<1>3. j.req.rule \in RulesIn(rules)
  BY <1>1 DEF Wanted
<1>4. rules # <<>>
  BY <1>3 DEF RulesIn
<1> QED
  BY <1>2, <1>4 DEF RulesOn, NoRules

LEMMA DecidedFilled ==
  ASSUME NobodyEmpties, NEW w \in Workers, NEW j, j.req \in Requests, Decided(j, w)
  PROVE  FilledJob(j)'
<1>1. j.pc = "save" /\ ~TurningOn(j)
  BY DEF Decided, TurningOn
<1>2. CASE j.req.op = "set"
  BY <1>1, <1>2, SetFills DEF Decided, FilledJob
<1>3. CASE j.req.op = "delete"
  <2>1. ~j.req.empty
    BY <1>3 DEF NobodyEmpties
  <2>2. Lasting(j) => ~NoRules(j.after)
    BY <1>3, <2>1 DEF Decided, Empties, Lasting
  <2> QED
    BY <1>1, <2>2 DEF FilledJob
<1> QED
  BY <1>2, <1>3 DEF Decided

\* A configuration changes policies, so it finds as many rules as it leaves.
LEMMA InformedFilled ==
  ASSUME Sound, FreshSettings, EnabledNeverEmpty, NobodyEmpties,
         NEW w \in Workers, job[w].pc = "profile", job[w].req.op = "configure",
         NEW j, Informed(j, w), NEW i, Carries(j, i), dsm' = dsm
  PROVE  FilledJob(i)'
<1>1. job[w].req \in Requests /\ WellFormed
  BY DEF Sound, Data, Operating, Requested, JobOK
<1>2. i.req = job[w].req /\ i.settings = dsm.settings
  BY DEF Informed, Carries, FreshSettings, Deciding
<1>3. dsm.settings.active \in Profiles /\ i.req.profile \in Profiles
        /\ IsProfile(dsm.stored[i.req.profile])
  BY <1>1, <1>2, RequestForm DEF WellFormed
<1>4. NoRules(i.after) <=> NoRules(dsm.stored[i.req.profile])
  <2>1. i.after.rules = dsm.stored[i.req.profile].rules
    BY <1>1, <1>2, <1>3, Reconfigured DEF Informed, Carries
  <2> QED
    BY <2>1 DEF NoRules
<1>5. TurningOn(i) => ~NoRules(i.after)
  BY <1>1, <1>2 DEF TurningOn, Informed, Carries, NobodyEmpties
<1>6. Lasting(i) => ~NoRules(dsm.stored[i.req.profile])
  BY <1>2 DEF Lasting, EnabledNeverEmpty
<1> QED
  BY <1>4, <1>5, <1>6 DEF FilledJob

LEMMA StepFilled ==
  ASSUME Sound, FreshSettings, Filled, NobodyEmpties, NEW w \in Workers, Step(w)
  PROVE  Filled'
<1> DEFINE req == job[w].req
<1>1. WellFormed /\ FilledJob(job[w]) /\ EnabledNeverEmpty
  BY DEF Sound, Data, Filled
<1>2. (dsm' = dsm => EnabledNeverEmpty')
  BY <1>1 DEF EnabledNeverEmpty
<1>3. \A i : i.pc \notin {"inForce", "save", "switch"} => FilledJob(i)'
  BY DEF FilledJob
<1>4. Idle.pc \notin {"inForce", "save", "switch"}
  BY DEF Idle
<1>5. EnabledNeverEmpty' /\ FilledJob(job[w])'
  <2>1. CASE LockAndReadSettings(w)
    BY <1>2, <1>3, <2>1, LockMoves
  <2>2. CASE DecideSet(w) \/ DecideDelete(w)
    <3>1. job[w].pc = "profile" /\ dsm' = dsm /\ (job'[w] = Idle \/ Decided(job'[w], w))
      BY <2>2, DecideMoves
    <3>2. job[w].req \in Requests
      BY <3>1 DEF Sound, Operating, Requested, JobOK
    <3> QED
      BY <1>2, <1>3, <1>4, <3>1, <3>2, DecidedFilled DEF Decided
  <2>3. CASE DecideConfigure(w)
    <3>1. job[w].pc = "profile" /\ dsm' = dsm /\ job[w].req.op = "configure"
          /\ (job'[w] = Idle \/ \E j : Informed(j, w) /\ Carries(j, job'[w]))
      BY <2>3, DecideConfigureMoves DEF Onward, Carries
    <3> QED
      BY <1>1, <1>2, <1>3, <1>4, <3>1, InformedFilled
  <2>4. CASE ReadInForce(w)
    <3>1. job[w].pc = "inForce" /\ dsm' = dsm /\ (job'[w] = Idle \/ Carries(job[w], job'[w]))
      BY <2>4, ReadInForceMoves DEF Onward
    <3> QED
      BY <1>1, <1>2, <1>3, <1>4, <3>1 DEF FilledJob, Carries, Lasting, TurningOn
  <2>5. CASE Save(w)
    <3>1. /\ job[w].pc = "save" /\ req.profile \in Profiles /\ dsm'.settings = dsm.settings
          /\ \A p \in Profiles : p # req.profile => dsm'.stored[p] = dsm.stored[p]
          /\ dsm'.stored[req.profile] \in {dsm.stored[req.profile], job[w].after}
          /\ job'[w] = Idle \/ Advanced(w, AfterSave(job[w]))
      BY <2>5, SaveMoves
    <3>2. job[w].settings = dsm.settings
      BY <3>1 DEF FreshSettings, Deciding
    <3>3. EnabledNeverEmpty'
      <4>1. dsm.settings.active \in Profiles
        BY <1>1 DEF WellFormed
      <4> QED
        BY <1>1, <3>1, <3>2, <4>1 DEF EnabledNeverEmpty, FilledJob, Lasting
    <3>4. TurningOn(job[w]) => ~NoRules(dsm'.stored[req.profile])
      BY <1>1, <3>1 DEF FilledJob
    <3>5. AfterSave(job[w]) \notin {"inForce", "save"}
      BY DEF AfterSave, AfterSwitch
    <3>6. Advanced(w, AfterSave(job[w])) => FilledJob(job[w])'
      BY <3>4, <3>5 DEF Advanced, FilledJob, TurningOn
    <3> QED
      BY <1>3, <1>4, <3>1, <3>3, <3>6
  <2>6. CASE Switch(w)
    <3>1. /\ job[w].pc = "switch" /\ req.op = "configure" /\ dsm'.stored = dsm.stored
          /\ dsm'.settings \in {dsm.settings, [enabled |-> req.enabled, active |-> req.profile]}
          /\ job'[w] = Idle \/ Advanced(w, AfterSwitch(job[w]))
      BY <2>6, SwitchMoves
    <3>2. EnabledNeverEmpty'
      BY <1>1, <3>1 DEF EnabledNeverEmpty, FilledJob, TurningOn
    <3>3. AfterSwitch(job[w]) \notin {"inForce", "save", "switch"}
      BY DEF AfterSwitch
    <3> QED
      BY <1>3, <1>4, <3>1, <3>2, <3>3 DEF Advanced
  <2>7. CASE Apply(w)
    <3>1. /\ dsm'.settings = dsm.settings /\ dsm'.stored = dsm.stored
          /\ job'[w] = Idle \/ Advanced(w, "verify")
      BY <2>7, ApplyMoves
    <3> QED
      BY <1>1, <1>3, <1>4, <3>1 DEF Advanced, EnabledNeverEmpty
  <2>8. CASE ReadFails(w) \/ Verified(w) \/ NotPersisted(w)
    BY <1>2, <1>3, <1>4, <2>8, EndMoves
  <2> QED
    BY <2>1, <2>2, <2>3, <2>4, <2>5, <2>6, <2>7, <2>8 DEF Step
<1>6. \A v \in Workers : v # w => job'[v].pc \notin {"inForce", "save", "switch"}
  BY Others DEF Outside
<1> QED
  BY <1>3, <1>5, <1>6 DEF Filled

LEMMA NextFilled ==
  ASSUME Sound, FreshSettings, Filled, NobodyEmpties, [Next]_vars
  PROVE  Filled'
<1>1. ASSUME NEW w \in Workers, Step(w) PROVE Filled'
  BY <1>1, StepFilled
<1>2. ASSUME NEW w \in Workers, NEW req \in Requests, Start(w, req) PROVE Filled'
  BY <1>2, StartMoves DEF Filled, FilledJob, EnabledNeverEmpty
<1>3. CASE ForeignSave
  <2>1. PICK pw \in ForeignWrites :
            /\ ~NoRules(pw[2]) /\ pw[1] \in Profiles /\ dsm'.settings = dsm.settings
            /\ dsm'.stored[pw[1]] = pw[2]
            /\ \A p \in Profiles : p # pw[1] => dsm'.stored[p] = dsm.stored[p]
            /\ job' = job
    BY <1>3, ForeignMoves DEF NobodyEmpties
  <2>2. dsm.settings.active \in Profiles
    BY DEF Sound, Data, WellFormed
  <2>3. EnabledNeverEmpty'
    BY <2>1, <2>2 DEF Filled, EnabledNeverEmpty
  <2>4. ASSUME NEW w \in Workers PROVE FilledJob(job[w])'
    <3>1. FilledJob(job[w])
      BY DEF Filled
    <3>2. job[w].pc \in Inside => job[w].req.profile \in Profiles
      BY RequestForm DEF Sound, Operating, Requested, JobOK, Inside
    <3> QED
      BY <2>1, <3>1, <3>2 DEF FilledJob, Inside
  <2> QED
    BY <2>3, <2>4 DEF Filled
<1>4. CASE Restart
  BY <1>4, RestartMoves DEF Filled, FilledJob, EnabledNeverEmpty, Idle
<1>5. CASE UNCHANGED vars
  BY <1>5 DEF vars, Filled, FilledJob, EnabledNeverEmpty
<1> QED
  BY <1>1, <1>2, <1>3, <1>4, <1>5 DEF Next, Terminating

\* Whatever calls fail, get lost or are ignored, and however often the process ends, an
\* enabled firewall has rules in its active profile, if that is how it is found, nobody
\* empties it by hand and no operation is told to.
THEOREM NeverEmptied ==
  ASSUME NobodyEmpties
  PROVE  Spec => []EnabledNeverEmpty
<1>1. Init => Filled
  BY DEF Init, Filled, FilledJob, EnabledNeverEmpty, Idle, NobodyEmpties
<1>2. Filled => EnabledNeverEmpty
  BY DEF Filled
<1>3. Sound /\ FreshSettings /\ Filled /\ [Next]_vars => Filled'
  BY NextFilled
<1>4. Sound /\ FreshSettings /\ [Next]_vars => FreshSettings'
  BY NextFreshSettings
<1> QED
  BY InitSound, StepSound, InitFreshSettings, <1>1, <1>2, <1>3, <1>4, PTL DEF Spec

----------------------------------------------------------------------------
(***************************************************************************)
(* What is reported as done is in force.                                   *)
(***************************************************************************)
\* What DSM enforces is what it stores.
Rendered == dsm.settings.enabled => dsm.live = dsm.stored[dsm.settings.active]

Rendering == {"switch", "apply"}

\* A configuration saves only what changes policies.  While the switch is about to be
\* thrown, what is enforced is what is stored, unless policies of the profile in force were
\* saved on the way to switching it off; an apply is of the active profile.
RenderingJob(j) ==
    /\ j.pc = "inForce" /\ j.changed => DOMAIN j.req.policy # {}
    /\ j.pc = "save" /\ j.req.op = "configure" => DOMAIN j.req.policy # {}
    /\ j.pc = "switch" => Rendered \/ (~j.req.enabled /\ DOMAIN j.req.policy # {})
    /\ j.pc = "apply" => dsm.settings.active = j.req.profile
    /\ j.pc = "apply" /\ TurningOn(j) => dsm.settings.enabled

Settled ==
    /\ budget.restarts = 0
    /\ (\A w \in Workers : job[w].pc \notin Rendering) => Rendered
    /\ \A w \in Workers : RenderingJob(job[w])

\* No call takes effect unheard, or is heard of without effect, and no process ends half
\* way; what DSM is found to enforce is what it stores; and a switch that DSM may refuse to
\* throw is not asked for together with policies when it is to be thrown off.
EveryCallTells ==
    /\ Lossless
    /\ MaxRestarts = 0
    /\ InitDsm.settings.enabled => InitDsm.live = InitDsm.stored[InitDsm.settings.active]
    /\ "switch" \in Faults =>
          \A req \in Requests : req.op = "configure" /\ ~req.enabled => DOMAIN req.policy = {}

LEMMA SaveRenders ==
  ASSUME Sound, FreshSettings, Settled, EveryCallTells, NEW w \in Workers, Save(w)
  PROVE  /\ RenderingJob(job[w])'
         /\ job'[w].pc \notin Rendering => Rendered'
<1> DEFINE req == job[w].req
<1>1. /\ job[w].pc = "save" /\ req \in Requests /\ req.profile \in Profiles
      /\ dsm'.settings = dsm.settings /\ dsm'.live = dsm.live
      /\ \A p \in Profiles : p # req.profile => dsm'.stored[p] = dsm.stored[p]
      /\ job'[w] = Idle \/ Advanced(w, AfterSave(job[w]))
      /\ job'[w] = Idle => dsm' = dsm
  BY SaveMoves DEF EveryCallTells
<1>2. job[w].settings = dsm.settings /\ dsm.settings.active \in Profiles
  BY <1>1 DEF FreshSettings, Deciding, Sound, Data, WellFormed
<1>3. Rendered /\ (req.op = "configure" => DOMAIN req.policy # {})
  <2>1. \A v \in Workers : job[v].pc \notin Rendering
    BY <1>1, Alone DEF Rendering, Sound, Inside, Outside
  <2> QED
    BY <1>1, <2>1 DEF Settled, RenderingJob
<1>4. dsm.settings.active # req.profile => Rendered'
  BY <1>1, <1>2, <1>3 DEF Rendered
<1>5. CASE job'[w] = Idle
  BY <1>1, <1>3, <1>5 DEF Rendered, RenderingJob, Idle
<1>6. CASE Advanced(w, AfterSave(job[w])) /\ req.op # "configure"
  <2>1. job'[w].pc = IF dsm.settings.active = req.profile THEN "apply" ELSE "verify"
    BY <1>2, <1>6 DEF Advanced, AfterSave
  <2> QED
    BY <1>1, <1>4, <1>6, <2>1 DEF Advanced, RenderingJob, Rendering, TurningOn
<1>7. CASE Advanced(w, AfterSave(job[w])) /\ req.op = "configure"
  <2> DEFINE thrown == [enabled |-> req.enabled, active |-> req.profile]
  <2>1. /\ job'[w].req = req
        /\ job'[w].pc = IF dsm.settings # thrown THEN "switch"
                        ELSE IF req.enabled THEN "apply" ELSE "verify"
    BY <1>2, <1>7 DEF Advanced, AfterSave, SettingsChange, AfterSwitch
  <2>2. CASE dsm.settings # thrown
    <3>1. req.enabled /\ dsm.settings.active = req.profile => ~dsm.settings.enabled
      <4>1. dsm.settings \in [enabled : BOOLEAN, active : Profiles] /\ req.enabled \in BOOLEAN
        BY <1>1, <1>7, RequestForm DEF Sound, Data, WellFormed
      <4> QED
        BY <2>2, <4>1
    <3>2. Rendered' \/ ~req.enabled
      BY <1>1, <1>4, <3>1 DEF Rendered
    <3> QED
      BY <1>3, <1>7, <2>1, <2>2, <3>2 DEF RenderingJob, Rendering
  <2>3. CASE dsm.settings = thrown
    <3>1. dsm'.settings.enabled = req.enabled /\ dsm'.settings.active = req.profile
      BY <1>1, <2>3
    <3> QED
      BY <2>1, <2>3, <3>1 DEF RenderingJob, Rendering, Rendered, TurningOn
  <2> QED
    BY <2>2, <2>3
<1> QED
  BY <1>1, <1>5, <1>6, <1>7

LEMMA SwitchRenders ==
  ASSUME Sound, Settled, EveryCallTells, NEW w \in Workers, Switch(w)
  PROVE  /\ RenderingJob(job[w])'
         /\ job'[w].pc \notin Rendering => Rendered'
<1> DEFINE req == job[w].req
<1>1. /\ job[w].pc = "switch" /\ req \in Requests /\ req.op = "configure"
      /\ job'[w] = Idle \/ Advanced(w, AfterSwitch(job[w]))
      /\ IF job'[w] = Idle THEN dsm' = dsm /\ "switch" \in Faults
         ELSE dsm'.settings = [enabled |-> req.enabled, active |-> req.profile]
  BY SwitchMoves DEF EveryCallTells
<1>2. CASE job'[w] = Idle
  <2>1. Rendered
    BY <1>1, <1>2 DEF Settled, RenderingJob, EveryCallTells
  <2> QED
    BY <1>1, <1>2, <2>1 DEF Rendered, RenderingJob, Idle
<1>3. CASE job'[w] # Idle
  <2>1. dsm'.settings.enabled = req.enabled /\ dsm'.settings.active = req.profile
    BY <1>1, <1>3
  <2>2. job'[w].req = req /\ job'[w].pc = IF req.enabled THEN "apply" ELSE "verify"
    BY <1>1, <1>3 DEF Advanced, AfterSwitch
  <2> QED
    BY <2>1, <2>2 DEF RenderingJob, Rendering, Rendered, TurningOn
<1> QED
  BY <1>2, <1>3

LEMMA StepSettled ==
  ASSUME Sound, FreshSettings, Settled, EveryCallTells, NEW w \in Workers, Step(w)
  PROVE  Settled'
<1>1. \A v \in Workers : v # w => job'[v] = job[v] /\ job[v].pc \in Outside
  BY Others
<1>2. job[w].pc \notin Rendering => Rendered
  BY <1>1 DEF Settled, Rendering, Outside
<1>3. dsm' = dsm => Rendered' = Rendered
  BY DEF Rendered
<1>4. \A i : i = Idle \/ i.pc = "profile" => RenderingJob(i)'
  BY DEF RenderingJob, Idle
<1>5. RenderingJob(job[w])' /\ (job'[w].pc \notin Rendering => Rendered')
  <2>1. CASE LockAndReadSettings(w)
    BY <1>2, <1>3, <1>4, <2>1, LockMoves DEF Rendering
  <2>2. CASE DecideSet(w) \/ DecideDelete(w)
    <3>1. job[w].pc = "profile" /\ dsm' = dsm /\ (job'[w] = Idle \/ Decided(job'[w], w))
      BY <2>2, DecideMoves
    <3>2. Decided(job'[w], w) => job'[w].pc = "save" /\ job'[w].req.op # "configure"
      BY DEF Decided
    <3>3. Decided(job'[w], w) => RenderingJob(job[w])'
      BY <3>2 DEF RenderingJob
    <3> QED
      BY <1>2, <1>3, <1>4, <3>1, <3>3 DEF Rendering
  <2>3. CASE DecideConfigure(w)
    <3>1. job[w].pc = "profile" /\ dsm' = dsm
          /\ (job'[w] = Idle \/ \E j : Informed(j, w) /\ (job'[w] = j \/ Onward(j, job'[w])))
      BY <2>3, DecideConfigureMoves
    <3>2. ASSUME NEW j, Informed(j, w) PROVE j.changed => DOMAIN j.req.policy # {}
      BY <3>2 DEF Informed, PolicyChanges
    <3>3. ASSUME NEW j, Informed(j, w), job'[w] = j \/ Onward(j, job'[w])
          PROVE  RenderingJob(job[w])'
      <4>1. Rendered'
        BY <1>2, <1>3, <3>1 DEF Rendering
      <4>2. j.pc = "inForce" /\ (j.changed => DOMAIN j.req.policy # {})
        BY <3>2, <3>3 DEF Informed
      <4> QED
        BY <3>3, <4>1, <4>2 DEF RenderingJob, Onward, Carries
    <3> QED
      BY <1>2, <1>3, <1>4, <3>1, <3>3 DEF Rendering
  <2>4. CASE ReadInForce(w)
    <3>1. job[w].pc = "inForce" /\ dsm' = dsm /\ (job'[w] = Idle \/ Onward(job[w], job'[w]))
      BY <2>4, ReadInForceMoves
    <3>2. Rendered'
      BY <1>2, <1>3, <3>1 DEF Rendering
    <3>3. RenderingJob(job[w])
      BY DEF Settled
    <3>4. Onward(job[w], job'[w]) => RenderingJob(job[w])'
      BY <3>1, <3>2, <3>3 DEF RenderingJob, Onward, Carries
    <3> QED
      BY <1>4, <3>1, <3>2, <3>4
  <2>5. CASE Save(w)
    BY <2>5, SaveRenders
  <2>6. CASE Switch(w)
    BY <2>6, SwitchRenders
  <2>7. CASE Apply(w)
    <3>1. /\ job[w].pc = "apply" /\ dsm'.settings = dsm.settings /\ dsm'.stored = dsm.stored
          /\ Advanced(w, "verify") /\ dsm'.live = dsm.stored[job[w].req.profile]
      BY <2>7, ApplyMoves DEF EveryCallTells
    <3>2. Rendered'
      BY <3>1 DEF Rendered, Settled, RenderingJob
    <3> QED
      BY <3>1, <3>2 DEF Advanced, RenderingJob
  <2>8. CASE ReadFails(w) \/ Verified(w) \/ NotPersisted(w)
    <3>1. job[w].pc \in {"profile", "verify"} /\ dsm' = dsm /\ job'[w] = Idle
      BY <2>8, EndMoves
    <3> QED
      BY <1>2, <1>3, <1>4, <3>1 DEF Rendering
  <2> QED
    BY <2>1, <2>2, <2>3, <2>4, <2>5, <2>6, <2>7, <2>8 DEF Step
<1>6. \A v \in Workers : v # w => RenderingJob(job[v])'
  BY <1>1 DEF RenderingJob, Outside
<1>7. budget'.restarts = 0
  <2>1. budget' = budget \/ Fail(w)
    BY StepMoves
  <2> QED
    BY <2>1 DEF Fail, Settled, Sound, IInv, ForeignBudget
<1> QED
  BY <1>5, <1>6, <1>7 DEF Settled

LEMMA NextSettled ==
  ASSUME Sound, FreshSettings, Settled, EveryCallTells, [Next]_vars
  PROVE  Settled'
<1>1. ASSUME NEW w \in Workers, Step(w) PROVE Settled'
  BY <1>1, StepSettled
<1>2. ASSUME NEW w \in Workers, NEW req \in Requests, Start(w, req) PROVE Settled'
  <2>1. /\ dsm' = dsm /\ budget' = budget /\ job[w].pc = "idle" /\ job'[w].pc = "queued"
        /\ \A v \in Workers : v # w => job'[v] = job[v]
    BY <1>2, StartMoves DEF Start, At
  <2> QED
    BY <2>1 DEF Settled, RenderingJob, Rendered, Rendering
<1>3. CASE ForeignSave
  <2>1. PICK pw \in ForeignWrites :
            /\ pw[1] \in Profiles /\ dsm'.settings = dsm.settings
            /\ dsm'.stored[pw[1]] = pw[2]
            /\ \A p \in Profiles : p # pw[1] => dsm'.stored[p] = dsm.stored[p]
            /\ dsm'.live = IF dsm.settings.active = pw[1] THEN pw[2] ELSE dsm.live
            /\ job' = job
    BY <1>3, ForeignMoves
  <2>2. dsm.settings.active \in Profiles
    BY DEF Sound, Data, WellFormed
  <2>3. Rendered => Rendered'
    BY <2>1, <2>2 DEF Rendered
  <2>4. budget'.restarts = 0
    BY <1>3 DEF ForeignSave, Settled, Sound, IInv, ForeignBudget
  <2> QED
    BY <2>1, <2>3, <2>4 DEF Settled, RenderingJob
<1>4. CASE Restart
  BY <1>4 DEF Restart, Settled
<1>5. CASE UNCHANGED vars
  BY <1>5 DEF vars, Settled, RenderingJob, Rendered
<1> QED
  BY <1>1, <1>2, <1>3, <1>4, <1>5 DEF Next, Terminating

\* DeletedIsOutOfForce and ConfiguredIsInForce, of one step.
ReportedStep ==
    \A w \in Workers :
        LET req == job[w].req
        IN  /\ Completes(w, "delete")
                 /\ dsm.settings = [enabled |-> TRUE, active |-> req.profile] =>
                   req.rule.name \notin NamesOf(RulesOn(dsm'.live, req.adapter))
            /\ Completes(w, "configure") /\ req.enabled =>
                   dsm'.live = dsm'.stored[req.profile]

\* An operation is reported as done at its read-back, or by finding that there is
\* nothing to delete.
LEMMA Completed ==
  ASSUME Sound, [Next]_vars, NEW w \in Workers, NEW op, Completes(w, op)
  PROVE  /\ job[w].req.op = op /\ job[w].req \in Requests /\ dsm' = dsm
         /\ \/ Verified(w)
            \/ DecideDelete(w) /\ op = "delete"
                 /\ job[w].req.rule.name
                       \notin NamesOf(RulesOn(dsm.stored[job[w].req.profile], job[w].req.adapter))
<1>1. promise' # promise /\ w \in Busy /\ job'[w] = Idle /\ job'[w] # job[w]
        /\ job[w].req.op = op
  BY NotYet DEF Completes
<1>2. job[w].req \in Requests
  BY <1>1 DEF Busy, Sound, Operating, Requested, JobOK
<1>3. ASSUME NEW v \in Workers, Step(v)
      PROVE  v = w
  BY <1>1, <1>3, Others
<1>4. ASSUME Step(w)
      PROVE  \/ Verified(w)
             \/ DecideDelete(w) /\ Succeed(w)
                  /\ job[w].req.rule.name
                       \notin NamesOf(RulesOn(dsm.stored[job[w].req.profile], job[w].req.adapter))
  <2>1. ASSUME Fail(w) PROVE FALSE
    BY <1>1, <2>1 DEF Fail
  <2>2. CASE Save(w) \/ Switch(w) \/ Apply(w) \/ ReadFails(w) \/ NotPersisted(w)
              \/ LockAndReadSettings(w)
    BY <1>1, <2>1, <2>2 DEF Save, Switch, Apply, Call, Goto, ReadFails, NotPersisted,
                            LockAndReadSettings
  <2>3. CASE DecideSet(w)
    <3>1. \E j : Commit(w, j) /\ j.pc = "save"
      BY <2>1, <2>3 DEF DecideSet
    <3> QED
      BY <1>1, <3>1 DEF Commit, Idle, Sound, IInv
  <2>4. CASE DecideConfigure(w) \/ ReadInForce(w)
    BY <1>1, <2>1, <2>4, DecideConfigureMoves, ReadInForceMoves
  <2>5. CASE DecideDelete(w)
    <3>1. \/ Fail(w)
          \/ Succeed(w)
               /\ job[w].req.rule.name
                    \notin NamesOf(RulesOn(dsm.stored[job[w].req.profile], job[w].req.adapter))
          \/ \E j : Commit(w, j) /\ j.pc = "save"
      BY <2>5 DEF DecideDelete
    <3>2. ASSUME NEW j, Commit(w, j), j.pc = "save" PROVE FALSE
      BY <1>1, <3>2 DEF Commit, Idle, Sound, IInv
    <3> QED
      BY <2>1, <2>5, <3>1, <3>2
  <2> QED
    BY <1>4, <2>2, <2>3, <2>4, <2>5 DEF Step
<1>5. Step(w)
  <2>1. ASSUME NEW v \in Workers, NEW req \in Requests, Start(v, req) PROVE FALSE
    BY <1>1, <2>1 DEF Start
  <2>2. ~ForeignSave /\ ~Restart /\ ~UNCHANGED vars
    BY <1>1 DEF ForeignSave, Restart, vars
  <2> QED
    BY <1>3, <2>1, <2>2 DEF Next, Terminating
<1>6. dsm' = dsm
  BY <1>4, <1>5 DEF Verified, DecideDelete
<1> QED
  BY <1>1, <1>2, <1>4, <1>5, <1>6 DEF DecideDelete

LEMMA StepReported ==
  ASSUME Sound, Settled, [Next]_vars
  PROVE  ReportedStep
<1> SUFFICES ASSUME NEW w \in Workers
             PROVE  LET req == job[w].req
                    IN  /\ Completes(w, "delete")
                             /\ dsm.settings = [enabled |-> TRUE, active |-> req.profile] =>
                               req.rule.name \notin NamesOf(RulesOn(dsm'.live, req.adapter))
                        /\ Completes(w, "configure") /\ req.enabled =>
                               dsm'.live = dsm'.stored[req.profile]
  BY DEF ReportedStep
<1> DEFINE req == job[w].req
<1>1. ASSUME NEW op, Completes(w, op) PROVE Rendered
  <2>1. job[w].pc \in {"profile", "verify"}
    BY <1>1, Completed DEF Verified, DecideDelete, At
  <2>2. \A v \in Workers : job[v].pc \notin Rendering
    BY <2>1, Alone DEF Rendering, Sound, Inside, Outside
  <2> QED
    BY <2>2 DEF Settled
<1>2. ASSUME Completes(w, "delete"), dsm.settings = [enabled |-> TRUE, active |-> req.profile]
      PROVE  req.rule.name \notin NamesOf(RulesOn(dsm'.live, req.adapter))
  <2>1. req.op = "delete" /\ dsm' = dsm
    BY <1>2, Completed
  <2>2. req.rule.name \notin NamesOf(RulesOn(dsm.stored[req.profile], req.adapter))
    BY <1>2, <2>1, Completed DEF Verified, Persisted
  <2>3. dsm.live = dsm.stored[req.profile]
    BY <1>1, <1>2 DEF Rendered
  <2> QED
    BY <2>1, <2>2, <2>3
<1>3. ASSUME Completes(w, "configure"), req.enabled PROVE dsm'.live = dsm'.stored[req.profile]
  <2>1. req.op = "configure" /\ dsm' = dsm /\ Persisted(req)
    BY <1>3, Completed DEF Verified
  <2>2. dsm.settings.enabled /\ dsm.settings.active = req.profile
    BY <1>3, <2>1 DEF Persisted
  <2> QED
    BY <1>1, <1>3, <2>1, <2>2 DEF Rendered
<1> QED
  BY <1>2, <1>3

\* If every call that takes effect is heard to, what an operation reports as done is what
\* DSM enforces, however many of them are refused or fail, and whatever DSM's own interface
\* saves in between.
THEOREM ReportsAreInForce ==
  ASSUME EveryCallTells
  PROVE  Spec => ReportedIsInForce
<1>1. Init => Settled
  BY BoundsAssumption
  DEF Init, Settled, Rendered, RenderingJob, Rendering, Idle, EveryCallTells
<1>2. Sound /\ FreshSettings /\ Settled /\ [Next]_vars => Settled'
  BY NextSettled
<1>3. Sound /\ FreshSettings /\ [Next]_vars => FreshSettings'
  BY NextFreshSettings
<1>4. Sound /\ Settled /\ [Next]_vars => [ReportedStep]_vars
  BY StepReported
<1>5. Spec => [][ReportedStep]_vars
  BY InitSound, StepSound, InitFreshSettings, <1>1, <1>2, <1>3, <1>4, PTL DEF Spec
<1>6. ReportedStep =>
        /\ \A w \in Workers :
              LET req == job[w].req
              IN  Completes(w, "delete")
                      /\ dsm.settings = [enabled |-> TRUE, active |-> req.profile] =>
                      req.rule.name \notin NamesOf(RulesOn(dsm'.live, req.adapter))
        /\ \A w \in Workers :
              Completes(w, "configure") /\ job[w].req.enabled =>
                  dsm'.live = dsm'.stored[job[w].req.profile]
  BY DEF ReportedStep
<1>7. Spec => DeletedIsOutOfForce
  BY <1>5, <1>6, PTL DEF DeletedIsOutOfForce
<1>8. Spec => ConfiguredIsInForce
  BY <1>5, <1>6, PTL DEF ConfiguredIsInForce
<1> QED
  BY <1>7, <1>8, WritesAreInForce, PTL DEF ReportedIsInForce

----------------------------------------------------------------------------
(***************************************************************************)
(* The guards keep the session.                                            *)
(***************************************************************************)
\* A profile that can be replayed, and that has a word on every adapter.
Plain(profile) ==
    /\ Adapters \ {Global} \subseteq DOMAIN profile.policy
    /\ \A a \in Adapters \union {Global} : \A r \in RulesIn(RulesOn(profile, a)) :
          r.effect # "opaque"

\* Some adapter admits the session; whatever admitted it still does not deny it.
Reach(profile) == \E a \in PhysicalAdapters(profile) : EvaluateAccess(profile, a) = "allow"

Keeps(live, profile) ==
    \A a \in PhysicalAdapters(profile) :
        EvaluateAccess(live, a) = "allow" => EvaluateAccess(profile, a) # "deny"

\* The session is known, DSM can be replayed, and nothing goes round the guards: not DSM's
\* own interface, not a request, not a profile in force that cannot be read.
NothingUnguarded ==
    /\ SessionKnown
    /\ MaxForeign = 0
    /\ "read" \notin Faults
    /\ Adapters \ {Global} # {}
    /\ \A req \in Requests : ~req.lockout /\ (req.op # "configure" => req.rule.effect # "opaque")
    /\ \A p \in Profiles : Plain(InitDsm.stored[p])
    /\ InitDsm.settings.enabled => Reach(InitDsm.live)

\* A replay of such a profile comes to a verdict.
LEMMA Verdicts ==
  ASSUME NEW profile, IsProfile(profile), Plain(profile)
  PROVE  /\ PhysicalAdapters(profile) = Adapters \ {Global}
         /\ \A a \in Adapters : EvaluateAccess(profile, a) \in {"allow", "deny"}
<1>1. PhysicalAdapters(profile) = Adapters \ {Global}
  BY DEF PhysicalAdapters, IsProfile, Plain
<1> SUFFICES ASSUME NEW a \in Adapters PROVE EvaluateAccess(profile, a) \in {"allow", "deny"}
  BY <1>1
<1> DEFINE s == RulesOn(profile, Global)
           t == RulesOn(profile, a)
           list == s \o t
           hits == {i \in DOMAIN list : list[i].effect # "miss"}
           first == CHOOSE i \in hits : \A j \in hits : i <= j
<1>2. /\ s \in Seq(Rules) /\ t \in Seq(Rules)
      /\ \A r \in RulesIn(s) \union RulesIn(t) : r.effect # "opaque"
  <2>1. IsRuleList(s) /\ IsRuleList(t)
    BY RulesOnProfile
  <2> QED
    BY <2>1 DEF Plain, IsRuleList, Rules
<1>3. list \in Seq(Rules) /\ DOMAIN list = 1 .. Len(list) /\ Len(list) \in Nat
      /\ \A i \in DOMAIN list : list[i] \in Rules /\ list[i] \in RulesIn(s) \union RulesIn(t)
  <2> HIDE DEF s, t
  <2>1. list \in Seq(Rules) /\ DOMAIN list = 1 .. Len(list) /\ Len(list) \in Nat
    BY <1>2, SeqForm
  <2>2. DOMAIN s = 1 .. Len(s) /\ DOMAIN t = 1 .. Len(t) /\ Len(s) \in Nat /\ Len(t) \in Nat
    BY <1>2, SeqForm
  <2>3. Len(list) = Len(s) + Len(t)
    BY <1>2
  <2>4. \A i \in DOMAIN list :
           list[i] = IF i <= Len(s) THEN s[i] ELSE t[i - Len(s)]
    BY <1>2, <2>1, <2>3
  <2>5. \A i \in DOMAIN list : list[i] \in RulesIn(s) \union RulesIn(t)
    BY <2>1, <2>2, <2>3, <2>4 DEF RulesIn
  <2>6. \A i \in DOMAIN list : list[i] \in Rules
    BY <2>1, SeqForm
  <2> QED
    BY <2>1, <2>5, <2>6
<1>4. ASSUME NEW default \in {"allow", "deny"}
      PROVE  EvaluateFirewall(list, default) \in {"allow", "deny"}
  <2>1. EvaluateFirewall(list, default) = IF hits = {} THEN default ELSE list[first].effect
    BY DEF EvaluateFirewall
  <2>2. ASSUME hits # {} PROVE first \in hits
    <3>1. hits \in SUBSET Nat
      BY <1>3
    <3> HIDE DEF hits
    <3>2. \E i \in hits : \A j \in hits : i <= j
      BY <2>2, <3>1, Least
    <3> QED
      BY <3>2
  <2> HIDE DEF first, s, t
  <2>3. \A i \in hits : list[i].effect \in {"allow", "deny"}
    <3> TAKE i \in hits
    <3>1. list[i] \in Rules /\ list[i].effect # "miss" /\ list[i].effect # "opaque"
      BY <1>2, <1>3
    <3> QED
      BY <3>1 DEF Rules, Effects
  <2> QED
    BY <2>1, <2>2, <2>3
<1> QED
  BY <1>4 DEF EvaluateAccess

LEMMA KeepsReach ==
  ASSUME NEW live, IsProfile(live), NEW profile, IsProfile(profile), Plain(profile),
         Keeps(live, profile), Reach(live)
  PROVE  Reach(profile)
<1>1. PICK a \in PhysicalAdapters(live) : EvaluateAccess(live, a) = "allow"
  BY DEF Reach
<1>2. a \in Adapters \ {Global}
  BY <1>1 DEF PhysicalAdapters, IsProfile
<1> QED
  BY <1>1, <1>2, Verdicts DEF Keeps, Reach

\* What the two guards establish.
LEMMA RuleGuardKeeps ==
  ASSUME NothingUnguarded, NEW before, NEW after, NEW settings, NEW name, NEW lockout, ~lockout,
         settings.enabled, settings.active = name,
         GuardRuleWrite(before, after, settings, name, lockout) # "refuse"
  PROVE  Keeps(before, after)
<1>1. PhysicalAdapters(after) = {} \/
        CompareReachability(before, after, PhysicalAdapters(after)) # "refuse"
  BY DEF GuardRuleWrite, NothingUnguarded
<1> QED
  BY <1>1 DEF CompareReachability, Keeps

Safe(j, live, profile) ==
    IF j.settings.enabled THEN Keeps(live, profile) ELSE Reach(profile)

LEMMA SettingsGuardSafe ==
  ASSUME NothingUnguarded, NEW j, NEW inForce, IsProfile(j.after), Plain(j.after),
         j.req \in Requests, j.req.enabled, Passed(j, inForce)
  PROVE  Safe(j, inForce, j.after)
<1>1. PhysicalAdapters(j.after) # {}
  BY Verdicts DEF NothingUnguarded
<1>2. ~j.req.lockout
  BY DEF NothingUnguarded
<1>3. IF j.settings.enabled
      THEN CompareReachability(inForce, j.after, PhysicalAdapters(j.after)) # "refuse"
      ELSE ProvesLockout(j.after, PhysicalAdapters(j.after)) # "refuse"
  BY <1>1, <1>2 DEF Passed, GuardSettings, NothingUnguarded
<1>4. CASE j.settings.enabled
  BY <1>3, <1>4 DEF CompareReachability, Keeps, Safe
<1>5. CASE ~j.settings.enabled
  <2>1. \A a \in PhysicalAdapters(j.after) : EvaluateAccess(j.after, a) # "opaque"
    BY Verdicts
  <2>2. \E a \in PhysicalAdapters(j.after) : EvaluateAccess(j.after, a) = "allow"
    BY <1>3, <1>5, <2>1 DEF ProvesLockout
  <2> QED
    BY <1>5, <2>2 DEF Safe, Reach
<1> QED
  BY <1>4, <1>5

\* What an operation is about to save can be replayed if what it read can.
LEMMA PlannedPlain ==
  ASSUME NothingUnguarded, NEW j, j.req \in Requests, Planned(j), Plain(j.before)
  PROVE  IsProfile(j.after) /\ Plain(j.after)
<1>1. IsProfile(j.after) /\ IsProfile(j.before)
  BY PlannedProfile DEF Planned
<1>2. CASE j.req.op = "configure"
  <2>1. j.after = [j.before EXCEPT !.policy = Overlay(j.before.policy, j.req.policy)]
    BY <1>2 DEF Planned
  <2>2. j.after.rules = j.before.rules
    BY <1>1, <1>2, <2>1, Reconfigured
  <2>4. DOMAIN j.before.policy \subseteq DOMAIN j.after.policy
    <3>1. j.after.policy = Overlay(j.before.policy, j.req.policy)
      BY <1>1, <2>1 DEF IsProfile
    <3> QED
      BY <3>1 DEF Overlay
  <2>3. \A a : RulesOn(j.after, a) = RulesOn(j.before, a)
    BY <2>2 DEF RulesOn
  <2> QED
    BY <1>1, <2>2, <2>3, <2>4 DEF Plain
<1>3. CASE j.req.op # "configure"
  <2>1. PICK rules : /\ IsRuleList(rules)
                     /\ j.after = PutRules(j.before, j.req.adapter, rules)
                     /\ RulesIn(rules) = Wanted(j.before, j.req)
    BY <1>3 DEF Planned
  <2>2. /\ j.after.policy = j.before.policy
        /\ RulesOn(j.after, j.req.adapter) = rules
        /\ \A b \in Adapters : b # j.req.adapter => RulesOn(j.after, b) = RulesOn(j.before, b)
    BY <1>1, <2>1, RequestForm, Rearrange
  <2>3. \A a : a \notin Adapters => RulesOn(j.after, a) = <<>>
    BY <1>1 DEF RulesOn, IsProfile
  <2>4. \A r \in RulesIn(rules) : r.effect # "opaque"
    BY <1>3, <2>1, RequestForm DEF Wanted, Plain, NothingUnguarded
  <2>5. RulesIn(<<>>) = {}
    BY DEF RulesIn
  <2>6. ASSUME NEW a \in Adapters \union {Global}, NEW r \in RulesIn(RulesOn(j.after, a))
        PROVE  r.effect # "opaque"
    BY <2>2, <2>3, <2>4, <2>5, <2>6 DEF Plain
  <2> QED
    BY <1>1, <2>2, <2>6 DEF Plain
<1> QED
  BY <1>2, <1>3

\* Setting policies to what they are changes no verdict.
LEMMA SameVerdicts ==
  ASSUME NEW j, j.req \in Requests, j.req.op = "configure", Planned(j),
         ~PolicyChanges(j.req, j.before), NEW live, Safe(j, live, j.after)
  PROVE  Safe(j, live, j.before)
<1>1. j.after = [j.before EXCEPT !.policy = Overlay(j.before.policy, j.req.policy)]
      /\ IsProfile(j.before)
  BY DEF Planned
<1>2. DOMAIN j.after = DOMAIN j.before /\ j.after.rules = j.before.rules
      /\ j.after.policy = Overlay(j.before.policy, j.req.policy)
  BY <1>1 DEF IsProfile
<1>3. DOMAIN j.after.policy = DOMAIN j.before.policy
      /\ \A a \in DOMAIN j.before.policy : j.after.policy[a] = j.before.policy[a]
  BY <1>2 DEF Overlay, PolicyChanges
<1>4. PhysicalAdapters(j.after) = PhysicalAdapters(j.before)
  BY <1>2, <1>3 DEF PhysicalAdapters
<1>5. \A a : EvaluateAccess(j.after, a) = EvaluateAccess(j.before, a)
  BY <1>2, <1>3 DEF EvaluateAccess, RulesOn
<1> QED
  BY <1>4, <1>5 DEF Safe, Keeps, Reach

----------------------------------------------------------------------------
\* A rule write into the profile in force; whatever is to go into force.
WritingInForce(j) == j.req.op # "configure" /\ Lasting(j)

Enforcing(j) == TurningOn(j) \/ WritingInForce(j)

SafeJob(j) ==
    /\ j.pc = "inForce" => (j.changed <=> PolicyChanges(j.req, j.before))
    /\ j.pc = "save" /\ Enforcing(j) => Safe(j, dsm.live, j.after)
    /\ j.pc \in Rendering /\ Enforcing(j) => Safe(j, dsm.live, dsm.stored[j.req.profile])
    /\ j.pc = "apply" /\ j.req.op = "configure" => j.req.enabled
    /\ j.pc = "apply" /\ j.settings.enabled => Reach(dsm.live)

Guarded ==
    /\ \A p \in Profiles : Plain(dsm.stored[p])
    /\ dsm.settings.enabled /\ (\A w \in Workers : job[w].pc # "apply") => Reach(dsm.live)
    /\ \A w \in Workers : SafeJob(job[w])

LEMMA UpToDate ==
  ASSUME Sound, NothingUnguarded, NEW w \in Workers, job[w].pc \in {"inForce", "save"}
  PROVE  job[w].before = dsm.stored[job[w].req.profile]
<1>1. budget.foreign = MaxForeign
  BY BoundsAssumption DEF Sound, IInv, ForeignBudget, NothingUnguarded
<1> QED
  BY <1>1 DEF Sound, IInv, FreshRead

\* What the worker with the lock relies on, away from its writes.
LEMMA Undisturbed ==
  ASSUME Sound, Settled, Guarded, NEW w \in Workers, Step(w), job[w].pc \notin Rendering
  PROVE  Rendered /\ (dsm.settings.enabled => Reach(dsm.live))
<1>1. \A v \in Workers : job[v].pc \notin Rendering
  BY Others DEF Rendering, Outside
<1>2. Rendered
  BY <1>1 DEF Settled
<1>3. \A v \in Workers : job[v].pc # "apply"
  BY <1>1 DEF Rendering
<1> QED
  BY <1>2, <1>3 DEF Guarded

LEMMA DecideSafe ==
  ASSUME Sound, FreshSettings, Settled, Guarded, NothingUnguarded, NEW w \in Workers, Step(w),
         DecideSet(w) \/ DecideDelete(w)
  PROVE  SafeJob(job[w])'
<1>1. job[w].pc = "profile" /\ dsm' = dsm /\ (job'[w] = Idle \/ Decided(job'[w], w))
  BY DecideMoves
<1>2. Rendered
  BY <1>1, Undisturbed DEF Rendering
<1>3. CASE job'[w] = Idle
  BY <1>3 DEF SafeJob, Idle, Rendering
<1>4. CASE Decided(job'[w], w)
  <2> DEFINE j == job'[w]
  <2>1. /\ j.pc = "save" /\ j.req = job[w].req /\ j.req.op # "configure"
        /\ j.settings = dsm.settings /\ j.before = dsm.stored[j.req.profile]
        /\ GuardRuleWrite(j.before, j.after, j.settings, j.req.profile, j.req.lockout) # "refuse"
    BY <1>1, <1>4 DEF Decided, FreshSettings, Deciding
  <2>2. ~j.req.lockout
    BY <1>1, <2>1 DEF NothingUnguarded, Sound, Operating, Requested, JobOK
  <2> HIDE DEF j
  <2>3. ASSUME Lasting(j) PROVE Safe(j, dsm.live, j.after)
    <3>1. j.settings.enabled /\ j.settings.active = j.req.profile
      BY <2>3 DEF Lasting
    <3>2. Keeps(j.before, j.after)
      BY <2>1, <2>2, <3>1, RuleGuardKeeps
    <3>3. j.before = dsm.live
      BY <1>2, <2>1, <3>1 DEF Rendered
    <3> QED
      BY <3>1, <3>2, <3>3 DEF Safe
  <2>4. ~TurningOn(j)
    BY <2>1 DEF TurningOn
  <2>5. Enforcing(j) => Safe(j, dsm'.live, j.after)
    BY <1>1, <2>3, <2>4 DEF Enforcing, WritingInForce
  <2> QED
    BY <2>1, <2>5 DEF SafeJob, Rendering, j
<1> QED
  BY <1>1, <1>3, <1>4

\* A configuration that the guard let pass, compared with what is in force.
LEMMA OnwardSafe ==
  ASSUME NothingUnguarded, NEW w \in Workers, NEW j, j.pc = "inForce", Planned(j),
         j.req \in Requests, j.req.op = "configure", j.before = dsm.stored[j.req.profile],
         Plain(j.before),
         j.changed <=> PolicyChanges(j.req, j.before), dsm' = dsm,
         NEW inForce, Passed(j, inForce), j.req.enabled /\ j.settings.enabled => inForce = dsm.live,
         NEW i, Onward(j, i)
  PROVE  SafeJob(i)'
<1>1. ASSUME j.req.enabled PROVE Safe(j, dsm.live, j.after)
  <2>1. Safe(j, inForce, j.after)
    BY <1>1, PlannedPlain, SettingsGuardSafe
  <2> QED
    BY <1>1, <2>1 DEF Safe
<1>2. ASSUME j.req.enabled, ~j.changed PROVE Safe(j, dsm.live, j.before)
  BY <1>1, <1>2, SameVerdicts
<1>3. /\ i.req = j.req /\ i.settings = j.settings /\ i.before = j.before /\ i.after = j.after
      /\ i.pc \in {"save", "switch", "verify"} /\ (i.pc = "switch" => ~j.changed)
  BY DEF Onward, Carries
<1>4. Enforcing(i) => j.req.enabled
  BY <1>3 DEF Enforcing, TurningOn, WritingInForce
<1>5. i.pc = "save" /\ Enforcing(i) => Safe(i, dsm'.live, i.after)
  BY <1>1, <1>3, <1>4 DEF Safe
<1>6. i.pc = "switch" /\ Enforcing(i) => Safe(i, dsm'.live, dsm'.stored[i.req.profile])
  BY <1>2, <1>3, <1>4 DEF Safe
<1> QED
  BY <1>3, <1>5, <1>6 DEF SafeJob, Rendering

LEMMA DecideConfigureSafe ==
  ASSUME Sound, FreshSettings, Settled, Guarded, NothingUnguarded, NEW w \in Workers, Step(w),
         DecideConfigure(w)
  PROVE  SafeJob(job[w])'
<1>1. /\ job[w].pc = "profile" /\ dsm' = dsm /\ job[w].req.op = "configure"
      /\ \/ job'[w] = Idle
         \/ \E j : /\ Informed(j, w)
                   /\ \/ Elsewhere(j) /\ job'[w] = j
                      \/ ~Elsewhere(j) /\ Passed(j, j.before) /\ Onward(j, job'[w])
  BY DecideConfigureMoves
<1>2. Rendered /\ job[w].settings = dsm.settings /\ job[w].req \in Requests
  BY <1>1, Undisturbed
  DEF Rendering, FreshSettings, Deciding, Sound, Operating, Requested, JobOK
<1>3. CASE job'[w] = Idle
  BY <1>3 DEF SafeJob, Idle, Rendering
<1>4. ASSUME NEW j, Informed(j, w), Elsewhere(j), job'[w] = j PROVE SafeJob(job[w])'
  <2>1. j.pc = "inForce" /\ (j.changed <=> PolicyChanges(j.req, j.before))
    BY <1>4 DEF Informed
  <2> QED
    BY <1>4, <2>1 DEF SafeJob, Rendering
<1>5. ASSUME NEW j, Informed(j, w), ~Elsewhere(j), Passed(j, j.before), Onward(j, job'[w])
      PROVE  SafeJob(job[w])'
  <2>1. /\ j.pc = "inForce" /\ j.req = job[w].req /\ j.settings = dsm.settings
        /\ j.before = dsm.stored[j.req.profile] /\ (j.changed <=> PolicyChanges(j.req, j.before))
        /\ j.after = [j.before EXCEPT !.policy = Overlay(j.before.policy, j.req.policy)]
    BY <1>2, <1>5 DEF Informed
  <2>2. j.req.profile \in Profiles /\ IsProfile(j.before) /\ Plain(j.before)
    BY <1>2, <2>1, RequestForm DEF Sound, Data, WellFormed, Guarded
  <2>3. Planned(j)
    BY <1>1, <2>1, <2>2 DEF Planned
  <2>4. ~j.req.lockout
    BY <1>2, <2>1 DEF NothingUnguarded
  <2>5. j.req.enabled /\ j.settings.enabled => j.before = dsm.live
    BY <1>2, <1>5, <2>1, <2>4 DEF Elsewhere, Rendered
  <2> QED
    BY <1>1, <1>2, <1>5, <2>1, <2>2, <2>3, <2>5, OnwardSafe
<1> QED
  BY <1>1, <1>3, <1>4, <1>5

LEMMA ReadInForceSafe ==
  ASSUME Sound, FreshSettings, Settled, Guarded, NothingUnguarded, NEW w \in Workers, Step(w),
         ReadInForce(w)
  PROVE  SafeJob(job[w])'
<1> DEFINE j == job[w]
<1>1. /\ j.pc = "inForce" /\ dsm' = dsm /\ j.req.op = "configure"
      /\ \/ job'[w] = Idle
         \/ Onward(j, job'[w]) /\ Passed(j, dsm.stored[j.settings.active])
  BY ReadInForceMoves DEF NothingUnguarded
<1>2. Rendered /\ j.settings = dsm.settings /\ j.req \in Requests /\ Planned(j)
  BY <1>1, Undisturbed
  DEF Rendering, FreshSettings, Deciding, Sound, Operating, Requested, JobOK
<1>3. j.before = dsm.stored[j.req.profile] /\ Plain(j.before)
  BY <1>1, <1>2, UpToDate, RequestForm DEF Guarded
<1>4. j.changed <=> PolicyChanges(j.req, j.before)
  BY <1>1 DEF Guarded, SafeJob
<1>5. j.settings.enabled => dsm.stored[j.settings.active] = dsm.live
  BY <1>2 DEF Rendered
<1>6. CASE job'[w] = Idle
  BY <1>6 DEF SafeJob, Idle, Rendering
<1>7. CASE Onward(j, job'[w]) /\ Passed(j, dsm.stored[j.settings.active])
  <2> HIDE DEF j
  <2> QED
    BY <1>1, <1>2, <1>3, <1>4, <1>5, <1>7, OnwardSafe
<1> QED
  BY <1>1, <1>6, <1>7

LEMMA SaveSafe ==
  ASSUME Sound, FreshSettings, Settled, Guarded, NothingUnguarded, EveryCallTells,
         NEW w \in Workers, Step(w), Save(w)
  PROVE  SafeJob(job[w])' /\ \A p \in Profiles : Plain(dsm'.stored[p])
<1> DEFINE j == job[w]
           req == j.req
<1>1. /\ j.pc = "save" /\ req \in Requests /\ req.profile \in Profiles /\ Planned(j)
      /\ dsm'.settings = dsm.settings /\ dsm'.live = dsm.live
      /\ \A p \in Profiles : p # req.profile => dsm'.stored[p] = dsm.stored[p]
      /\ job'[w] = Idle \/ Advanced(w, AfterSave(j))
      /\ IF job'[w] = Idle THEN dsm' = dsm ELSE dsm'.stored[req.profile] = j.after
  BY SaveMoves DEF EveryCallTells
<1>2. /\ dsm.settings.enabled => Reach(dsm.live)
      /\ j.settings = dsm.settings
      /\ j.before = dsm.stored[req.profile] /\ Plain(j.before)
  BY <1>1, Undisturbed, UpToDate DEF Rendering, FreshSettings, Deciding, Guarded
<1>3. Plain(j.after)
  BY <1>1, <1>2, PlannedPlain
<1>4. \A p \in Profiles : Plain(dsm'.stored[p])
  BY <1>1, <1>3 DEF Guarded
<1>5. CASE job'[w] = Idle
  BY <1>4, <1>5 DEF SafeJob, Idle, Rendering
<1>6. CASE job'[w] # Idle
  <2>1. /\ job'[w].pc = AfterSave(j) /\ job'[w].req = req /\ job'[w].settings = j.settings
        /\ dsm'.stored[req.profile] = j.after
    BY <1>1, <1>6 DEF Advanced
  <2>2. Enforcing(j) => Safe(j, dsm.live, j.after)
    BY <1>1 DEF Guarded, SafeJob
  <2>3. Enforcing(job'[w]) => Safe(job'[w], dsm'.live, dsm'.stored[job'[w].req.profile])
    BY <1>1, <2>1, <2>2 DEF Enforcing, TurningOn, WritingInForce, Lasting, Safe
  <2>4. AfterSave(j) \in {"switch", "apply", "verify"}
        /\ (AfterSave(j) = "apply" /\ req.op = "configure" => req.enabled)
    BY DEF AfterSave, AfterSwitch
  <2>5. job'[w].settings.enabled => Reach(dsm'.live)
    BY <1>1, <1>2, <2>1
  <2> QED
    BY <1>4, <2>1, <2>3, <2>4, <2>5 DEF SafeJob
<1> QED
  BY <1>5, <1>6

LEMMA SwitchSafe ==
  ASSUME Sound, FreshSettings, Guarded, EveryCallTells, NEW w \in Workers, Step(w), Switch(w)
  PROVE  SafeJob(job[w])'
<1> DEFINE j == job[w]
           req == j.req
<1>1. /\ j.pc = "switch" /\ req.op = "configure" /\ dsm'.stored = dsm.stored
      /\ dsm'.live = dsm.live
      /\ job'[w] = Idle \/ Advanced(w, AfterSwitch(j))
  BY SwitchMoves
<1>2. j.settings.enabled => Reach(dsm.live)
  <2>1. j.settings = dsm.settings
    BY <1>1 DEF FreshSettings, Deciding
  <2>2. \A v \in Workers : job[v].pc # "apply"
    BY <1>1, Others DEF Outside
  <2> QED
    BY <2>1, <2>2 DEF Guarded
<1>3. CASE job'[w] = Idle
  BY <1>3 DEF SafeJob, Idle, Rendering
<1>4. CASE job'[w] # Idle
  <2>1. /\ job'[w].pc = AfterSwitch(j) /\ job'[w].req = req /\ job'[w].settings = j.settings
    BY <1>1, <1>4 DEF Advanced
  <2>2. Enforcing(j) => Safe(j, dsm.live, dsm.stored[req.profile])
    BY <1>1 DEF Guarded, SafeJob, Rendering
  <2>3. Enforcing(job'[w]) => Safe(job'[w], dsm'.live, dsm'.stored[job'[w].req.profile])
    BY <1>1, <2>1, <2>2 DEF Enforcing, TurningOn, WritingInForce, Lasting, Safe
  <2>4. AfterSwitch(j) \in {"apply", "verify"} /\ (AfterSwitch(j) = "apply" => req.enabled)
    BY DEF AfterSwitch
  <2>5. job'[w].settings.enabled => Reach(dsm'.live)
    BY <1>1, <1>2, <2>1
  <2> QED
    BY <2>1, <2>3, <2>4, <2>5 DEF SafeJob
<1> QED
  BY <1>3, <1>4

\* An apply puts a profile into force that is safe.
LEMMA ApplySafe ==
  ASSUME Sound, Settled, Guarded, EveryCallTells, NEW w \in Workers, Step(w), Apply(w)
  PROVE  /\ job'[w].pc = "verify" /\ dsm'.settings = dsm.settings /\ dsm'.stored = dsm.stored
         /\ job[w].settings.enabled => Keeps(dsm.live, dsm'.live)
         /\ dsm.settings.enabled => Reach(dsm'.live)
<1> DEFINE j == job[w]
           req == j.req
<1>1. /\ j.pc = "apply" /\ req \in Requests /\ req.profile \in Profiles
      /\ dsm'.settings = dsm.settings /\ dsm'.stored = dsm.stored
      /\ job'[w].pc = "verify" /\ dsm'.live = dsm.stored[req.profile]
  BY ApplyMoves DEF EveryCallTells, Advanced
<1>2. /\ dsm.settings.active = req.profile
      /\ req.op = "configure" => TurningOn(j)
      /\ Enforcing(j) => Safe(j, dsm.live, dsm'.live)
      /\ j.settings.enabled => Reach(dsm.live)
  BY <1>1 DEF Settled, RenderingJob, Guarded, SafeJob, Rendering, TurningOn
<1>3. req.op # "configure" => j.settings = dsm.settings
  BY <1>1 DEF Sound, Operating, Current, InForceJob, Inside
<1>4. j.settings.enabled \/ dsm.settings.enabled => Enforcing(j)
  BY <1>1, <1>2, <1>3, RequestForm DEF Enforcing, WritingInForce, Lasting
<1>5. IsProfile(dsm.live) /\ IsProfile(dsm'.live) /\ Plain(dsm'.live)
  BY <1>1 DEF Sound, Data, WellFormed, Guarded
<1>6. j.settings.enabled => Keeps(dsm.live, dsm'.live)
  BY <1>2, <1>4 DEF Safe
<1>7. dsm.settings.enabled => Reach(dsm'.live)
  BY <1>2, <1>4, <1>5, <1>6, KeepsReach DEF Safe
<1> QED
  BY <1>1, <1>6, <1>7

LEMMA StepGuarded ==
  ASSUME Sound, FreshSettings, Settled, Guarded, NothingUnguarded, EveryCallTells,
         NEW w \in Workers, Step(w)
  PROVE  Guarded'
<1>1. \A v \in Workers : v # w => job'[v] = job[v] /\ job[v].pc \in Outside
  BY Others
<1>2. dsm'.stored = dsm.stored => \A p \in Profiles : Plain(dsm'.stored[p])
  BY DEF Guarded
<1>3. /\ SafeJob(job[w])'
      /\ \A p \in Profiles : Plain(dsm'.stored[p])
      /\ dsm'.settings.enabled /\ job'[w].pc # "apply" => Reach(dsm'.live)
  <2>1. CASE DecideSet(w) \/ DecideDelete(w)
    <3>1. job[w].pc = "profile" /\ dsm' = dsm
      BY <2>1, DecideMoves
    <3> QED
      BY <1>2, <2>1, <3>1, DecideSafe, Undisturbed DEF Rendering
  <2>2. CASE DecideConfigure(w)
    <3>1. job[w].pc = "profile" /\ dsm' = dsm
      BY <2>2, DecideConfigureMoves
    <3> QED
      BY <1>2, <2>2, <3>1, DecideConfigureSafe, Undisturbed DEF Rendering
  <2>3. CASE ReadInForce(w)
    <3>1. job[w].pc = "inForce" /\ dsm' = dsm
      BY <2>3, ReadInForceMoves
    <3> QED
      BY <1>2, <2>3, <3>1, ReadInForceSafe, Undisturbed DEF Rendering
  <2>4. CASE Save(w)
    <3>1. job[w].pc = "save" /\ dsm'.settings = dsm.settings /\ dsm'.live = dsm.live
      BY <2>4, SaveMoves
    <3> QED
      BY <2>4, <3>1, SaveSafe, Undisturbed DEF Rendering
  <2>5. CASE Switch(w)
    <3>1. /\ job[w].pc = "switch" /\ dsm'.stored = dsm.stored /\ dsm'.live = dsm.live
          /\ job'[w] = Idle \/ Advanced(w, AfterSwitch(job[w]))
          /\ IF job'[w] = Idle THEN dsm' = dsm
             ELSE dsm'.settings = [enabled |-> job[w].req.enabled, active |-> job[w].req.profile]
      BY <2>5, SwitchMoves DEF EveryCallTells
    <3>2. dsm.settings.enabled => Reach(dsm.live)
      BY <1>1, <3>1 DEF Guarded, Outside
    <3>3. job'[w] = Idle \/ job'[w].pc = "apply" \/ ~dsm'.settings.enabled
      BY <3>1 DEF Advanced, AfterSwitch
    <3> QED
      BY <1>2, <2>5, <3>1, <3>2, <3>3, SwitchSafe
  <2>6. CASE Apply(w)
    <3>1. SafeJob(job[w])'
      BY <2>6, ApplySafe DEF SafeJob, Rendering
    <3> QED
      BY <1>2, <2>6, <3>1, ApplySafe
  <2>7. CASE LockAndReadSettings(w) \/ ReadFails(w) \/ Verified(w) \/ NotPersisted(w)
    <3>1. /\ dsm' = dsm /\ job[w].pc \notin Rendering
          /\ job'[w] = Idle \/ job'[w].pc = "profile"
      BY <2>7, LockMoves, EndMoves DEF Rendering
    <3>2. SafeJob(job[w])'
      BY <3>1 DEF SafeJob, Rendering, Idle
    <3> QED
      BY <1>2, <3>1, <3>2, Undisturbed
  <2> QED
    BY <2>1, <2>2, <2>3, <2>4, <2>5, <2>6, <2>7 DEF Step
<1>4. \A v \in Workers : v # w => SafeJob(job[v])'
  BY <1>1 DEF SafeJob, Outside, Rendering
<1> QED
  BY <1>3, <1>4 DEF Guarded

LEMMA NextGuarded ==
  ASSUME Sound, FreshSettings, Settled, Guarded, NothingUnguarded, EveryCallTells, [Next]_vars
  PROVE  Guarded'
<1>1. ASSUME NEW w \in Workers, Step(w) PROVE Guarded'
  BY <1>1, StepGuarded
<1>2. ASSUME NEW w \in Workers, NEW req \in Requests, Start(w, req) PROVE Guarded'
  <2>1. /\ dsm' = dsm /\ job[w].pc = "idle" /\ job'[w].pc = "queued"
        /\ \A v \in Workers : v # w => job'[v] = job[v]
    BY <1>2, StartMoves DEF Start, At
  <2> QED
    BY <2>1 DEF Guarded, SafeJob, Rendering
<1>3. ~ForeignSave
  BY ForeignMoves, BoundsAssumption DEF NothingUnguarded
<1>4. ~Restart
  BY DEF Restart, Settled
<1>5. CASE UNCHANGED vars
  BY <1>5 DEF vars, Guarded, SafeJob
<1> QED
  BY <1>1, <1>2, <1>3, <1>4, <1>5 DEF Next, Terminating

\* GuardedKeepsAccess, of one step.
KeptStep ==
    \A w \in Workers :
        Apply(w) /\ job[w].settings.enabled /\ ~job[w].req.lockout => Keeps(dsm.live, dsm'.live)

\* If every call that takes effect is heard to and nothing goes round the guards, then
\* however operations interleave and fail, an enabled firewall is not emptied, some adapter
\* of it admits the session, and no apply takes away access that the firewall was granting.
THEOREM GuardsKeepTheSession ==
  ASSUME NobodyEmpties, EveryCallTells, NothingUnguarded
  PROVE  Spec => GuardsHold
<1>1. Init => Settled
  BY BoundsAssumption
  DEF Init, Settled, Rendered, RenderingJob, Rendering, Idle, EveryCallTells
<1>2. Init => Guarded
  BY DEF Init, Guarded, SafeJob, Rendering, Idle, NothingUnguarded
<1>3. Sound /\ FreshSettings /\ Settled /\ [Next]_vars => Settled'
  BY NextSettled
<1>4. Sound /\ FreshSettings /\ [Next]_vars => FreshSettings'
  BY NextFreshSettings
<1>5. Sound /\ FreshSettings /\ Settled /\ Guarded /\ [Next]_vars => Guarded'
  BY NextGuarded
<1>6. Sound /\ Guarded => StaysReachable
  <2> SUFFICES ASSUME Sound, Guarded, dsm.settings.enabled, mu = NoOne PROVE Reach(dsm.live)
    BY DEF StaysReachable, Reach
  <2>1. \A w \in Workers : job[w].pc # "apply"
    BY WorkersAssumption DEF Sound, IInv, OneWriter
  <2> QED
    BY <2>1 DEF Guarded
<1>7. Sound /\ Settled /\ Guarded /\ [Next]_vars => [KeptStep]_vars
  <2> SUFFICES ASSUME Sound, Settled, Guarded, NEW w \in Workers, Apply(w), job[w].settings.enabled
               PROVE  Keeps(dsm.live, dsm'.live)
    BY DEF KeptStep
  <2> QED
    BY ApplySafe DEF Step
<1>8. Spec => [](EnabledNeverEmpty /\ StaysReachable)
  BY NeverEmptied, InitSound, StepSound, InitFreshSettings, <1>1, <1>2, <1>3, <1>4, <1>5, <1>6, PTL
  DEF Spec
<1>9. Spec => [][KeptStep]_vars
  BY InitSound, StepSound, InitFreshSettings, <1>1, <1>2, <1>3, <1>4, <1>5, <1>7, PTL DEF Spec
<1>10. KeptStep <=>
         \A w \in Workers :
            Apply(w) /\ job[w].settings.enabled /\ ~job[w].req.lockout =>
                \A a \in PhysicalAdapters(dsm'.live) :
                    EvaluateAccess(dsm.live, a) = "allow" => EvaluateAccess(dsm'.live, a) # "deny"
  BY DEF KeptStep, Keeps
<1>11. Spec => GuardedKeepsAccess
  BY <1>9, <1>10, PTL DEF GuardedKeepsAccess
<1> QED
  BY <1>8, <1>11, PTL DEF GuardsHold

----------------------------------------------------------------------------
(***************************************************************************)
(* Where the rules are: LaidOutAsConfigured.                               *)
(***************************************************************************)
\* The configuration names each rule it wants once: while one process runs, no other
\* operation deletes that rule or asks for it differently.
EachRuleOnce ==
    \A r, s \in Requests :
        r.op = "set" /\ s.op # "configure" /\ ResourceOf(r) = ResourceOf(s) => r = s

\* What a save did is read back and recorded before anything else: no process ends, and
\* no call is ignored, unanswered or followed by a read-back that fails.  A save and a
\* switch may still be rejected.
NothingUnrecorded == MaxRestarts = 0 /\ Faults \subseteq {"save", "switch"}

\* An adapter's list is laid out for these positions.
Laid(k, desired) ==
    LaidWell(RulesOn(dsm.stored[k[1]], k[2]), desired, RulesOn(InitDsm.stored[k[1]], k[2]))

\* The record as a write's read-back will leave it.
WithPlace(req) == Put(order[KeyOf(req)], req.rule.name, NormalizePriority(req.priority))

\* A rule has been saved at its place and is not in the record yet.
Placing(j, k) == j.pc \in {"apply", "verify"} /\ j.req.op = "set" /\ KeyOf(j.req) = k

\* What is about to be saved is laid out, and so is what was saved.
LaidJob(j) ==
    /\ j.pc = "save" /\ j.req.op = "set" =>
          j.after = PutRules(j.before, j.req.adapter,
                        ArrangeRules(UpsertRule(RulesOn(j.before, j.req.adapter), j.req.rule),
                                     WithPlace(j.req)))
    /\ j.pc = "save" /\ j.req.op = "delete" =>
          j.after = PutRules(j.before, j.req.adapter,
                        ArrangeRules(WithoutRule(RulesOn(j.before, j.req.adapter), j.req.rule.name),
                                     order[KeyOf(j.req)]))
    /\ j.pc \in {"apply", "verify"} /\ j.req.op = "set" =>
          /\ Laid(KeyOf(j.req), WithPlace(j.req))
          /\ j.req.rule \in RulesIn(RulesOn(dsm.stored[j.req.profile], j.req.adapter))

\* The record names exactly the rules that completed writes promise.
Known ==
    \A k \in Keys : \A n :
        n \in DOMAIN order[k] <=>
            <<k[1], k[2], n>> \in DOMAIN promise /\ promise[<<k[1], k[2], n>>].op = "set"

\* The inductive invariant, of the operation that has the lock, and of all of them.
LaidFor(j) ==
    /\ Known
    /\ LaidJob(j)
    /\ \A k \in Keys : ~Placing(j, k) => Laid(k, order[k])

LaidSoFar ==
    /\ budget.restarts = 0
    /\ Quiet => /\ Known
                /\ \A w \in Workers : LaidJob(job[w])
                /\ \A k \in Keys : (\A w \in Workers : ~Placing(job[w], k)) => Laid(k, order[k])

\* The rule an operation is about is not in the record.
LEMMA Unrecorded ==
  ASSUME EachRuleOnce, Sound, Known, NEW w \in Workers, job[w].pc \in Inside,
         NEW req, req = job[w].req
  PROVE  /\ req \in Requests
         /\ req.op # "configure" => /\ KeyOf(req) \in Keys
                                    /\ req.rule.name \notin DOMAIN order[KeyOf(req)]
         /\ \A res \in DOMAIN promise : promise[res].op = "set" => res # ResourceOf(req)
<1>1. req \in Requests /\ w \in Busy
  BY DEF Sound, Operating, Requested, JobOK, Busy, Inside
<1>2. req.profile \in Profiles /\ req.adapter \in Adapters
  BY <1>1, RequestsAssumption DEF IsRequest
<1>3. KeyOf(req) \in Keys /\ KeyOf(req)[1] = req.profile /\ KeyOf(req)[2] = req.adapter
  BY <1>2 DEF KeyOf, Keys
<1>4. ASSUME NEW res \in DOMAIN promise, promise[res].op = "set", res = ResourceOf(req)
      PROVE  FALSE
  <2>1. promise[res] \in Requests /\ ResourceOf(promise[res]) = ResourceOf(req)
    BY <1>4 DEF Sound, Operating, Requested
  <2>2. req.op # "configure"
    BY <1>1, <1>4, <2>1, Apart
  <2>3. promise[res] = req
    BY <1>1, <1>4, <2>1, <2>2 DEF EachRuleOnce
  <2> QED
    BY <1>1, <1>4, <2>3 DEF Sound, Operating, Pending
<1>5. ASSUME req.op # "configure" PROVE req.rule.name \notin DOMAIN order[KeyOf(req)]
  <2>1. ResourceOf(req) = <<req.profile, req.adapter, req.rule.name>>
    BY <1>5 DEF ResourceOf
  <2> QED
    BY <1>3, <1>4, <2>1 DEF Known
<1> QED
  BY <1>1, <1>3, <1>4, <1>5

\* A step that leaves every rule where it is, and the record as it was.
LEMMA StillLaid ==
  ASSUME Sound, \A k \in Keys : RulesOn(dsm'.stored[k[1]], k[2]) = RulesOn(dsm.stored[k[1]], k[2]),
         NEW k \in Keys, NEW desired, NEW now,
         DOMAIN now = DOMAIN desired, \A n \in DOMAIN desired : now[n] = desired[n],
         \A n \in DOMAIN desired : desired[n] \in Int, Laid(k, desired)
  PROVE  LaidWell(RulesOn(dsm'.stored[k[1]], k[2]), now, RulesOn(InitDsm.stored[k[1]], k[2]))
<1>1. IsRuleList(RulesOn(dsm.stored[k[1]], k[2]))
  BY RulesOnProfile DEF Keys, Sound, Data, WellFormed
<1> QED
  BY <1>1, SameRecord DEF Laid

\* A promise that is withdrawn or made for an operation that was not in the record.
LEMMA StillKnown ==
  ASSUME Known, NEW res, \A r \in DOMAIN promise : promise[r].op = "set" => r # res,
         \A k \in Keys : DOMAIN order'[k] = DOMAIN order[k],
         \/ promise' = promise
         \/ promise' = Drop(promise, res)
         \/ \E req : promise' = Put(promise, res, req) /\ req.op # "set"
  PROVE  Known'
<1>1. \A r : r \in DOMAIN promise' /\ promise'[r].op = "set"
                <=> r \in DOMAIN promise /\ promise[r].op = "set"
  <2>1. CASE promise' = promise
    BY <2>1
  <2>2. CASE promise' = Drop(promise, res)
    BY <2>2 DEF Drop
  <2>3. CASE \E req : promise' = Put(promise, res, req) /\ req.op # "set"
    BY <2>3 DEF Put
  <2> QED
    BY <2>1, <2>2, <2>3
<1> QED
  BY <1>1 DEF Known

----------------------------------------------------------------------------
\* What a step keeps that moves no rule and forgets no position.
LEMMA RestLaid ==
  ASSUME Sound, NEW w \in Workers, LaidFor(job[w]),
         \A p \in Profiles :
            dsm'.stored[p] = dsm.stored[p] \/ dsm'.stored[p].rules = dsm.stored[p].rules,
         \A k \in Keys : /\ DOMAIN order'[k] = DOMAIN order[k]
                         /\ \A n \in DOMAIN order[k] : order'[k][n] = order[k][n],
         \A k \in Keys : Placing(job[w], k) => Placing(job'[w], k),
         Known', LaidJob(job[w])'
  PROVE  LaidFor(job[w])'
<1>1. \A k \in Keys : RulesOn(dsm'.stored[k[1]], k[2]) = RulesOn(dsm.stored[k[1]], k[2])
  BY DEF Keys, RulesOn
<1>2. ASSUME NEW k \in Keys, ~Placing(job'[w], k) PROVE Laid(k, order[k])'
  <2>1. Laid(k, order[k])
    BY <1>2 DEF LaidFor
  <2>2. \A n \in DOMAIN order[k] : order[k][n] \in Int
    BY DEF Sound, Data, Recordable
  <2>3. LaidWell(RulesOn(dsm'.stored[k[1]], k[2]), order'[k], RulesOn(InitDsm.stored[k[1]], k[2]))
    BY <1>1, <2>1, <2>2, StillLaid
  <2> QED
    BY <2>3 DEF Laid
<1>3. \A k \in Keys : ~Placing(job[w], k)' => Laid(k, order[k])'
  BY <1>2 DEF Placing, KeyOf
<1> QED
  BY <1>3 DEF LaidFor

LEMMA DecideSetLaid ==
  ASSUME EachRuleOnce, Sound, NEW w \in Workers, LaidFor(job[w]), DecideSet(w)
  PROVE  LaidFor(job[w])'
<1> DEFINE req == job[w].req
           j == [pc |-> "save", req |-> req, settings |-> job[w].settings,
                 before |-> dsm.stored[req.profile], after |-> WithRule(req)]
<1>1. job[w].pc = "profile" /\ req.op = "set" /\ UNCHANGED <<dsm, order>>
  BY DEF DecideSet, At
<1>2. Fail(w) \/ Commit(w, j)
  BY DEF DecideSet
<1>3. \A res \in DOMAIN promise : promise[res].op = "set" => res # ResourceOf(req)
  BY <1>1, Unrecorded DEF LaidFor, Inside
<1>4. \A k \in Keys : ~Placing(job[w], k)
  BY <1>1 DEF Placing
<1>5. /\ j.pc = "save" /\ j.req = req /\ j.req.op = "set" /\ j.before = dsm.stored[req.profile]
      /\ j.after = WithRule(req)
  BY <1>1
<1> HIDE DEF j
<1>6. promise' = promise \/ promise' = Drop(promise, ResourceOf(req))
  BY <1>2, <1>5 DEF Fail, Commit
<1>7. Known'
  BY <1>1, <1>3, <1>6, StillKnown DEF LaidFor
<1>8. job'[w] = Idle \/ job'[w] = j
  BY <1>2 DEF Fail, Commit, Sound, IInv
<1>9. LaidJob(job[w])'
  <2>1. CASE job'[w] = Idle
    BY <2>1 DEF LaidJob, Idle
  <2>2. CASE job'[w] = j
    <3>1. j.after = PutRules(j.before, j.req.adapter,
                        ArrangeRules(UpsertRule(RulesOn(j.before, j.req.adapter), j.req.rule),
                                     WithPlace(j.req)))
      BY <1>5 DEF WithRule, WithPlace
    <3>2. j.after = PutRules(job'[w].before, job'[w].req.adapter,
                        ArrangeRules(UpsertRule(RulesOn(job'[w].before, job'[w].req.adapter),
                                                job'[w].req.rule), WithPlace(job[w].req)'))
      BY <1>1, <2>2, <3>1 DEF WithPlace, KeyOf
    <3> QED
      BY <1>5, <2>2, <3>2 DEF LaidJob
  <2> QED
    BY <1>8, <2>1, <2>2
<1> QED
  BY <1>1, <1>4, <1>7, <1>9, RestLaid

LEMMA DecideDeleteLaid ==
  ASSUME EachRuleOnce, Sound, NEW w \in Workers, LaidFor(job[w]), DecideDelete(w)
  PROVE  LaidFor(job[w])'
<1> DEFINE req == job[w].req
           j == [pc |-> "save", req |-> req, settings |-> job[w].settings,
                 before |-> dsm.stored[req.profile], after |-> WithoutTheRule(req)]
<1>1. job[w].pc = "profile" /\ req.op = "delete" /\ UNCHANGED dsm
  BY DEF DecideDelete, At
<1>2. \/ Succeed(w) /\ UNCHANGED order
      \/ /\ order' = [order EXCEPT ![KeyOf(req)] = Forget(req)]
         /\ Fail(w) \/ Commit(w, j)
  BY DEF DecideDelete
<1>3. /\ KeyOf(req) \in Keys /\ req.rule.name \notin DOMAIN order[KeyOf(req)]
      /\ \A res \in DOMAIN promise : promise[res].op = "set" => res # ResourceOf(req)
  BY <1>1, Unrecorded DEF LaidFor, Inside
<1>4. \A k \in Keys : ~Placing(job[w], k)
  BY <1>1 DEF Placing
<1>5. /\ j.pc = "save" /\ j.req = req /\ j.req.op = "delete" /\ j.before = dsm.stored[req.profile]
      /\ j.after = WithoutTheRule(req)
  BY <1>1
<1> HIDE DEF j
<1>6. \/ promise' = promise
      \/ promise' = Drop(promise, ResourceOf(req))
      \/ promise' = Put(promise, ResourceOf(req), req)
  BY <1>2, <1>5 DEF Fail, Commit, Succeed
<1>7. DOMAIN order = Keys
  BY DEF Sound, Data, Recordable
<1>8. \A k \in Keys : /\ DOMAIN order'[k] = DOMAIN order[k]
                      /\ \A n \in DOMAIN order[k] : order'[k][n] = order[k][n]
  <2>1. Forget(req) = Drop(order[KeyOf(req)], req.rule.name)
    BY DEF Forget
  <2>2. /\ DOMAIN Forget(req) = DOMAIN order[KeyOf(req)]
        /\ \A n \in DOMAIN order[KeyOf(req)] : Forget(req)[n] = order[KeyOf(req)][n]
    BY <1>3, <2>1 DEF Drop
  <2> QED
    BY <1>2, <1>3, <1>7, <2>2
<1>9. Known'
  BY <1>1, <1>3, <1>6, <1>8, StillKnown DEF LaidFor
<1>10. job'[w] = Idle
       \/ (job'[w] = j /\ order' = [order EXCEPT ![KeyOf(req)] = Forget(req)])
  BY <1>2 DEF Fail, Succeed, Commit, Sound, IInv
<1>11. LaidJob(job[w])'
  <2>1. CASE job'[w] = Idle
    BY <2>1 DEF LaidJob, Idle
  <2>2. CASE job'[w] = j /\ order' = [order EXCEPT ![KeyOf(req)] = Forget(req)]
    <3>1. j.after = PutRules(j.before, j.req.adapter,
                        ArrangeRules(WithoutRule(RulesOn(j.before, j.req.adapter), j.req.rule.name),
                                     Forget(req)))
      BY <1>5 DEF WithoutTheRule
    <3>2. order'[KeyOf(j.req)] = Forget(req)
      BY <1>3, <1>5, <1>7, <2>2
    <3> QED
      BY <1>5, <2>2, <3>1, <3>2 DEF LaidJob, KeyOf
  <2> QED
    BY <1>10, <2>1, <2>2
<1> QED
  BY <1>1, <1>4, <1>8, <1>9, <1>11, RestLaid

LEMMA ConfigureLaid ==
  ASSUME EachRuleOnce, Sound, NEW w \in Workers, LaidFor(job[w]),
         DecideConfigure(w) \/ ReadInForce(w)
  PROVE  LaidFor(job[w])'
<1> DEFINE req == job[w].req
<1>1. job[w].pc \in {"profile", "inForce"} /\ req.op = "configure" /\ UNCHANGED <<dsm, order>>
  BY ReadInForceMoves, DecideConfigureMoves DEF DecideConfigure, ReadInForce
<1>2. \A res \in DOMAIN promise : promise[res].op = "set" => res # ResourceOf(req)
  BY <1>1, Unrecorded DEF LaidFor, Inside
<1>3. promise' = promise \/ promise' = Drop(promise, ResourceOf(req))
  <2>1. ASSUME NEW j, NEW pc, Commit(w, [j EXCEPT !.pc = pc]), Shaped(j), j.pc = "inForce",
               j.req = req
        PROVE  promise' = Drop(promise, ResourceOf(req))
    <3>1. [j EXCEPT !.pc = pc].req = j.req
      BY <2>1 DEF Shaped
    <3> QED
      BY <2>1, <3>1 DEF Commit
  <2>2. ASSUME NEW j, Shaped(j), j.pc = "inForce", j.req = req, Configure(w, j)
        PROVE  promise' = Drop(promise, ResourceOf(req))
    BY <2>1, <2>2 DEF Configure
  <2>3. CASE ReadInForce(w)
    <3>1. Shaped(job[w]) /\ job[w].pc = "inForce"
      BY <2>3 DEF Sound, IInv, ReadInForce, At
    <3> QED
      BY <2>2, <2>3, <3>1 DEF ReadInForce, GuardedConfigure, Fail
  <2>4. CASE DecideConfigure(w)
    <3> DEFINE before == dsm.stored[req.profile]
               j == [pc |-> "inForce", req |-> req, settings |-> job[w].settings,
                     before |-> before,
                     after |-> [before EXCEPT !.policy = Overlay(before.policy, req.policy)],
                     changed |-> PolicyChanges(req, before)]
    <3>1. Fail(w) \/ Configure(w, j) \/ promise' = promise
      BY <2>4 DEF DecideConfigure, GuardedConfigure
    <3>2. Shaped(j) /\ j.pc = "inForce" /\ j.req = req
      BY DEF Shaped, Inside
    <3> HIDE DEF j
    <3> QED
      BY <2>2, <3>1, <3>2 DEF Fail
  <2> QED
    BY <2>3, <2>4
<1>4. Known'
  BY <1>1, <1>2, <1>3, StillKnown DEF LaidFor
<1>5. job'[w].pc = "idle" \/ job'[w].req.op = "configure"
  <2>1. job'[w] = Idle \/ job'[w].req = job[w].req
    <3>1. CASE DecideConfigure(w)
      <4>1. job'[w] = Idle \/ \E j : Informed(j, w) /\ (job'[w] = j \/ Onward(j, job'[w]))
        BY <3>1, DecideConfigureMoves
      <4> QED
        BY <4>1 DEF Onward, Carries, Informed
    <3>2. CASE ReadInForce(w)
      BY <3>2, ReadInForceMoves DEF Onward, Carries
    <3> QED
      BY <3>1, <3>2
  <2> QED
    BY <1>1, <2>1 DEF Idle
<1>6. LaidJob(job[w])'
  BY <1>5 DEF LaidJob
<1>7. \A k \in Keys : ~Placing(job[w], k)
  BY <1>1 DEF Placing
<1> QED
  BY <1>1, <1>4, <1>6, <1>7, RestLaid

----------------------------------------------------------------------------
\* The save writes what is laid out, from a list that was.
LEMMA SavedLaid ==
  ASSUME Sound, Quiet, NEW w \in Workers, LaidFor(job[w]), job[w].pc = "save",
         NEW req, req = job[w].req, req.op \in {"set", "delete"},
         NEW now, now = IF req.op = "set" THEN WithPlace(req) ELSE order[KeyOf(req)],
         NEW rules, rules = RulesOn(job[w].after, req.adapter)
  PROVE  /\ LaidWell(rules, now, RulesOn(InitDsm.stored[req.profile], req.adapter))
         /\ req.op = "set" => req.rule \in RulesIn(rules)
         /\ \A b \in Adapters : b # req.adapter =>
               RulesOn(job[w].after, b) = RulesOn(dsm.stored[req.profile], b)
<1> DEFINE k == KeyOf(req)
           before == dsm.stored[req.profile]
           given == RulesOn(before, req.adapter)
           initial == RulesOn(InitDsm.stored[req.profile], req.adapter)
<1>1. /\ req \in Requests /\ req.profile \in Profiles /\ req.adapter \in Adapters
      /\ req.rule \in Rules
  BY RequestsAssumption DEF Sound, Operating, Requested, JobOK, IsRequest, Rules
<1>2. k \in Keys /\ k[1] = req.profile /\ k[2] = req.adapter
  BY <1>1 DEF KeyOf, Keys
<1>3. IsProfile(before) /\ job[w].before = before
  BY <1>1 DEF Sound, Data, WellFormed, IInv, FreshRead, Quiet
<1>4. IsRuleList(given)
  BY <1>3, RulesOnProfile
<1>5. \A n \in DOMAIN order[k] : order[k][n] \in Nat
  BY <1>2 DEF Sound, Data, Recordable
<1>6. Steady(given, order[k], initial)
  <2>1. ~Placing(job[w], k)
    BY DEF Placing
  <2> QED
    BY <1>2, <2>1 DEF LaidFor, Laid, LaidWell
<1>7. ASSUME NEW list, IsRuleList(list), job[w].after = PutRules(before, req.adapter, list)
      PROVE  /\ rules = list
             /\ \A b \in Adapters : b # req.adapter => RulesOn(job[w].after, b) = RulesOn(before, b)
  BY <1>1, <1>3, <1>7, Rearrange
<1>8. CASE req.op = "set"
  <2> DEFINE upserted == UpsertRule(given, req.rule)
             list == ArrangeRules(upserted, now)
  <2>1. job[w].after = PutRules(before, req.adapter, list)
    BY <1>3, <1>8 DEF LaidFor, LaidJob
  <2>2. NormalizePriority(req.priority) \in Nat
    BY <1>1, <1>8, RequestsAssumption DEF IsRequest, NormalizePriority
  <2>3. now = Put(order[k], req.rule.name, NormalizePriority(req.priority))
    BY <1>8 DEF WithPlace
  <2> HIDE DEF NormalizePriority
  <2>4. DOMAIN now = DOMAIN order[k] \union {req.rule.name} /\ \A n \in DOMAIN now : now[n] \in Nat
    BY <1>5, <2>2, <2>3 DEF Put
  <2>5. LaidWell(list, now, initial)
    BY <1>1, <1>4, <1>6, <2>4, SetLaidWell
  <2>6. IsRuleList(upserted) /\ req.rule \in RulesIn(upserted)
    BY <1>1, <1>4, Upserted
  <2>7. \A n \in DOMAIN now : now[n] \in Int
    BY <2>4
  <2> HIDE DEF upserted
  <2>8. IsRuleList(list) /\ RulesIn(list) = RulesIn(upserted)
    BY <2>6, <2>7, Arranged
  <2> HIDE DEF list
  <2>9. rules = list
    BY <1>7, <2>1, <2>8
  <2> QED
    BY <1>7, <2>1, <2>5, <2>6, <2>8, <2>9
<1>9. CASE req.op = "delete"
  <2> DEFINE rest == WithoutRule(given, req.rule.name)
             list == ArrangeRules(rest, now)
  <2>1. now = order[k]
    BY <1>9
  <2>2. job[w].after = PutRules(before, req.adapter, list)
    BY <1>3, <1>9, <2>1 DEF LaidFor, LaidJob
  <2>3. LaidWell(list, now, initial)
    BY <1>4, <1>5, <1>6, <2>1, DeleteLaidWell
  <2>4. IsRuleList(rest)
    BY <1>4, Without
  <2>5. \A n \in DOMAIN now : now[n] \in Int
    BY <1>5, <2>1
  <2> HIDE DEF rest
  <2>6. IsRuleList(list)
    BY <2>4, <2>5, Arranged
  <2> HIDE DEF list
  <2> QED
    BY <1>7, <1>9, <2>2, <2>3, <2>6
<1> QED
  BY <1>8, <1>9

LEMMA SaveLaid ==
  ASSUME Lossless, Sound, Quiet, NEW w \in Workers, LaidFor(job[w]), Save(w)
  PROVE  LaidFor(job[w])'
<1> DEFINE req == job[w].req
<1>1. /\ job[w].pc = "save" /\ req \in Requests /\ req.profile \in Profiles
      /\ \A p \in Profiles : p # req.profile => dsm'.stored[p] = dsm.stored[p]
      /\ job'[w] = Idle \/ Advanced(w, AfterSave(job[w]))
      /\ IF job'[w] = Idle THEN dsm' = dsm ELSE dsm'.stored[req.profile] = job[w].after
      /\ Planned(job[w])
  BY SaveMoves
<1>2. order' = order /\ promise' = promise
  BY DEF Save, Call, Goto, Fail
<1>3. Known'
  BY <1>2 DEF LaidFor, Known
<1>4. \A k \in Keys : ~Placing(job[w], k)
  BY <1>1 DEF Placing
<1>5. req.op \in {"set", "delete", "configure"} /\ req.adapter \in Adapters
  BY <1>1, RequestsAssumption DEF IsRequest
<1>6. CASE job'[w] = Idle
  <2>1. LaidJob(job[w])'
    BY <1>6 DEF LaidJob, Idle
  <2> QED
    BY <1>1, <1>2, <1>3, <1>4, <1>6, <2>1, RestLaid
<1>7. CASE job'[w] # Idle /\ req.op = "configure"
  <2>1. job'[w].req = req
    BY <1>1, <1>7 DEF Advanced
  <2>2. LaidJob(job[w])'
    BY <1>7, <2>1 DEF LaidJob
  <2>3. job[w].before = dsm.stored[req.profile]
    BY <1>1 DEF Sound, IInv, FreshRead, Quiet
  <2>4. job[w].after.rules = job[w].before.rules
    <3>1. job[w].after = [job[w].before EXCEPT !.policy = Overlay(job[w].before.policy, req.policy)]
          /\ IsProfile(job[w].before)
      BY <1>1, <1>7 DEF Planned
    <3> QED
      BY <1>1, <1>7, <3>1, Reconfigured
  <2>5. \A p \in Profiles :
           dsm'.stored[p] = dsm.stored[p] \/ dsm'.stored[p].rules = dsm.stored[p].rules
    BY <1>1, <1>7, <2>3, <2>4
  <2> QED
    BY <1>2, <1>3, <1>4, <2>2, <2>5, RestLaid
<1>8. CASE job'[w] # Idle /\ req.op # "configure"
  <2> DEFINE key == KeyOf(req)
             now == IF req.op = "set" THEN WithPlace(req) ELSE order[key]
             rules == RulesOn(job[w].after, req.adapter)
  <2>1. /\ LaidWell(rules, now, RulesOn(InitDsm.stored[req.profile], req.adapter))
        /\ req.op = "set" => req.rule \in RulesIn(rules)
        /\ \A b \in Adapters : b # req.adapter =>
              RulesOn(job[w].after, b) = RulesOn(dsm.stored[req.profile], b)
    BY <1>1, <1>5, <1>8, SavedLaid
  <2>2. /\ job'[w].pc \in {"apply", "verify"} /\ job'[w].req = req
        /\ dsm'.stored[req.profile] = job[w].after
    BY <1>1, <1>8 DEF Advanced, AfterSave
  <2>3. key \in Keys /\ key[1] = req.profile /\ key[2] = req.adapter
    BY <1>1, <1>5 DEF KeyOf, Keys
  <2>4. LaidWell(RulesOn(dsm'.stored[key[1]], key[2]), now, RulesOn(InitDsm.stored[key[1]], key[2]))
    BY <2>1, <2>2, <2>3
  <2>5. LaidJob(job[w])'
    <3>1. CASE req.op = "set"
      <4>1. WithPlace(job[w].req)' = now
        BY <1>2, <2>2, <3>1 DEF WithPlace, KeyOf
      <4>2. KeyOf(job[w].req)' = key
        BY <2>2 DEF KeyOf
      <4> HIDE DEF key, now
      <4>3. Laid(KeyOf(job[w].req), WithPlace(job[w].req))'
        BY <2>4, <4>1, <4>2 DEF Laid
      <4> QED
        BY <2>1, <2>2, <3>1, <4>3 DEF LaidJob
    <3>2. CASE req.op # "set"
      BY <2>2, <3>2 DEF LaidJob
    <3> QED
      BY <3>1, <3>2
  <2>6. ASSUME NEW k \in Keys, ~Placing(job'[w], k) PROVE Laid(k, order[k])'
    <3>1. CASE k = key
      <4>1. req.op # "set"
        BY <2>2, <2>6, <3>1 DEF Placing
      <4> QED
        BY <1>2, <2>4, <3>1, <4>1 DEF Laid
    <3>2. CASE k # key
      <4>1. k[1] \in Profiles /\ k[2] \in Adapters /\ k = <<k[1], k[2]>>
        BY DEF Keys
      <4>2. RulesOn(dsm'.stored[k[1]], k[2]) = RulesOn(dsm.stored[k[1]], k[2])
        BY <1>1, <2>1, <2>2, <3>2, <4>1 DEF KeyOf
      <4>3. Laid(k, order[k])
        BY <1>4 DEF LaidFor
      <4> QED
        BY <1>2, <4>2, <4>3 DEF Laid
    <3> QED
      BY <3>1, <3>2
  <2>7. \A k \in Keys : ~Placing(job[w], k)' => Laid(k, order[k])'
    BY <2>6 DEF Placing, KeyOf
  <2> QED
    BY <1>3, <2>5, <2>7 DEF LaidFor
<1> QED
  BY <1>6, <1>7, <1>8

LEMMA RenderLaid ==
  ASSUME Lossless, Sound, NEW w \in Workers, LaidFor(job[w]), Switch(w) \/ Apply(w)
  PROVE  LaidFor(job[w])'
<1> DEFINE req == job[w].req
<1>1. dsm'.stored = dsm.stored
  BY SwitchMoves, ApplyMoves
<1>2. order' = order /\ promise' = promise
  BY DEF Switch, Apply, Call, Goto, Fail
<1>3. Known'
  BY <1>2 DEF LaidFor, Known
<1>4. CASE Switch(w)
  <2>1. job[w].pc = "switch" /\ req.op = "configure"
        /\ (job'[w] = Idle \/ Advanced(w, AfterSwitch(job[w])))
    BY <1>4, SwitchMoves
  <2>2. LaidJob(job[w])'
    BY <2>1 DEF LaidJob, Advanced, Idle
  <2>3. \A k \in Keys : ~Placing(job[w], k)
    BY <2>1 DEF Placing
  <2> QED
    BY <1>1, <1>2, <1>3, <2>2, <2>3, RestLaid
<1>5. CASE Apply(w)
  <2>1. job[w].pc = "apply" /\ job'[w].pc = "verify" /\ job'[w].req = req
    BY <1>5, ApplyMoves DEF Advanced
  <2>2. LaidJob(job[w])'
    <3>1. CASE req.op = "set"
      <4>1. Laid(KeyOf(req), WithPlace(req))
            /\ req.rule \in RulesIn(RulesOn(dsm.stored[req.profile], req.adapter))
        BY <2>1, <3>1 DEF LaidFor, LaidJob
      <4>2. Laid(KeyOf(job[w].req), WithPlace(job[w].req))'
        BY <1>1, <1>2, <2>1, <4>1 DEF Laid, WithPlace, KeyOf
      <4> QED
        BY <1>1, <2>1, <4>1, <4>2 DEF LaidJob
    <3>2. CASE req.op # "set"
      BY <2>1, <3>2 DEF LaidJob
    <3> QED
      BY <3>1, <3>2
  <2>3. \A k \in Keys : Placing(job[w], k) => Placing(job'[w], k)
    BY <2>1 DEF Placing
  <2> QED
    BY <1>1, <1>2, <1>3, <2>2, <2>3, RestLaid
<1> QED
  BY <1>4, <1>5

----------------------------------------------------------------------------
\* The read-back puts into the record what was saved at its place.
LEMMA VerifiedLaid ==
  ASSUME EachRuleOnce, Sound, NEW w \in Workers, LaidFor(job[w]), Verified(w)
  PROVE  LaidFor(job[w])'
<1> DEFINE req == job[w].req
           key == KeyOf(req)
<1>1. /\ job[w].pc = "verify" /\ UNCHANGED dsm
      /\ promise' = Put(promise, ResourceOf(req), req)
      /\ order' = IF req.op = "set"
                  THEN [order EXCEPT ![key] =
                            Put(@, req.rule.name, NormalizePriority(req.priority))]
                  ELSE order
  BY DEF Verified, At, Succeed
<1>2. /\ req \in Requests
      /\ \A res \in DOMAIN promise : promise[res].op = "set" => res # ResourceOf(req)
  BY <1>1, Unrecorded DEF LaidFor, Inside
<1>3. job'[w] = Idle
  BY EndMoves
<1>4. LaidJob(job[w])'
  BY <1>3 DEF LaidJob, Idle
<1>5. CASE req.op # "set"
  <2>1. \A k \in Keys : ~Placing(job[w], k)
    BY <1>5 DEF Placing
  <2>2. Known'
    BY <1>1, <1>2, <1>5, StillKnown DEF LaidFor
  <2> QED
    BY <1>1, <1>4, <1>5, <2>1, <2>2, RestLaid
<1>6. CASE req.op = "set"
  <2>1. /\ key \in Keys /\ key[1] = req.profile /\ key[2] = req.adapter /\ DOMAIN order = Keys
        /\ ResourceOf(req) = <<req.profile, req.adapter, req.rule.name>>
    BY <1>2, <1>6, RequestsAssumption
    DEF IsRequest, KeyOf, Keys, ResourceOf, Sound, Data, Recordable
  <2>2. order'[key] = WithPlace(req) /\ \A k \in Keys : k # key => order'[k] = order[k]
    BY <1>1, <1>6, <2>1 DEF WithPlace
  <2>3. DOMAIN order'[key] = DOMAIN order[key] \union {req.rule.name}
    BY <2>2 DEF WithPlace, Put
  <2>4. \A res : res \in DOMAIN promise' /\ promise'[res].op = "set"
            <=> res = ResourceOf(req) \/ (res \in DOMAIN promise /\ promise[res].op = "set")
    BY <1>1, <1>6 DEF Put
  <2>5. Known'
    <3> SUFFICES ASSUME NEW k \in Keys, NEW n
                 PROVE  n \in DOMAIN order'[k] <=>
                           /\ <<k[1], k[2], n>> \in DOMAIN promise'
                           /\ promise'[<<k[1], k[2], n>>].op = "set"
      BY DEF Known
    <3>1. n \in DOMAIN order[k] <=>
             <<k[1], k[2], n>> \in DOMAIN promise /\ promise[<<k[1], k[2], n>>].op = "set"
      BY DEF LaidFor, Known
    <3>2. <<k[1], k[2], n>> = ResourceOf(req) <=> k = key /\ n = req.rule.name
      BY <2>1 DEF Keys
    <3> HIDE DEF req, key
    <3> QED
      BY <2>2, <2>3, <2>4, <3>1, <3>2
  <2>6. ASSUME NEW k \in Keys PROVE Laid(k, order[k])'
    <3>1. CASE k = key
      <4>1. Laid(key, WithPlace(req))
        BY <1>1, <1>6 DEF LaidFor, LaidJob
      <4> QED
        BY <1>1, <2>2, <3>1, <4>1 DEF Laid
    <3>2. CASE k # key
      <4>1. Laid(k, order[k])
        BY <3>2 DEF LaidFor, Placing
      <4> QED
        BY <1>1, <2>2, <3>2, <4>1 DEF Laid
    <3> QED
      BY <3>1, <3>2
  <2> QED
    BY <1>4, <2>5, <2>6 DEF LaidFor
<1> QED
  BY <1>5, <1>6

\* A set that was saved is found by its read-back, so one that comes to nothing was no set.
LEMMA UnverifiedLaid ==
  ASSUME NothingUnrecorded, Sound, NEW w \in Workers, LaidFor(job[w]),
         ReadFails(w) \/ NotPersisted(w)
  PROVE  LaidFor(job[w])'
<1> DEFINE req == job[w].req
<1>1. NotPersisted(w) /\ "stale" \notin Faults
  BY DEF NothingUnrecorded, ReadFails
<1>2. job[w].pc = "verify" /\ ~Persisted(req) /\ UNCHANGED <<dsm, order, promise>>
  BY <1>1 DEF NotPersisted, At, Fail
<1>3. req \in Requests /\ WellFormed
  BY <1>2 DEF Sound, Data, Operating, Requested, JobOK
<1>4. req.op # "set"
  <2> SUFFICES ASSUME req.op = "set" PROVE Persisted(req)
    BY <1>2
  <2>1. Holds(dsm.stored, dsm.settings, req)
    BY <1>2 DEF LaidFor, LaidJob, Holds, RuleHolds
  <2> QED
    BY <1>3, <2>1, PersistedHolds
<1>5. job'[w] = Idle
  BY EndMoves
<1>6. LaidJob(job[w])'
  BY <1>5 DEF LaidJob, Idle
<1>7. Known'
  BY <1>2 DEF LaidFor, Known
<1>8. \A k \in Keys : ~Placing(job[w], k)
  BY <1>4 DEF Placing
<1> QED
  BY <1>2, <1>6, <1>7, <1>8, RestLaid

LEMMA LockLaid ==
  ASSUME Sound, NEW w \in Workers, LaidFor(job[w]), LockAndReadSettings(w)
  PROVE  LaidFor(job[w])'
<1>1. UNCHANGED <<dsm, order, promise>> /\ job[w].pc = "queued" /\ job'[w].pc = "profile"
  BY LockMoves DEF LockAndReadSettings
<1>2. LaidJob(job[w])'
  BY <1>1 DEF LaidJob
<1>3. Known'
  BY <1>1 DEF LaidFor, Known
<1>4. \A k \in Keys : ~Placing(job[w], k)
  BY <1>1 DEF Placing
<1> QED
  BY <1>1, <1>2, <1>3, <1>4, RestLaid

LEMMA StepLaid ==
  ASSUME EachRuleOnce, NothingUnrecorded, Sound, LaidSoFar, NEW w \in Workers, Step(w)
  PROVE  LaidSoFar'
<1>1. Lossless
  BY DEF NothingUnrecorded, Lossless
<1>2. /\ \A v \in Workers : v # w => job'[v] = job[v] /\ job[v].pc \in Outside
  BY Others
<1>3. budget'.restarts = 0 /\ (Quiet' => Quiet)
  <2>1. budget' = budget \/ budget' = [budget EXCEPT !.retries = @ - 1]
    BY StepMoves DEF Fail
  <2> QED
    BY <2>1 DEF LaidSoFar, Quiet, Sound, IInv, ForeignBudget
<1>4. ASSUME Quiet PROVE LaidFor(job[w])
  <2>1. \A k \in Keys : ~Placing(job[w], k) => \A v \in Workers : ~Placing(job[v], k)
    BY <1>2 DEF Placing, Outside
  <2> QED
    BY <1>4, <2>1 DEF LaidSoFar, LaidFor
<1>5. ASSUME Quiet PROVE LaidFor(job[w])'
  BY <1>1, <1>4, <1>5, LockLaid, DecideSetLaid, DecideDeleteLaid, ConfigureLaid, SaveLaid,
     RenderLaid, VerifiedLaid, UnverifiedLaid DEF Step
<1>6. ASSUME NEW v \in Workers, v # w PROVE LaidJob(job[v])'
  BY <1>2, <1>6 DEF LaidJob, Outside
<1> QED
  BY <1>3, <1>5, <1>6 DEF LaidSoFar, LaidFor

LEMMA NextLaid ==
  ASSUME EachRuleOnce, NothingUnrecorded, Sound, LaidSoFar, [Next]_vars
  PROVE  LaidSoFar'
<1>1. ASSUME NEW w \in Workers, Step(w) PROVE LaidSoFar'
  BY <1>1, StepLaid
<1>2. ASSUME NEW w \in Workers, NEW req \in Requests, Start(w, req) PROVE LaidSoFar'
  <2>1. UNCHANGED <<dsm, order, promise, budget>>
    BY <1>2 DEF Start
  <2>2. /\ job[w].pc = "idle" /\ job'[w].pc = "queued"
        /\ \A v \in Workers : v # w => job'[v] = job[v]
    BY <1>2, StartMoves DEF Start, At
  <2>3. ASSUME Quiet, NEW v \in Workers PROVE LaidJob(job[v])'
    <3>1. LaidJob(job[v])
      BY <2>3 DEF LaidSoFar
    <3> QED
      BY <2>1, <2>2, <3>1 DEF LaidJob, Laid, WithPlace
  <2>4. ASSUME Quiet, NEW k \in Keys, \A v \in Workers : ~Placing(job'[v], k)
        PROVE  Laid(k, order[k])'
    <3>1. \A v \in Workers : ~Placing(job[v], k)
      BY <2>2, <2>4 DEF Placing
    <3>2. Laid(k, order[k])
      BY <2>4, <3>1 DEF LaidSoFar
    <3> QED
      BY <2>1, <3>2 DEF Laid
  <2>5. \A k \in Keys :
           (\A v \in Workers : ~Placing(job'[v], k)) <=> \A v \in Workers : ~Placing(job[v], k)'
    BY DEF Placing, KeyOf
  <2>6. Quiet => Known'
    BY <2>1 DEF LaidSoFar, Known
  <2> QED
    BY <2>1, <2>3, <2>4, <2>5, <2>6 DEF LaidSoFar, Quiet
<1>3. CASE ForeignSave
  <2>1. ~Quiet'
    BY <1>3, BoundsAssumption DEF ForeignSave, Quiet, Sound, IInv, ForeignBudget
  <2>2. budget'.restarts = 0
    BY <1>3 DEF ForeignSave, LaidSoFar, Sound, IInv, ForeignBudget
  <2> QED
    BY <2>1, <2>2 DEF LaidSoFar
<1>4. ~Restart
  BY DEF Restart, LaidSoFar
<1>5. CASE UNCHANGED vars
  BY <1>5 DEF vars, LaidSoFar, Quiet, Known, LaidJob, Laid, WithPlace, Placing
<1> QED
  BY <1>1, <1>2, <1>3, <1>4, <1>5 DEF Next, Terminating

LEMMA InitLaid == NothingUnrecorded /\ Init => LaidSoFar
<1> SUFFICES ASSUME NothingUnrecorded, Init PROVE LaidSoFar
  OBVIOUS
<1>1. ASSUME NEW k \in Keys PROVE Laid(k, order[k])
  <2>1. IsRuleList(RulesOn(InitDsm.stored[k[1]], k[2]))
    BY RulesOnProfile, DsmAssumption DEF Keys
  <2> QED
    BY <2>1, UntouchedLaidWell DEF Init, Laid
<1>2. Known
  BY DEF Init, Known
<1>3. \A w \in Workers : LaidJob(job[w])
  BY DEF Init, LaidJob, Idle
<1> QED
  BY <1>1, <1>2, <1>3 DEF LaidSoFar, Init, NothingUnrecorded

----------------------------------------------------------------------------
\* The record is what the completed writes asked for.
LEMMA RecordIsOrder ==
  ASSUME Sound, Quiet, Known, NEW k \in Keys, NEW desired, desired = PromisedOrder(k)
  PROVE  /\ DOMAIN desired = DOMAIN order[k]
         /\ \A n \in DOMAIN order[k] : desired[n] = order[k][n]
<1> DEFINE written == {res \in DOMAIN promise : promise[res].op = "set" /\ KeyOf(promise[res]) = k}
<1>1. /\ DOMAIN desired = {res[3] : res \in written}
      /\ \A n \in DOMAIN desired :
            desired[n] = NormalizePriority(promise[<<k[1], k[2], n>>].priority)
  BY DEF PromisedOrder
<1>2. ASSUME NEW res \in written PROVE res = <<k[1], k[2], res[3]>>
  <2>1. ResourceOf(promise[res]) = res /\ promise[res].op = "set"
    BY DEF Sound, Operating, Requested
  <2> QED
    BY <2>1 DEF ResourceOf, KeyOf
<1>3. ASSUME NEW n, <<k[1], k[2], n>> \in DOMAIN promise, promise[<<k[1], k[2], n>>].op = "set"
      PROVE  n \in {res[3] : res \in written}
  <2> DEFINE res == <<k[1], k[2], n>>
  <2>1. ResourceOf(promise[res]) = res
    BY <1>3 DEF Sound, Operating, Requested
  <2>2. k = <<k[1], k[2]>>
    BY DEF Keys
  <2>3. KeyOf(promise[res]) = k
    BY <1>3, <2>1, <2>2 DEF ResourceOf, KeyOf
  <2> QED
    BY <1>3, <2>3
<1>4. ASSUME NEW n \in {res[3] : res \in written}
      PROVE  <<k[1], k[2], n>> \in DOMAIN promise /\ promise[<<k[1], k[2], n>>].op = "set"
  <2>1. PICK res \in written : n = res[3]
    OBVIOUS
  <2> QED
    BY <1>2, <2>1
<1>5. DOMAIN desired = DOMAIN order[k]
  BY <1>1, <1>3, <1>4 DEF Known
<1>6. ASSUME NEW n \in DOMAIN order[k]
      PROVE  order[k][n] = NormalizePriority(promise[<<k[1], k[2], n>>].priority)
  BY DEF Known, Sound, Data, Faithful, Backed
<1> HIDE DEF written
<1> QED
  BY <1>1, <1>5, <1>6

\* Whichever order the writes arrive in, whatever is rejected or refused in between and as
\* long as DSM's own interface saves nothing, every rule that SetFirewallRule reported as
\* written is where arrangeFirewallRules says its priority puts it, and the rules that nobody
\* manages are in the order they were found in.
THEOREM LaidOutAsAsked ==
  ASSUME EachRuleOnce, NothingUnrecorded
  PROVE  Spec => []LaidOutAsConfigured
<1>1. Init => LaidSoFar
  BY InitLaid
<1>2. Sound /\ LaidSoFar /\ [Next]_vars => LaidSoFar'
  BY NextLaid
<1>3. Sound /\ LaidSoFar => LaidOutAsConfigured
  <2> SUFFICES ASSUME Sound, LaidSoFar, Busy = {}, Quiet, NEW k \in Keys,
                      NEW desired, desired = PromisedOrder(k)
               PROVE  LaidOut(RulesOn(dsm.stored[k[1]], k[2]), desired,
                              RulesOn(InitDsm.stored[k[1]], k[2]))
    BY DEF LaidOutAsConfigured, Quiet
  <2>1. k[1] \in Profiles
    BY DEF Keys
  <2>2. \A w \in Workers : ~Placing(job[w], k)
    BY DEF Busy, Placing
  <2>3. Known /\ Laid(k, order[k])
    BY <2>2 DEF LaidSoFar
  <2>4. /\ DOMAIN desired = DOMAIN order[k]
        /\ \A n \in DOMAIN order[k] : desired[n] = order[k][n]
    BY <2>3, RecordIsOrder
  <2>5. \A n \in DOMAIN order[k] : order[k][n] \in Int
    BY DEF Sound, Data, Recordable
  <2>6. /\ IsRuleList(RulesOn(dsm.stored[k[1]], k[2]))
        /\ IsRuleList(RulesOn(InitDsm.stored[k[1]], k[2]))
    BY <2>1, RulesOnProfile, DsmAssumption DEF Sound, Data, WellFormed
  <2>7. LaidWell(RulesOn(dsm.stored[k[1]], k[2]), desired, RulesOn(InitDsm.stored[k[1]], k[2]))
    BY <2>3, <2>4, <2>5, <2>6, SameRecord DEF Laid
  <2> QED
    BY <2>6, <2>7, LaidWellOut
<1> QED
  BY InitSound, StepSound, <1>1, <1>2, <1>3, PTL DEF Spec

----------------------------------------------------------------------------
(***************************************************************************)
(* The rules of a firewall profile.  A selector may have any group and any *)
(* value, and the fields the client does not manage may hold anything.     *)
(***************************************************************************)
Values(Things) == [form : STRING, is : Things, spelled : STRING]
Selectors(Things) == [group : STRING, value : Values(Things)]
WireRules(Things) ==
    [name : Things, enable : BOOLEAN, policy : PoliciesOnTheWire, protocol : STRING,
     ports : Selectors(Things), source : Selectors(Things), other : Things]

\* What an untouched rule starts from is what was read of it.
LEMMA FromRaw ==
    ASSUME NEW w, NEW ports, NEW source
    PROVE  From(Parsed(w, ports, source)) = w
BY DEF From, Parsed

\* A rule nobody touched is sent back exactly as DSM sent it, whatever it selects on and
\* however that is spelled - provided that its policy is allow or drop and its protocol is
\* one of the four the provider models.  Otherwise it is changed by every write of the
\* profile (FirewallRule.toWireAdapterKeyed): the protocol becomes "all", the policy "drop".
THEOREM UntouchedIsSentBack ==
    ASSUME NEW Things, NEW w \in WireRules(Things)
    PROVE  RenderRule(ParseRule(w)) = w
              <=> w.policy \in {"allow", "drop"} /\ w.protocol \in Protocols
<1> DEFINE r == ParseRule(w)
<1>1. From(r) = w
  BY FromRaw DEF ParseRule
<1>2. /\ r.raw = {w} /\ r.name = w.name /\ r.enabled = w.enable
      /\ r.action = ActionFromWire(w.policy) /\ r.protocol = ProtocolFromWire(w.protocol)
      /\ r.ports = ParsePorts(w.ports) /\ r.source = ParseSource(w.source)
  BY DEF ParseRule, Parsed
<1>3. PortsUnchanged(r) /\ SourceUnchanged(r)
  BY <1>2 DEF PortsUnchanged, SourceUnchanged
<1>4. RenderRule(r) =
        [w EXCEPT !.name = w.name, !.enable = w.enable,
                  !.policy = PolicyToWire(ActionFromWire(w.policy)),
                  !.protocol = ProtocolFromWire(w.protocol),
                  !.ports = w.ports, !.source = w.source]
  BY <1>1, <1>2, <1>3 DEF RenderRule, RenderedAs
<1>5. PolicyToWire(ActionFromWire(w.policy)) = w.policy <=> w.policy \in {"allow", "drop"}
  BY DEF PolicyToWire, ActionFromWire, PoliciesOnTheWire, WireRules
<1>6. ProtocolFromWire(w.protocol) = w.protocol <=> w.protocol \in Protocols
  BY DEF ProtocolFromWire, Protocols
<1>7. RenderRule(r) = w <=> /\ PolicyToWire(ActionFromWire(w.policy)) = w.policy
                            /\ ProtocolFromWire(w.protocol) = w.protocol
  BY <1>4 DEF WireRules
<1> QED
  BY <1>5, <1>6, <1>7

\* Of a rule DSM keeps in the encoding on disk every selector is rendered anew: the rule
\* then does what it did, provided that a list of ports or a set of addresses is not empty.
THEOREM OnDiskMeansTheSame ==
    ASSUME NEW Things, NEW w \in WireRules(Things),
           w.policy \in {"allow", "drop"}, w.protocol \in Protocols,
           w.ports.value.form = "any" => w.ports = Everything,
           w.ports.group = "all" => w.ports = Everything,
           w.source.value.form = "any" => w.source = Everything,
           w.source.group = "all" => w.source = Everything
    PROVE  Meaning(RenderRuleOnDisk(ParseRuleOnDisk(w))) = Meaning(w)
<1> DEFINE r == ParseRuleOnDisk(w)
           ports == IF r.ports.modelled THEN PortsToWire(r.ports.value) ELSE w.ports
           source == IF r.source.modelled THEN SourceToWireOnDisk(r.source.value) ELSE w.source
<1>1. From(r) = w
  BY FromRaw DEF ParseRuleOnDisk
<1>2. /\ r.name = w.name /\ r.enabled = w.enable
      /\ r.action = ActionFromWire(w.policy) /\ r.protocol = ProtocolFromWire(w.protocol)
      /\ r.ports = ParsePortsOnDisk(w.ports) /\ r.source = ParseSourceOnDisk(w.source)
  BY DEF ParseRuleOnDisk, Parsed
<1>3. /\ PolicyToWire(ActionFromWire(w.policy)) = w.policy
      /\ ProtocolFromWire(w.protocol) = w.protocol
  BY DEF PolicyToWire, ActionFromWire, PoliciesOnTheWire, ProtocolFromWire
<1>4. RenderRuleOnDisk(r) =
        [w EXCEPT !.name = w.name, !.enable = w.enable, !.policy = w.policy,
                  !.protocol = w.protocol, !.ports = ports, !.source = source]
  BY <1>1, <1>2, <1>3 DEF RenderRuleOnDisk, RenderedAs
<1>5. Selects(ports) = Selects(w.ports)
  <2> w.ports \in [group : STRING, value : [form : STRING, is : Things, spelled : STRING]]
    BY DEF WireRules, Selectors, Values
  <2>1. CASE w.ports.group = "all"
    BY <1>2, <2>1 DEF ParsePortsOnDisk, Modelled, PortsToWire, Selects, Everything, Any
  <2>2. CASE w.ports.group = "custom" /\ w.ports.value.form \in {"any", "ports"}
    <3>1. w.ports.value.form = "ports"
      BY <2>2 DEF Everything
    <3>2. r.ports = Modelled(w.ports.value)
      BY <1>2, <2>2 DEF ParsePortsOnDisk
    <3>3. ports = [group |-> "custom", value |-> w.ports.value]
      BY <3>1, <3>2 DEF Modelled, PortsToWire
    <3> QED BY <2>2, <3>3 DEF Selects
  <2>3. CASE /\ ~ (w.ports.group = "all")
             /\ ~ (w.ports.group = "custom" /\ w.ports.value.form \in {"any", "ports"})
    <3>1. r.ports = Unmodelled
      BY <1>2, <2>3 DEF ParsePortsOnDisk
    <3> QED BY <3>1 DEF Unmodelled
  <2> QED BY <2>1, <2>2, <2>3
<1>6. Selects(source) = Selects(w.source)
  <2> DEFINE s == w.source
  <2>0. s \in [group : STRING, value : [form : STRING, is : Things, spelled : STRING]]
    BY DEF WireRules, Selectors, Values
  <2>1. CASE s.group = "all"
    BY <1>2, <2>1 DEF ParseSourceOnDisk, Modelled, SourceToWireOnDisk, Selects, Everything, Any
  <2>2. CASE \/ s.group = "ipset" /\ s.value.form \in {"ip", "ipset"}
             \/ s.group \in {"ip", "iprange", "netmask"} /\ s.value.form = s.group
    <3>1. r.source = Modelled(s.value)
      BY <1>2, <2>2 DEF ParseSourceOnDisk
    <3>2. source = [group |-> s.value.form, value |-> Canonical(s.value)]
      BY <2>2, <3>1 DEF Modelled, SourceToWireOnDisk
    <3>3. Canonical(s.value).is = s.value.is
      BY <2>0 DEF Canonical
    <3> QED BY <2>2, <3>2, <3>3 DEF Selects
  <2>3. CASE ~ (\/ s.group = "all"
                \/ s.group = "ipset" /\ s.value.form \in {"any", "ip", "ipset"}
                \/ s.group \in {"ip", "iprange", "netmask"} /\ s.value.form = s.group)
    <3>1. r.source = Unmodelled
      BY <1>2, <2>3 DEF ParseSourceOnDisk
    <3> QED BY <3>1 DEF Unmodelled
  <2>4. ~ (s.group = "ipset" /\ s.value.form = "any")
    BY DEF Everything
  <2> QED BY <2>1, <2>2, <2>3, <2>4
<1> QED
  <2> HIDE DEF r, ports, source
  <2>1. /\ RenderRuleOnDisk(r).enable = w.enable /\ RenderRuleOnDisk(r).policy = w.policy
        /\ RenderRuleOnDisk(r).protocol = w.protocol /\ RenderRuleOnDisk(r).other = w.other
        /\ RenderRuleOnDisk(r).ports = ports /\ RenderRuleOnDisk(r).source = source
    BY <1>4 DEF WireRules
  <2>2. Meaning(RenderRuleOnDisk(r)) = Meaning(w)
    BY <1>5, <1>6, <2>1 DEF Meaning
  <2> QED BY <2>2 DEF r

\* What a rule may be configured to be, before a rule of its name has been read or after.
PortValues(Things) ==
    {Any} \union [form : {"ports"}, is : Things, spelled : {"canonical", "colon"}]
SourceValues(Things) ==
    {Any} \union [form : {"ip", "ipset", "iprange", "netmask"}, is : Things,
                  spelled : {"canonical", "spaced", "loose"}]
ConfiguredRules(Things) ==
    [name : Things, enabled : BOOLEAN, action : {"allow", "deny"}, protocol : Protocols,
     ports : [modelled : {TRUE}, value : PortValues(Things)],
     source : [modelled : {TRUE}, value : SourceValues(Things)],
     raw : SUBSET WireRules(Things)]

\* The fields of a rendered rule.
LEMMA RenderedFields ==
    ASSUME NEW Things, NEW r \in ConfiguredRules(Things)
    PROVE  /\ r.raw # {} => From(r) \in r.raw
           /\ RenderRule(r).name = r.name
           /\ RenderRule(r).enable = r.enabled
           /\ RenderRule(r).policy = PolicyToWire(r.action)
           /\ RenderRule(r).protocol = r.protocol
           /\ RenderRule(r).ports = IF PortsUnchanged(r) THEN From(r).ports
                                    ELSE PortsToWire(r.ports.value)
           /\ RenderRule(r).source = IF SourceUnchanged(r) THEN From(r).source
                                     ELSE SourceToWire(r.source.value)
<1>1. r.raw # {} => From(r) \in r.raw
  BY DEF From
<1>2. From(r) = Blank \/ From(r) \in WireRules(Things)
  BY <1>1 DEF ConfiguredRules, From
<1>3. \A n, e, p, q, x, y :
         LET w == [From(r) EXCEPT !.name = n, !.enable = e, !.policy = p, !.protocol = q,
                                  !.ports = x, !.source = y]
         IN  /\ w.name = n /\ w.enable = e /\ w.policy = p /\ w.protocol = q
             /\ w.ports = x /\ w.source = y
  <2>1. CASE From(r) = Blank
    BY <2>1 DEF Blank
  <2>2. CASE From(r) \in WireRules(Things)
    BY <2>2 DEF WireRules
  <2> QED BY <1>2, <2>1, <2>2
<1>4. r.ports.modelled = TRUE /\ r.source.modelled = TRUE
  BY DEF ConfiguredRules
<1> QED
  BY <1>1, <1>3, <1>4 DEF RenderRule, RenderedAs

\* The ports of a rule as they are read back.
LEMMA PortsReadBack ==
    ASSUME NEW Things, NEW r \in ConfiguredRules(Things), r.raw = {} \/ \E w : r.raw = {w}
    PROVE  ParsePorts(RenderRule(r).ports) = Modelled(Canonical(r.ports.value))
<1> DEFINE v == r.ports.value
<1>1. r.ports = Modelled(v) /\ v \in PortValues(Things)
  BY DEF ConfiguredRules, Modelled
<1>2. CASE PortsUnchanged(r)
  <2>1. PICK w \in r.raw : ParsePorts(w.ports) = r.ports
    BY <1>2 DEF PortsUnchanged
  <2>2. w \in WireRules(Things) /\ From(r) = w
    BY <2>1, RenderedFields DEF ConfiguredRules
  <2>3. v = Canonical(v)
    <3>1. w.ports.value \in [form : STRING, is : Things, spelled : STRING]
      BY <2>2 DEF WireRules, Selectors, Values
    <3>2. v = Any \/ v = Canonical(w.ports.value)
      BY <1>1, <2>1 DEF ParsePorts, Modelled, Unmodelled
    <3>3. Canonical(Any) = Any
      BY DEF Canonical, Any
    <3>4. Canonical(Canonical(w.ports.value)) = Canonical(w.ports.value)
      BY <3>1 DEF Canonical
    <3> QED BY <3>2, <3>3, <3>4
  <2> QED BY <1>1, <1>2, <2>1, <2>2, <2>3, RenderedFields
<1>3. CASE ~ PortsUnchanged(r)
  <2>1. RenderRule(r).ports = PortsToWire(v)
    BY <1>3, RenderedFields
  <2>2. CASE v = Any
    BY <2>1, <2>2 DEF PortsToWire, ParsePorts, Everything, Any, Canonical
  <2>3. CASE v \in [form : {"ports"}, is : Things, spelled : {"canonical", "colon"}]
    BY <2>1, <2>3 DEF PortsToWire, ParsePorts
  <2> QED BY <1>1, <2>2, <2>3 DEF PortValues
<1> QED
  BY <1>2, <1>3

\* The source of a rule as it is read back: another spelling of it at most.
LEMMA SourceReadBack ==
    ASSUME NEW Things, NEW r \in ConfiguredRules(Things), r.raw = {} \/ \E w : r.raw = {w}
    PROVE  \E u : /\ ParseSource(RenderRule(r).source) = Modelled(u)
                  /\ u = r.source.value \/ u = Canonical(r.source.value)
<1> DEFINE v == r.source.value
<1>1. r.source = Modelled(v) /\ v \in SourceValues(Things)
  BY DEF ConfiguredRules, Modelled
<1>2. CASE SourceUnchanged(r)
  <2>1. PICK w \in r.raw : ParseSource(w.source) = r.source
    BY <1>2 DEF SourceUnchanged
  <2>2. From(r) = w
    BY <2>1, RenderedFields
  <2> QED BY <1>1, <1>2, <2>1, <2>2, RenderedFields
<1>3. CASE ~ SourceUnchanged(r)
  <2>1. RenderRule(r).source = SourceToWire(v)
    BY <1>3, RenderedFields
  <2>2. CASE v = Any
    BY <2>1, <2>2 DEF SourceToWire, ParseSource, Everything, Any
  <2>3. CASE v \in [form : {"ip", "ipset", "iprange", "netmask"}, is : Things,
                    spelled : {"canonical", "spaced", "loose"}]
    <3>1. CASE v.form = "iprange" \/ v.spelled = "spaced"
      <4>1. /\ Canonical(v).form = v.form /\ Canonical(v).spelled = "canonical"
            /\ v.form # "any"
        BY <2>3 DEF Canonical
      <4>2. RenderRule(r).source = [group |-> v.form, value |-> Canonical(v)]
        BY <2>1, <3>1, <4>1 DEF SourceToWire
      <4> QED BY <2>3, <4>1, <4>2 DEF ParseSource
    <3>2. CASE ~ (v.form = "iprange" \/ v.spelled = "spaced")
      <4>1. RenderRule(r).source = [group |-> v.form, value |-> v]
        BY <2>1, <2>3, <3>2 DEF SourceToWire
      <4> QED BY <2>3, <3>2, <4>1 DEF ParseSource
    <3> QED BY <2>3, <3>1, <3>2
  <2> QED BY <1>1, <2>2, <2>3 DEF SourceValues
<1> QED
  BY <1>2, <1>3

\* A rule that DSM stores as it was sent is confirmed by the read-back, however its source is
\* spelled and whatever rule it replaces - provided that no range of its ports is spelled with a
\* colon: such a rule is stored, in force, and reported as not persisted every time
\* (firewallRuleMismatches compares what was configured with what the parser made of it).
THEOREM ConfirmedUnlessColon ==
    ASSUME NEW Things, NEW r \in ConfiguredRules(Things), r.raw = {} \/ \E w : r.raw = {w}
    PROVE  Mismatches(r, ParseRule(RenderRule(r))) = {} <=> r.ports.value.spelled # "colon"
<1> DEFINE got == ParseRule(RenderRule(r))
           v == r.ports.value
<1>1. /\ got.enabled = RenderRule(r).enable
      /\ got.action = ActionFromWire(RenderRule(r).policy)
      /\ got.protocol = ProtocolFromWire(RenderRule(r).protocol)
      /\ got.ports = ParsePorts(RenderRule(r).ports)
      /\ got.source = ParseSource(RenderRule(r).source)
  BY DEF ParseRule, Parsed
<1>2. r.enabled = got.enabled /\ r.action = got.action /\ r.protocol = got.protocol
  <2>1. /\ RenderRule(r).enable = r.enabled
        /\ RenderRule(r).policy = PolicyToWire(r.action)
        /\ RenderRule(r).protocol = r.protocol
    BY RenderedFields
  <2>2. r.action \in {"allow", "deny"} /\ r.protocol \in Protocols
    BY DEF ConfiguredRules
  <2>3. ActionFromWire(PolicyToWire(r.action)) = r.action
    BY <2>2 DEF ActionFromWire, PolicyToWire, PoliciesOnTheWire
  <2>4. ProtocolFromWire(r.protocol) = r.protocol
    BY <2>2 DEF ProtocolFromWire
  <2> HIDE DEF got
  <2> QED BY <1>1, <2>1, <2>3, <2>4
<1>3. \A f \in {"enabled", "action", "protocol"} : r[f] = got[f]
  BY <1>2
<1>4. PICK u : /\ got.source = Modelled(u)
               /\ u = r.source.value \/ u = Canonical(r.source.value)
  BY <1>1, SourceReadBack
<1>5. SourceToWireOnDisk(r.source.value) = SourceToWireOnDisk(u)
  <2>1. CASE r.source.value = Any
    BY <1>4, <2>1 DEF SourceToWireOnDisk, Canonical, Any
  <2>2. CASE r.source.value \in [form : {"ip", "ipset", "iprange", "netmask"}, is : Things,
                                 spelled : {"canonical", "spaced", "loose"}]
    BY <1>4, <2>2 DEF SourceToWireOnDisk, Canonical
  <2> QED BY <2>1, <2>2 DEF ConfiguredRules, SourceValues
<1>6. got.ports = Modelled(Canonical(v)) /\ v \in PortValues(Things) /\ r.ports.modelled
  BY <1>1, PortsReadBack DEF ConfiguredRules
<1>7. PortsToWire(v) = PortsToWire(Canonical(v)) <=> v.spelled # "colon"
  <2>1. CASE v = Any
    BY <2>1 DEF PortsToWire, Canonical, Any
  <2>2. CASE v \in [form : {"ports"}, is : Things, spelled : {"canonical", "colon"}]
    BY <2>2 DEF PortsToWire, Canonical
  <2> QED BY <1>6, <2>1, <2>2 DEF PortValues
<1>8. Mismatches(r, got) = {} <=> PortsToWire(v) = PortsToWire(Canonical(v))
  <2> HIDE DEF got
  <2>1. got.ports.modelled /\ got.ports.value = Canonical(v) /\ got.source.value = u
    BY <1>4, <1>6 DEF Modelled
  <2> QED BY <1>3, <1>5, <1>6, <2>1 DEF Mismatches
<1> QED
  BY <1>7, <1>8

\* A write that adds, replaces or deletes a rule of one adapter leaves what DSM stores for every
\* other adapter as it is, and one that sets a policy leaves the rules of every adapter, if the
\* provider models the protocols and policies there (FirewallProfile.toWireAdapterKeyed renders
\* every adapter).
THEOREM OtherAdaptersAreLeft ==
    ASSUME NEW Things,
           NEW profile \in [Adapters -> [rules : Seq(WireRules(Things)), unreadable : Nat]],
           NEW a, NEW rules, NEW b \in Adapters,
           b = a => rules = ParseRules(profile[b].rules),
           \A i \in DOMAIN profile[b].rules :
              /\ profile[b].rules[i].policy \in {"allow", "drop"}
              /\ profile[b].rules[i].protocol \in Protocols
    PROVE  WithRules(profile, a, rules)[b] = profile[b]
<1> DEFINE list == profile[b].rules
<1>1. WithRules(profile, a, rules)[b]
        = [profile[b] EXCEPT !.rules = RenderRules(ParseRules(list))]
  BY DEF WithRules
<1>2. RenderRules(ParseRules(list)) = [i \in DOMAIN list |-> RenderRule(ParseRule(list[i]))]
  BY DEF RenderRules, ParseRules
<1>3. ASSUME NEW i \in DOMAIN list PROVE RenderRule(ParseRule(list[i])) = list[i]
  <2>1. list[i] \in WireRules(Things)
    OBVIOUS
  <2> QED BY <2>1, UntouchedIsSentBack
<1>4. list \in Seq(WireRules(Things))
  OBVIOUS
<1>5. [i \in DOMAIN list |-> list[i]] = list
  BY <1>4
<1>6. RenderRules(ParseRules(list)) = list
  BY <1>2, <1>3, <1>5
<1> QED
  BY <1>1, <1>6

\* A profile is written in the shape it was read in (issue #130), the hybrid one included, in
\* which a DSM 7 repeats the two names of the other shape; a profile in the shape on disk that is
\* emptied keeps it only if it has no block (parseFirewallProfile, FirewallProfile.toWire).
THEOREM ShapeIsKept ==
    ASSUME NEW answer \in [blocks : SUBSET Adapters,
                           rules : {"absent", "empty", "block", "map"},
                           policies : {"absent", "empty", "block", "map"}],
           ShapeOf(answer) # "unrecognised",
           NEW withRules \in SUBSET Adapters, NEW withPolicies \in SUBSET Adapters,
           withRules \union withPolicies = {} => answer.blocks = {}
    PROVE  ShapeOf(WriteProfile(answer, withRules, withPolicies)) = ShapeOf(answer)
<1> DEFINE sent == WriteProfile(answer, withRules, withPolicies)
<1>1. CASE ShapeOf(answer) = "adapter-keyed"
  <2>1. /\ sent.blocks = answer.blocks \union withRules \union withPolicies
        /\ sent.rules = answer.rules /\ sent.policies = answer.policies
    BY <1>1 DEF WriteProfile
  <2>2. ~ OnDisk(answer) /\ answer.blocks # {}
    BY <1>1 DEF ShapeOf
  <2> QED BY <2>1, <2>2 DEF ShapeOf, OnDisk
<1>2. CASE ShapeOf(answer) # "adapter-keyed"
  <2>1. /\ sent.blocks = answer.blocks
        /\ sent.rules = IF withRules = {} THEN "empty" ELSE "map"
        /\ sent.policies = IF withPolicies = {} THEN "empty" ELSE "map"
    BY <1>2 DEF WriteProfile
  <2>2. ShapeOf(answer) = "rules map"
    BY <1>2 DEF ShapeOf
  <2> QED BY <2>1, <2>2 DEF ShapeOf, OnDisk
<1> QED
  BY <1>1, <1>2
=============================================================================
