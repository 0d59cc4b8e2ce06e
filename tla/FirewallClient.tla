--------------------------- MODULE FirewallClient ---------------------------
(***************************************************************************)
(* The firewall half of the DSM client: SetFirewallRule and                *)
(* DeleteFirewallRule (client/firewall.go), SetFirewall                    *)
(* (client/firewall_settings.go), the process-wide priority record, and the*)
(* DSM they talk to.                                                       *)
(*                                                                         *)
(* Workers are Terraform's concurrent resource operations.  Every API call *)
(* is a step of its own, so that another worker, DSM's own web interface   *)
(* or the end of the process can come between any two.                     *)
(***************************************************************************)
EXTENDS FirewallGuard

CONSTANTS
    Workers, Profiles, Adapters,
    Requests,       \* the operations the configuration asks for
    InitDsm,        \* DSM's state to begin with: [settings, stored, live]
    ForeignWrites,  \* <<profile name, profile>> pairs DSM's UI may save
    Faults,         \* what may go wrong, a subset of FaultKinds
    MaxRetries,     \* bound: how many failed operations are run again
    MaxRestarts,    \* bound: how many times the provider process ends
    MaxForeign      \* bound: how many times DSM's UI saves

FaultKinds == {"read", "save", "ignored", "lost", "switch", "apply", "stale"}

NoOne == "no one"

IsProfile(profile) ==
    /\ DOMAIN profile = {"rules", "policy"}
    /\ DOMAIN profile.rules \subseteq Adapters
    /\ DOMAIN profile.policy \subseteq Adapters
    /\ \A a \in DOMAIN profile.policy : profile.policy[a] \in Policies
    /\ \A a \in DOMAIN profile.rules : IsRuleList(profile.rules[a])

IsRequest(req) ==
    /\ req.op \in {"set", "delete", "configure"}
    /\ req.profile \in Profiles
    /\ req.adapter \in Adapters
    /\ req.op # "configure" => req.rule \in [name : Int, effect : Effects]
    /\ req.op = "set" => req.priority \in Int
    /\ req.op = "configure" =>
          /\ req.enabled \in BOOLEAN
          /\ DOMAIN req.policy \subseteq Adapters
          /\ \A a \in DOMAIN req.policy : req.policy[a] \in Policies

ASSUME FaultsAssumption == Faults \subseteq FaultKinds
ASSUME WorkersAssumption == NoOne \notin Workers
ASSUME BoundsAssumption == MaxRetries \in Nat /\ MaxRestarts \in Nat /\ MaxForeign \in Nat
ASSUME RequestsAssumption == \A req \in Requests : IsRequest(req)
ASSUME ForeignAssumption == \A pw \in ForeignWrites : pw[1] \in Profiles /\ IsProfile(pw[2])

\* The state DSM is found in, and the switch and active profile in it.
ASSUME DsmAssumption ==
    /\ DOMAIN InitDsm = {"settings", "stored", "live"}
    /\ InitDsm.settings \in [enabled : BOOLEAN, active : Profiles]
    /\ DOMAIN InitDsm.stored = Profiles
    /\ \A p \in Profiles : IsProfile(InitDsm.stored[p])
    /\ IsProfile(InitDsm.live)

VARIABLES
    dsm,      \* settings, the stored profiles, and the profile in force
    order,    \* firewallRuleOrder: <<profile, adapter>> -> name -> priority
    mu,       \* holder of Client.mu
    job,      \* where each worker is in its operation
    todo,     \* operations not yet run, or to be run again
    budget,   \* what is left of the bounds
    promise   \* each resource's last completed operation, while it stands

vars == <<dsm, order, mu, job, todo, budget, promise>>

Keys == Profiles \X Adapters

\* The Terraform resource an operation belongs to: operations of one resource
\* never run concurrently.
ResourceOf(req) == IF req.op = "configure" THEN <<"firewall">>
                   ELSE <<req.profile, req.adapter, req.rule.name>>

KeyOf(req) == <<req.profile, req.adapter>>

Idle == [pc |-> "idle"]

Busy == {w \in Workers : job[w].pc # "idle"}

\* A map with an entry put in, or with one taken out, or laid over another.
Put(f, x, value) == [y \in DOMAIN f \union {x} |-> IF y = x THEN value ELSE f[y]]

Drop(f, x) == [y \in DOMAIN f \ {x} |-> f[y]]

Overlay(f, g) ==
    [y \in DOMAIN f \union DOMAIN g |-> IF y \in DOMAIN g THEN g[y] ELSE f[y]]

PutRules(profile, adapter, rules) ==
    [profile EXCEPT !.rules = Put(profile.rules, adapter, rules)]

Init ==
    /\ dsm = InitDsm
    /\ order = [k \in Keys |-> <<>>]
    /\ mu = NoOne
    /\ job = [w \in Workers |-> Idle]
    /\ todo = Requests
    /\ budget = [retries |-> MaxRetries, restarts |-> MaxRestarts, foreign |-> MaxForeign]
    /\ promise = <<>>

----------------------------------------------------------------------------
(***************************************************************************)
(* How an operation ends.  The deferred unlock runs on every path.  A      *)
(* completed operation's outcome is what Terraform records; one that did   *)
(* not complete may be run again by a later apply.  Committing to a write  *)
(* puts the resource's earlier promise in doubt; a refusal does not.       *)
(***************************************************************************)
Succeed(w) ==
    /\ job' = [job EXCEPT ![w] = Idle]
    /\ mu' = NoOne
    /\ promise' = Put(promise, ResourceOf(job[w].req), job[w].req)
    /\ UNCHANGED <<todo, budget>>

\* Mutant: a failure keeps the lock.
FailLocked(w) ==
    /\ job' = [job EXCEPT ![w] = Idle]
    /\ UNCHANGED <<mu, todo, budget, promise>>

Fail(w) ==
    /\ job' = [job EXCEPT ![w] = Idle]
    /\ mu' = NoOne
    /\ \/ UNCHANGED <<todo, budget>>
       \/ /\ budget.retries > 0
          /\ budget' = [budget EXCEPT !.retries = @ - 1]
          /\ todo' = todo \union {job[w].req}
    /\ UNCHANGED promise

\* Mutant: the lock covers the reads only.
CommitUnlocked(w, j) ==
    /\ job' = [job EXCEPT ![w] = j]
    /\ mu' = NoOne
    /\ promise' = Drop(promise, ResourceOf(j.req))
    /\ UNCHANGED <<todo, budget>>

Commit(w, j) ==
    /\ job' = [job EXCEPT ![w] = j]
    /\ promise' = Drop(promise, ResourceOf(j.req))
    /\ UNCHANGED <<mu, todo, budget>>

Goto(w, pc) ==
    /\ job' = [job EXCEPT ![w].pc = pc]
    /\ UNCHANGED <<mu, todo, budget, promise>>

At(w, pc) == job[w].pc = pc

\* Terraform starts an operation on a free worker.
Start(w, req) ==
    /\ At(w, "idle")
    /\ req \in todo
    /\ \A v \in Busy : ResourceOf(job[v].req) # ResourceOf(req)
    /\ job' = [job EXCEPT ![w] = [pc |-> "queued", req |-> req]]
    /\ todo' = todo \ {req}
    /\ UNCHANGED <<dsm, order, mu, budget, promise>>

\* Mutant: nobody waits for the lock.
MuIgnored == TRUE

MuFree == mu = NoOne

\* Client.mu is taken and the settings are read.
LockAndReadSettings(w) ==
    /\ At(w, "queued")
    /\ MuFree
    /\ mu' = w
    /\ job' = [job EXCEPT ![w] = [pc |-> "profile", req |-> @.req, settings |-> dsm.settings]]
    /\ UNCHANGED <<dsm, order, todo, budget, promise>>

ReadFails(w) ==
    /\ "read" \in Faults
    /\ job[w].pc \in {"profile", "verify"}
    /\ Fail(w)
    /\ UNCHANGED <<dsm, order>>

----------------------------------------------------------------------------
(***************************************************************************)
(* Reading the profile and deciding what to write.                         *)
(***************************************************************************)
WithRule(req) ==
    LET before  == dsm.stored[req.profile]
        desired == Put(order[KeyOf(req)], req.rule.name, NormalizePriority(req.priority))
        rules   == UpsertRule(RulesOn(before, req.adapter), req.rule)
    IN  PutRules(before, req.adapter, ArrangeRules(rules, desired))

DecideSet(w) ==
    /\ At(w, "profile")
    /\ job[w].req.op = "set"
    /\ \E after \in {WithRule(job[w].req)} :
          LET req    == job[w].req
              before == dsm.stored[req.profile]
              guard  == GuardRuleWrite(before, after, job[w].settings, req.profile, req.lockout)
          IN  IF guard = "refuse" THEN Fail(w)
              ELSE Commit(w, [pc |-> "save", req |-> req, settings |-> job[w].settings,
                              before |-> before, after |-> after])
    /\ UNCHANGED <<dsm, order>>

\* Mutant: a deleted rule keeps its place in the record.
ForgetNothing(req) == order[KeyOf(req)]

\* forgetFirewallPriority
Forget(req) == Drop(order[KeyOf(req)], req.rule.name)

\* Mutant: the profiles that stand by are protected, the one in force is not.
EmptiesOther(req, settings, after) ==
    settings.enabled /\ settings.active # req.profile /\ NoRules(after) /\ ~req.empty

\* An enabled firewall with nothing in it: refused unless it is asked for.
Empties(req, settings, after) ==
    settings.enabled /\ settings.active = req.profile /\ NoRules(after) /\ ~req.empty

WithoutTheRule(req) ==
    LET before == dsm.stored[req.profile]
        rules  == WithoutRule(RulesOn(before, req.adapter), req.rule.name)
    IN  PutRules(before, req.adapter, ArrangeRules(rules, Forget(req)))

\* A rule that is already gone succeeds without a write.  Otherwise the record
\* drops the rule before either refusal is considered.
DecideDelete(w) ==
    /\ At(w, "profile")
    /\ job[w].req.op = "delete"
    /\ \E after \in {WithoutTheRule(job[w].req)} :
          LET req      == job[w].req
              settings == job[w].settings
              before   == dsm.stored[req.profile]
              guard    == GuardRuleWrite(before, after, settings, req.profile, req.lockout)
          IN  IF req.rule.name \notin NamesOf(RulesOn(before, req.adapter))
              THEN Succeed(w) /\ UNCHANGED order
              ELSE /\ order' = [order EXCEPT ![KeyOf(req)] = Forget(req)]
                   /\ IF Empties(req, settings, after) \/ guard = "refuse" THEN Fail(w)
                      ELSE Commit(w, [pc |-> "save", req |-> req, settings |-> settings,
                                      before |-> before, after |-> after])
    /\ UNCHANGED dsm

PolicyChanges(req, before) ==
    \E a \in DOMAIN req.policy :
        a \notin DOMAIN before.policy \/ before.policy[a] # req.policy[a]

SettingsChange(j) ==
    j.settings # [enabled |-> j.req.enabled, active |-> j.req.profile]

\* Mutants: what was saved is not rendered.
NeverApply(j) == "verify"
SaveOnly(j) == IF j.req.op = "configure" THEN "switch" ELSE "verify"

\* A rule write applies its profile only when it is the active one.  A configure
\* saves the policy and throws the switch only if they differ, and applies only
\* if it did either and the firewall is to be on.
AfterSwitch(j) == IF j.req.enabled THEN "apply" ELSE "verify"

AfterSave(j) ==
    CASE j.req.op # "configure" ->
             IF j.settings.active = j.req.profile THEN "apply" ELSE "verify"
      [] j.req.op = "configure" ->
             IF SettingsChange(j) THEN "switch" ELSE AfterSwitch(j)

Configure(w, j) ==
    IF j.changed THEN Commit(w, [j EXCEPT !.pc = "save"])
    ELSE IF SettingsChange(j) THEN Commit(w, [j EXCEPT !.pc = "switch"])
    ELSE Commit(w, [j EXCEPT !.pc = "verify"])

GuardedConfigure(w, j, inForce) ==
    IF GuardSettings(inForce, j.after, j.settings, j.req.enabled, j.req.lockout) = "refuse"
    THEN Fail(w) ELSE Configure(w, j)

\* When another profile is in force it has to be read for the comparison.
DecideConfigure(w) ==
    /\ At(w, "profile")
    /\ job[w].req.op = "configure"
    /\ LET req      == job[w].req
           settings == job[w].settings
           before   == dsm.stored[req.profile]
           j        == [pc |-> "inForce", req |-> req, settings |-> settings,
                        before |-> before,
                        after |-> [before EXCEPT !.policy = Overlay(before.policy, req.policy)],
                        changed |-> PolicyChanges(req, before)]
       IN  IF req.enabled /\ NoRules(j.after) /\ ~req.empty THEN Fail(w)
           ELSE IF /\ req.enabled /\ ~req.lockout
                   /\ settings.enabled /\ settings.active # req.profile
           THEN job' = [job EXCEPT ![w] = j] /\ UNCHANGED <<mu, todo, budget, promise>>
           ELSE GuardedConfigure(w, j, before)
    /\ UNCHANGED <<dsm, order>>

\* If it cannot be read the change goes ahead with a warning.
ReadInForce(w) ==
    /\ At(w, "inForce")
    /\ \/ GuardedConfigure(w, job[w], dsm.stored[job[w].settings.active])
       \/ "read" \in Faults /\ Configure(w, job[w])
    /\ UNCHANGED <<dsm, order>>

----------------------------------------------------------------------------
(***************************************************************************)
(* The writes.  A call can be rejected, have its effect and lose its       *)
(* answer, or be answered with success and ignored (issue #130).           *)
(***************************************************************************)
Call(w, fault, effect, next) ==
    \/ dsm' = effect /\ Goto(w, next)
    \/ "ignored" \in Faults /\ UNCHANGED dsm /\ Goto(w, next)
    \/ fault \in Faults /\ UNCHANGED dsm /\ Fail(w)
    \/ "lost" \in Faults /\ dsm' = effect /\ Fail(w)

Save(w) ==
    /\ At(w, "save")
    /\ Call(w, "save", [dsm EXCEPT !.stored[job[w].req.profile] = job[w].after],
            AfterSave(job[w]))
    /\ UNCHANGED order

Switch(w) ==
    /\ At(w, "switch")
    /\ LET req == job[w].req
       IN  Call(w, "switch",
                [dsm EXCEPT !.settings = [enabled |-> req.enabled, active |-> req.profile]],
                AfterSwitch(job[w]))
    /\ UNCHANGED order

\* Apply's start, polling and stop: a saved profile is not a live one until DSM
\* has rendered its chains from it.  A poll that fails leaves open whether it has.
Apply(w) ==
    /\ At(w, "apply")
    /\ LET rendered == [dsm EXCEPT !.live = dsm.stored[job[w].req.profile]]
       IN  \/ dsm' = rendered /\ Goto(w, "verify")
           \/ "lost" \in Faults /\ dsm' = rendered /\ Fail(w)
           \/ "apply" \in Faults /\ UNCHANGED dsm /\ Fail(w)
    /\ UNCHANGED order

----------------------------------------------------------------------------
(***************************************************************************)
(* Reading back what was written.                                          *)
(***************************************************************************)
Persisted(req) ==
    LET profile == dsm.stored[req.profile]
        rules   == RulesOn(profile, req.adapter)
        present == req.rule.name \in NamesOf(rules)
    IN  CASE req.op = "set" -> present /\ RuleNamed(rules, req.rule.name) = req.rule
          [] req.op = "delete" -> ~present
          [] req.op = "configure" ->
                /\ dsm.settings = [enabled |-> req.enabled, active |-> req.profile]
                /\ \A a \in DOMAIN req.policy :
                      a \in DOMAIN profile.policy /\ profile.policy[a] = req.policy[a]

\* Mutant: what DSM answered is not looked at.
Unverified(w) ==
    /\ At(w, "verify")
    /\ Succeed(w)
    /\ UNCHANGED <<dsm, order>>

\* Only now does the record learn of the position.
Verified(w) ==
    /\ At(w, "verify")
    /\ LET req == job[w].req
           key == KeyOf(req)
       IN  /\ Persisted(req)
           /\ order' = IF req.op = "set"
                       THEN [order EXCEPT ![key] =
                               Put(@, req.rule.name, NormalizePriority(req.priority))]
                       ELSE order
    /\ Succeed(w)
    /\ UNCHANGED dsm

\* A rule read-back is tried firewallVerifyAttempts times, because a read in the middle
\* of an apply may answer with what was there before; a settings one is not.
\* Attempts that come to nothing change nothing, so they are one step here.
NotPersisted(w) ==
    /\ At(w, "verify")
    /\ ~Persisted(job[w].req) \/ "stale" \in Faults
    /\ Fail(w)
    /\ UNCHANGED <<dsm, order>>

----------------------------------------------------------------------------
(***************************************************************************)
(* The environment: DSM's own web interface, and the end of the provider's *)
(* process, which takes the record with it and leaves DSM as it is.        *)
(***************************************************************************)
ForeignSave ==
    /\ budget.foreign > 0
    /\ \E pw \in ForeignWrites :
        dsm' = [dsm EXCEPT !.stored[pw[1]] = pw[2],
                           !.live = IF dsm.settings.active = pw[1] THEN pw[2] ELSE @]
    /\ budget' = [budget EXCEPT !.foreign = @ - 1]
    /\ UNCHANGED <<order, mu, job, todo, promise>>

Restart ==
    /\ budget.restarts > 0
    /\ budget' = [budget EXCEPT !.restarts = @ - 1]
    /\ order' = [k \in Keys |-> <<>>]
    /\ mu' = NoOne
    /\ todo' = todo \union {job[w].req : w \in Busy}
    /\ job' = [w \in Workers |-> Idle]
    /\ UNCHANGED <<dsm, promise>>

Terminating == todo = {} /\ Busy = {} /\ UNCHANGED vars

Step(w) ==
    \/ LockAndReadSettings(w) \/ ReadFails(w)
    \/ DecideSet(w) \/ DecideDelete(w) \/ DecideConfigure(w)
    \/ ReadInForce(w)
    \/ Save(w) \/ Switch(w) \/ Apply(w)
    \/ Verified(w) \/ NotPersisted(w)

Next ==
    \/ \E w \in Workers, req \in Requests : Start(w, req)
    \/ \E w \in Workers : Step(w)
    \/ ForeignSave
    \/ Restart
    \/ Terminating

Spec == Init /\ [][Next]_vars

\* An operation under way is always carried on: every call is answered or times
\* out, and Go's mutex hands itself to a waiter.
Fairness == \A w \in Workers : WF_vars(Step(w))

FairSpec == Spec /\ Fairness

----------------------------------------------------------------------------
(***************************************************************************)
(* Properties.                                                             *)
(***************************************************************************)
\* An operation holds Client.mu from its first read to its read-back, so no two
\* of them are ever between reading a profile and writing it whole.
OneWriter == \A w \in Workers : job[w].pc \notin {"idle", "queued"} <=> mu = w

\* The types, and OneWriter.
TypeOK ==
    /\ dsm.settings \in [enabled : BOOLEAN, active : Profiles]
    /\ \A p \in Profiles : IsProfile(dsm.stored[p])
    /\ IsProfile(dsm.live)
    /\ \A k \in Keys : \A n \in DOMAIN order[k] : order[k][n] \in Nat
    /\ mu \in Workers \union {NoOne}
    /\ \A w \in Workers : job[w].pc \in
          {"idle", "queued", "profile", "inForce", "save", "switch", "apply", "verify"}
    /\ \A w \in Busy : job[w].req \in Requests
    /\ todo \subseteq Requests
    /\ \A res \in DOMAIN promise : promise[res] \in Requests
    /\ OneWriter

\* A profile is only ever replaced by one computed from what it holds at that
\* moment: nothing this process writes between the read and the save is lost.
\* Only DSM's own interface can come in between.
FreshRead ==
    \A w \in Workers :
        /\ job[w].pc \in {"profile", "inForce", "save"} /\ budget.foreign = MaxForeign =>
               job[w].settings = dsm.settings
        /\ job[w].pc \in {"inForce", "save"} /\ budget.foreign = MaxForeign =>
               job[w].before = dsm.stored[job[w].req.profile]

\* What a completed operation promised stays true in DSM whatever the other
\* operations of this process do, fail at or leave half done: a whole-profile
\* write never drops, revives or alters a rule, policy or switch it is not about.
\* Only DSM's own interface can undo it.
PromiseKept ==
    budget.foreign = MaxForeign => \A res \in DOMAIN promise : Persisted(promise[res])

\* The record of positions names only rules that an operation of this process
\* wrote, with the priority that operation asked for; a deleted rule reserves no
\* place in the layout of the ones that remain, unless it was DSM's own interface
\* that took it away.
RecordIsPromised ==
    budget.foreign = MaxForeign =>
      \A k \in Keys : \A n \in DOMAIN order[k] :
        LET res == <<k[1], k[2], n>>
        IN  \/ /\ res \in DOMAIN promise
               /\ promise[res].op = "set"
               /\ order[k][n] = NormalizePriority(promise[res].priority)
            \/ /\ res \notin DOMAIN promise
               /\ \E req \in Requests : req.op = "set" /\ ResourceOf(req) = res
                       /\ order[k][n] = NormalizePriority(req.priority)

\* The priorities of the rules that completed operations wrote.
PromisedOrder(k) ==
    LET written == {res \in DOMAIN promise : promise[res].op = "set" /\ KeyOf(promise[res]) = k}
    IN  [n \in {res[3] : res \in written} |->
            NormalizePriority(promise[<<k[1], k[2], n>>].priority)]

\* Where arrangeFirewallRules says a managed rule ends up, stated without its
\* loop: at the lowest free position at or after its priority, or as far down as
\* the rules that must follow it allow; and the unmanaged rules keep the order
\* they had to begin with.
LaidOut(rules, desired, initial) ==
    \A managed \in {Managed(rules, desired)}, others \in {Unmanaged(rules, desired)} :
        LET k        == Len(managed)
            pos(j)   == PriorityOf(rules, managed[j].name)
            floor(j) == IF j = 1 \/ desired[managed[j].name] > pos(j - 1)
                        THEN desired[managed[j].name] ELSE pos(j - 1) + 1
            roof(j)  == Len(rules) - 1 - (k - j)
        IN  /\ \A j \in 1 .. k : pos(j) = IF floor(j) < roof(j) THEN floor(j) ELSE roof(j)
            /\ others = OnlyNamed(initial, NamesOf(others))

\* Whenever nothing is under way, every rule that this process was asked to place
\* and reported as placed is where the configuration puts it, whichever order the
\* writes arrived in, unless DSM's own interface saved a list of its own.
LaidOutAsConfigured ==
    Busy = {} /\ budget.foreign = MaxForeign =>
        \A k \in Keys : \A desired \in {PromisedOrder(k)} :
            LaidOut(RulesOn(dsm.stored[k[1]], k[2]), desired,
                    RulesOn(InitDsm.stored[k[1]], k[2]))

\* An enabled firewall never has an empty rule set in its active profile, unless
\* an operation was told to allow it: neither by deleting the last rule, nor by
\* switching to an empty profile, nor by the two meeting.
EnabledNeverEmpty ==
    dsm.settings.enabled => ~NoRules(dsm.stored[dsm.settings.active])

\* However many guarded operations are run, the session is not shut out: while
\* the firewall is on, some adapter of the profile in force admits it.
StaysReachable ==
    dsm.settings.enabled /\ mu = NoOne =>
        \E a \in PhysicalAdapters(dsm.live) : EvaluateAccess(dsm.live, a) = "allow"

\* An apply of a guarded operation never takes away, on an adapter of the profile
\* that goes into force, access that the firewall was granting.
GuardedKeepsAccess ==
    [][\A w \in Workers :
          Apply(w) /\ job[w].settings.enabled /\ ~job[w].req.lockout =>
              \A a \in PhysicalAdapters(dsm'.live) :
                  EvaluateAccess(dsm.live, a) = "allow" =>
                      EvaluateAccess(dsm'.live, a) # "deny"]_vars

\* What the guards are for: however operations follow one another, the firewall is not
\* emptied, the session is not shut out, and no apply takes access away.
GuardsHold == [](EnabledNeverEmpty /\ StaysReachable) /\ GuardedKeepsAccess

Completes(w, op) ==
    /\ w \in Busy /\ job'[w] = Idle
    /\ job[w].req.op = op
    /\ ResourceOf(job[w].req) \in DOMAIN promise'
    /\ promise'[ResourceOf(job[w].req)] = job[w].req

\* A rule write reported as done is enforced, if its profile is the active one.
WrittenIsInForce ==
    [][\A w \in Workers :
          Completes(w, "set") /\ dsm.settings.active = job[w].req.profile =>
              dsm'.live = dsm'.stored[job[w].req.profile]]_vars

\* No write is lost and none is undone: what is about to be saved is up to date,
\* completed operations stand, in DSM and in the record of positions, and the rules
\* they wrote are enforced.
NothingLost == []FreshRead /\ []PromiseKept /\ []RecordIsPromised /\ WrittenIsInForce

\* A delete reported as done has taken the rule out of force, not only out of the
\* stored profile, if the firewall is on with that profile.
DeletedIsOutOfForce ==
    [][\A w \in Workers :
          LET req == job[w].req
          IN  Completes(w, "delete") /\ dsm.settings = [enabled |-> TRUE, active |-> req.profile] =>
                  req.rule.name \notin NamesOf(RulesOn(dsm'.live, req.adapter))]_vars

\* A firewall configuration reported as done is the one DSM enforces.
ConfiguredIsInForce ==
    [][\A w \in Workers :
          Completes(w, "configure") /\ job[w].req.enabled =>
              dsm'.live = dsm'.stored[job[w].req.profile]]_vars

\* What any operation reports as done is what DSM enforces.
ReportedIsInForce == WrittenIsInForce /\ DeletedIsOutOfForce /\ ConfiguredIsInForce

\* What DSM stores goes through the states of FirewallStore, where every write
\* touches one rule, the policies or the switch, and happens at once.
Store == INSTANCE FirewallStore WITH stored <- dsm.stored, settings <- dsm.settings
OneChangeAtATime == Store!Spec

\* Every operation that is started ends, whatever fails: the lock is handed on.
EveryOperationEnds == \A w \in Workers : job[w].pc # "idle" ~> job[w].pc = "idle"
=============================================================================
