------------------------------ MODULE Packages ------------------------------
(***************************************************************************)
(* Package Center: install with its queue, start, stop and uninstall under *)
(* packageMu (client/package.go), and dsm_package as terraform apply runs  *)
(* it (provider/resource_package.go).                                      *)
(*                                                                         *)
(* A package in DSM is [now, next]: the status DSM shows, and what it      *)
(* comes to when nothing goes wrong; they differ only while DSM is at work *)
(* on it.  A resource is named after its package.                          *)
(***************************************************************************)
EXTENDS Naturals, Sequences

CONSTANTS
    Packages,
    Resources,       \* the packages that have a resource
    Needs,           \* package -> the packages it needs, directly or not
    Plans,           \* resource -> what is configured one after the other
    CanUninstall,    \* the packages DSM lets go
    InitInstalled,   \* the packages that run to begin with
    Faults,          \* what may go wrong, a subset of FaultKinds
    MaxFaults,       \* bound: how many times something goes wrong
    MaxHand          \* bound: how many times a person changes something

FaultKinds == {"read", "fallback", "refused", "lost", "deadline", "task", "restart"}

NoOne == "no one"
Gone == [running |-> FALSE, uninstall |-> TRUE, there |-> FALSE]
None == Gone
Unreported == ""
Wishes == [running : BOOLEAN, uninstall : BOOLEAN, there : BOOLEAN]

ASSUME ResourcesAssumption == Resources \subseteq Packages /\ NoOne \notin Packages
ASSUME PlansAssumption == \A r \in Resources : Plans[r] \in Seq(Wishes) /\ Plans[r] # <<>>
ASSUME NeedsAssumption ==
    /\ Needs \in [Packages -> SUBSET Packages]
    /\ \A Q \in (SUBSET Packages) \ {{}} : \E p \in Q : Needs[p] \intersect Q = {}
ASSUME FaultsAssumption == Faults \subseteq FaultKinds
ASSUME BoundsAssumption == MaxFaults \in Nat /\ MaxHand \in Nat

VARIABLES
    dsm,        \* package -> [now, next]
    known,      \* Terraform's state: resource -> None or [running, uninstall, there]
    stage,      \* resource -> index in Plans
    mu,         \* holder of packageMu
    job,        \* where each resource's operation is
    handled,    \* packages a person has changed
    unsettled,  \* resources whose record is not of a package at rest, or is not the last word
    budget      \* what is left of the bounds

vars == <<dsm, known, stage, mu, job, handled, unsettled, budget>>

AtRest(status) == [now |-> status, next |-> status]
Idle == [pc |-> "idle", verb |-> "none", queue |-> {}, tries |-> 0]

Init ==
    /\ dsm = [p \in Packages |-> AtRest(IF p \in InitInstalled THEN "running" ELSE "absent")]
    /\ known = [r \in Resources |-> None]
    /\ stage = [r \in Resources |-> 1]
    /\ mu = NoOne
    /\ job = [r \in Resources |-> Idle]
    /\ handled = {}
    /\ unsettled = {}
    /\ budget = [faults |-> MaxFaults, hand |-> MaxHand]

Want(r) == Plans[r][stage[r]]

At(r, pc) == job[r].pc = pc

Resting == {"absent", "running", "stop", "broken"}
TransientStatuses == {"installing", "starting", "stopping", "upgrading", "uninstalling"}

\* isTransientPackageStatus.
Transient(status) == status \in TransientStatuses

----------------------------------------------------------------------------
(***************************************************************************)
(* How a request is answered, and how an operation goes on and ends.       *)
(***************************************************************************)
Fault(kind) ==
    /\ kind \in Faults
    /\ budget.faults > 0
    /\ budget' = [budget EXCEPT !.faults = @ - 1]

\* ListPackages: if version 2 fails for whatever reason, version 1 is asked, and it does
\* not say what status a package has.
Answered(p, status) ==
    \/ status = dsm[p].now /\ UNCHANGED budget
    \/ dsm[p].now # "absent" /\ status = Unreported /\ Fault("fallback")

Statuses(p) == {dsm[p].now, Unreported}

Goto(r, pc) == job' = [job EXCEPT ![r].pc = pc]

\* Mutant: an operation that ends keeps the lock.
KeepLock(r) == job' = [job EXCEPT ![r] = Idle] /\ UNCHANGED mu

\* The deferred unlock.
End(r) ==
    /\ job' = [job EXCEPT ![r] = Idle]
    /\ mu' = IF mu = r THEN NoOne ELSE mu

\* An error leaves the state as it was.
Fail(r) == End(r) /\ UNCHANGED <<known, unsettled>>

\* An error after DSM has begun to change the package.
FailBegun(r) == End(r) /\ UNCHANGED known /\ unsettled' = unsettled \union {r}

Forget(r) ==
    /\ End(r)
    /\ known' = [known EXCEPT ![r] = None]
    /\ unsettled' = unsettled \ {r}

\* What the state says after a single look, and after a wait.
Glimpsed(r, status) ==
    unsettled' = IF Transient(status) \/ status = Unreported
                 THEN unsettled \union {r} ELSE unsettled \ {r}

Awaited(r, status) ==
    unsettled' = IF status = Unreported THEN unsettled \union {r} ELSE unsettled \ {r}

\* applyPackageToResourceModel, after a create or an update.
Record(r, status) ==
    /\ End(r)
    /\ known' = [known EXCEPT ![r] =
          [running |-> status = "running", uninstall |-> Want(r).uninstall, there |-> TRUE]]

\* The lock was given up in between, as Create calls SetPackageRunning on its own.
AskFor(r, verb) ==
    /\ job' = [job EXCEPT ![r] = [Idle EXCEPT !.pc = "queued", !.verb = verb]]
    /\ mu' = IF mu = r THEN NoOne ELSE mu

\* Create has the package: it is recorded, or started or stopped first.
HasIt(r, status) ==
    IF (status = "running") = Want(r).running
    THEN Record(r, status) /\ Glimpsed(r, status)
    ELSE AskFor(r, "set") /\ UNCHANGED <<known, unsettled>>

----------------------------------------------------------------------------
(***************************************************************************)
(* terraform apply for one resource: refresh, plan, one operation.         *)
(***************************************************************************)
\* Create looks before it takes the lock.
Create(r) ==
    /\ At(r, "idle") /\ known[r] = None /\ Want(r) # Gone
    /\ \/ /\ dsm[r].now = "absent"
          /\ AskFor(r, "install")
          /\ UNCHANGED <<known, unsettled, budget>>
       \/ /\ dsm[r].now # "absent"
          /\ \E status \in Statuses(r) : Answered(r, status) /\ HasIt(r, status)
       \/ Fault("read") /\ Fail(r)
    /\ UNCHANGED <<dsm, stage, handled>>

\* What is done about a package as it was read.  Delete goes by the state's flag.
Planned(r, running) ==
    IF Want(r) = Gone THEN [Idle EXCEPT !.pc = "queued", !.verb = "uninstall"]
    ELSE IF running # Want(r).running THEN [Idle EXCEPT !.pc = "queued", !.verb = "set"]
    ELSE IF known[r].uninstall # Want(r).uninstall THEN [Idle EXCEPT !.pc = "get"]
    ELSE Idle

Read(r) ==
    /\ At(r, "idle") /\ known[r] # None
    /\ \/ dsm[r].now = "absent" /\ Forget(r) /\ UNCHANGED budget
       \/ /\ Want(r) = Gone /\ ~known[r].uninstall
          /\ Forget(r)
          /\ UNCHANGED budget
       \/ /\ dsm[r].now # "absent" /\ (Want(r) = Gone => known[r].uninstall)
          /\ \E status \in Statuses(r) :
                /\ Answered(r, status)
                /\ known' = [known EXCEPT ![r].running = (status = "running")]
                /\ Glimpsed(r, status)
                /\ job' = [job EXCEPT ![r] = Planned(r, status = "running")]
          /\ UNCHANGED mu
       \/ Fault("read") /\ Fail(r)
    /\ UNCHANGED <<dsm, stage, handled>>

\* Update, when only uninstall_on_destroy has changed.
Get(r) ==
    /\ At(r, "get")
    /\ \/ dsm[r].now = "absent" /\ Fail(r) /\ UNCHANGED budget
       \/ /\ dsm[r].now # "absent"
          /\ \E status \in Statuses(r) : Answered(r, status) /\ Record(r, status)
                                           /\ Glimpsed(r, status)
       \/ Fault("read") /\ Fail(r)
    /\ UNCHANGED <<dsm, stage, handled>>

\* Mutant: the package is not looked for again under the lock.
GoesOn(verb) ==
    CASE verb = "install" -> "check" [] verb = "set" -> "set" [] verb = "uninstall" -> "exists"

\* The first step of each operation under the lock.
FirstStep(verb) ==
    CASE verb = "install" -> "find" [] verb = "set" -> "set" [] verb = "uninstall" -> "exists"

TakePackageMu(r) ==
    /\ At(r, "queued")
    /\ mu = NoOne
    /\ mu' = r
    /\ job' = [job EXCEPT ![r].pc = FirstStep(job[r].verb)]
    /\ UNCHANGED <<dsm, known, stage, handled, unsettled, budget>>

----------------------------------------------------------------------------
(***************************************************************************)
(* InstallPackage.                                                         *)
(***************************************************************************)
\* Whoever waited for the lock may find the package there, at rest or not.
FindFirst(r) ==
    /\ At(r, "find")
    /\ \/ /\ dsm[r].now = "absent"
          /\ Goto(r, "check")
          /\ UNCHANGED <<known, mu, unsettled, budget>>
       \/ /\ dsm[r].now # "absent"
          /\ \E status \in Statuses(r) : Answered(r, status) /\ HasIt(r, status)
       \/ Fault("read") /\ Fail(r)
    /\ UNCHANGED <<dsm, stage, handled>>

\* The catalog and checkPackageInstall, whose answer some builds refuse to give.
Check(r) ==
    /\ At(r, "check")
    /\ \/ Goto(r, "queue") /\ UNCHANGED <<known, mu, unsettled, budget>>
       \/ /\ \E p \in Packages : dsm[p].now \in {"installing", "upgrading", "uninstalling"}
          /\ Fail(r)
          /\ UNCHANGED budget
       \/ Fault("read") /\ Fail(r)
    /\ UNCHANGED <<dsm, stage, handled>>

\* getPackageInstallQueue: what is missing; an empty answer stands for the package.
ResolveQueue(r) ==
    LET missing == {p \in Needs[r] \union {r} : dsm[p].now = "absent"}
    IN  /\ At(r, "queue")
        /\ \/ /\ job' = [job EXCEPT ![r].pc = "start",
                                    ![r].queue = IF missing = {} THEN {r} ELSE missing]
              /\ UNCHANGED <<known, mu, unsettled, budget>>
           \/ Fault("refused") /\ Fail(r)
        /\ UNCHANGED <<dsm, stage, handled>>

\* A connection that breaks is tried again, the second request is answered 119
\* (Session) and the third is the last; a timeout is not repeated.
RetryLost(r) ==
    /\ Fault("lost")
    /\ job[r].tries = 0
    /\ job' = [job EXCEPT ![r].tries = 1]
    /\ UNCHANGED <<known, mu, unsettled>>

\* DSM's queue has a package after the ones it needs.
First(queue) == CHOOSE p \in queue : Needs[p] \intersect queue = {}

\* startPackageInstall for the first of the queue.  A dependency is started, whatever
\* its own resource says.
StartInstall(r) ==
    LET p == First(job[r].queue)
        run == p # r \/ Want(r).running
        rest == job[r].queue \ {p}
    IN  /\ At(r, "start")
        /\ \/ /\ dsm[p].now = "absent"
              /\ dsm' = [dsm EXCEPT ![p] =
                    [now |-> "installing", next |-> IF run THEN "running" ELSE "stop"]]
              /\ \/ /\ job' = [job EXCEPT ![r].pc = IF rest = {} THEN "installed" ELSE "start",
                                          ![r].queue = rest, ![r].tries = 0]
                    /\ UNCHANGED <<known, mu, unsettled, budget>>
                 \/ RetryLost(r)
                 \/ Fault("lost") /\ job[r].tries > 0 /\ FailBegun(r)
           \/ dsm[p].now # "absent" /\ Fail(r) /\ UNCHANGED <<dsm, budget>>
           \/ Fault("refused") /\ Fail(r) /\ UNCHANGED dsm
        /\ UNCHANGED <<stage, handled>>

\* waitForPackage: until the status is none of those on the way.  Not to find the
\* package is no error here.
WaitInstalled(r) ==
    /\ At(r, "installed")
    /\ dsm[r].now # "absent"
    /\ \/ \E status \in Statuses(r) :
            /\ status # "broken" /\ ~Transient(status)
            /\ Answered(r, status)
            /\ HasIt(r, status)
       \/ dsm[r].now = "broken" /\ Fail(r) /\ UNCHANGED budget
       \/ Fault("read") /\ Fail(r)
    /\ UNCHANGED <<dsm, stage, handled>>

----------------------------------------------------------------------------
(***************************************************************************)
(* SetPackageRunning.                                                      *)
(***************************************************************************)
Rests(running) == IF running THEN "running" ELSE "stop"

\* DSM may refuse while it is at work on the package, or do it afterwards.
Started(r) ==
    LET wanted == Rests(Want(r).running)
    IN  CASE dsm[r].now \in {wanted, "broken"} -> dsm[r]
          [] Transient(dsm[r].now) -> [dsm[r] EXCEPT !.next = wanted]
          [] OTHER -> [now |-> IF Want(r).running THEN "starting" ELSE "stopping",
                       next |-> wanted]

Set(r) ==
    /\ At(r, "set")
    /\ \/ /\ dsm[r].now \notin {"absent", "uninstalling"}
          /\ dsm' = [dsm EXCEPT ![r] = Started(r)]
          /\ \/ Goto(r, "reached") /\ UNCHANGED <<known, mu, unsettled, budget>>
             \/ RetryLost(r)
             \/ Fault("lost") /\ job[r].tries > 0 /\ FailBegun(r)
       \/ /\ dsm[r].now = "absent" \/ Transient(dsm[r].now)
          /\ FailBegun(r)
          /\ UNCHANGED <<dsm, budget>>
       \/ Fault("refused") /\ FailBegun(r) /\ UNCHANGED dsm
    /\ UNCHANGED <<stage, handled>>

\* Mutant: a package that is stopping counts as stopped.
AsWanted(r, status) == (status = "running") = Want(r).running

\* The condition SetPackageRunning waits for.
Ready(r, status) == (status = "running") = Want(r).running /\ ~Transient(status)

WaitReached(r) ==
    /\ At(r, "reached")
    /\ dsm[r].now # "absent"
    /\ \/ \E status \in Statuses(r) :
            /\ status # "broken" /\ Ready(r, status)
            /\ Answered(r, status)
            /\ Record(r, status) /\ Awaited(r, status)
       \/ dsm[r].now = "broken" /\ Fail(r) /\ UNCHANGED budget
       \/ Fault("read") /\ FailBegun(r)
    /\ UNCHANGED <<dsm, stage, handled>>

----------------------------------------------------------------------------
(***************************************************************************)
(* UninstallPackage, and the deadline of the three waits.                  *)
(***************************************************************************)
Exists(r) ==
    /\ At(r, "exists")
    /\ \/ dsm[r].now = "absent" /\ Forget(r) /\ UNCHANGED budget
       \/ /\ dsm[r].now # "absent"
          /\ \E status \in Statuses(r) :
                /\ Answered(r, status)
                /\ IF r \in CanUninstall /\ status # Unreported
                   THEN Goto(r, "remove") /\ UNCHANGED <<known, mu, unsettled>>
                   ELSE Fail(r)
       \/ Fault("read") /\ Fail(r)
    /\ UNCHANGED <<dsm, stage, handled>>

Uninstall(r) ==
    /\ At(r, "remove")
    /\ \/ /\ dsm[r].now # "absent" /\ ~Transient(dsm[r].now)
          /\ dsm' = [dsm EXCEPT ![r] = [now |-> "uninstalling", next |-> "absent"]]
          /\ \/ Goto(r, "gone") /\ UNCHANGED <<known, mu, unsettled, budget>>
             \/ RetryLost(r)
             \/ Fault("lost") /\ job[r].tries > 0 /\ FailBegun(r)
       \/ /\ dsm[r].now = "absent" \/ Transient(dsm[r].now)
          /\ FailBegun(r)
          /\ UNCHANGED <<dsm, budget>>
       \/ Fault("refused") /\ FailBegun(r) /\ UNCHANGED dsm
    /\ UNCHANGED <<stage, handled>>

WaitGone(r) ==
    /\ At(r, "gone")
    /\ \/ dsm[r].now = "absent" /\ Forget(r) /\ UNCHANGED budget
       \/ Fault("read") /\ FailBegun(r)
    /\ UNCHANGED <<dsm, stage, handled>>

\* What the wait is for cannot come any more without somebody else.
InVain(r) ==
    \/ At(r, "installed") /\ dsm[r].now = "absent"
    \/ At(r, "reached") /\ dsm[r].now = "absent"
    \/ At(r, "reached") /\ ~Transient(dsm[r].now) /\ ~Ready(r, dsm[r].now)
    \/ At(r, "gone") /\ dsm[r].now # "absent" /\ ~Transient(dsm[r].now)

\* Mutant: the wait has no deadline.
WaitOn(r) == FALSE

\* packageTaskTimeout: at the latest when waiting is in vain, or DSM is slow.
Deadline(r) ==
    /\ job[r].pc \in {"installed", "reached", "gone"}
    /\ \/ InVain(r) /\ UNCHANGED budget
       \/ Fault("deadline")
    /\ FailBegun(r)
    /\ UNCHANGED <<dsm, stage, handled>>

----------------------------------------------------------------------------
(***************************************************************************)
(* What is not the provider.                                               *)
(***************************************************************************)
\* DSM ends what it does about a package.  An installation waits for the packages it
\* needs and comes to nothing without them; any task may fail, and leave the package
\* as it was, or broken, or (of one being installed) not there.
Settle(p) ==
    LET needs == {dsm[d].now : d \in Needs[p]}
        failed == CASE dsm[p].now = "installing" -> {"absent", "broken"}
                    [] dsm[p].now = "starting" -> {"stop"}
                    [] dsm[p].now = "stopping" -> {"running"}
                    [] OTHER -> {"broken"}
    IN  /\ Transient(dsm[p].now)
        /\ \/ /\ dsm[p].now = "installing" => needs \subseteq {"running", "stop"}
              /\ dsm' = [dsm EXCEPT ![p] = AtRest(dsm[p].next)]
              /\ UNCHANGED budget
           \/ /\ dsm[p].now = "installing"
              /\ needs \intersect {"absent", "broken", "uninstalling"} # {}
              /\ dsm' = [dsm EXCEPT ![p] = AtRest("absent")]
              /\ UNCHANGED budget
           \/ /\ Fault("task")
              /\ \E status \in failed : dsm' = [dsm EXCEPT ![p] = AtRest(status)]
        /\ UNCHANGED <<known, stage, mu, job, handled, unsettled>>

\* A person installs, starts, stops, upgrades or removes a package in Package Center.
ByHand ==
    /\ budget.hand > 0
    /\ budget' = [budget EXCEPT !.hand = @ - 1]
    /\ \E p \in Packages :
          /\ dsm' \in {[dsm EXCEPT ![p] = to] : to \in
                CASE dsm[p].now = "absent" -> {[now |-> "installing", next |-> "running"]}
                  [] dsm[p].now = "running" -> {[now |-> "stopping", next |-> "stop"],
                                                [now |-> "upgrading", next |-> "running"],
                                                [now |-> "uninstalling", next |-> "absent"]}
                  [] dsm[p].now = "stop" -> {[now |-> "starting", next |-> "running"],
                                             [now |-> "uninstalling", next |-> "absent"]}
                  [] OTHER -> {}}
          /\ handled' = handled \union {p}
          /\ unsettled' = unsettled \union ({p} \intersect Resources)
    /\ UNCHANGED <<known, stage, mu, job>>

\* The configuration is edited between two applies.
Reconfigure(r) ==
    /\ At(r, "idle")
    /\ stage[r] < Len(Plans[r])
    /\ stage' = [stage EXCEPT ![r] = @ + 1]
    /\ UNCHANGED <<dsm, known, mu, job, handled, unsettled, budget>>

\* The provider process ends; DSM goes on with what it was asked for.
Restart ==
    /\ Fault("restart")
    /\ mu' = NoOne
    /\ job' = [r \in Resources |-> Idle]
    /\ unsettled' = unsettled \union {r \in Resources : ~At(r, "idle")}
    /\ UNCHANGED <<dsm, known, stage, handled>>

Begin(r) == Create(r) \/ Read(r)

Step(r) ==
    \/ Get(r) \/ FindFirst(r) \/ Check(r) \/ ResolveQueue(r) \/ StartInstall(r)
    \/ WaitInstalled(r) \/ Set(r) \/ WaitReached(r) \/ Exists(r) \/ Uninstall(r)
    \/ WaitGone(r) \/ Deadline(r)

Next ==
    \/ \E r \in Resources : Begin(r) \/ TakePackageMu(r) \/ Step(r) \/ Reconfigure(r)
    \/ \E p \in Packages : Settle(p)
    \/ ByHand \/ Restart

Spec == Init /\ [][Next]_vars

\* DSM ends what it has begun, requests are answered or time out, Go's mutex does not
\* starve a waiter, the deadline fires, and terraform apply is run again.
FairSpec ==
    /\ Spec
    /\ \A p \in Packages : WF_vars(Settle(p))
    /\ \A r \in Resources : WF_vars(Begin(r)) /\ WF_vars(Step(r)) /\ SF_vars(TakePackageMu(r))

----------------------------------------------------------------------------
(***************************************************************************)
(* Properties.                                                             *)
(***************************************************************************)
Locked == {"find", "check", "queue", "start", "installed", "set", "reached", "exists",
           "remove", "gone"}
Verbs == {"none", "install", "set", "uninstall"}

\* The types, and: whoever is past taking the lock holds it, and nobody else does.
TypeOK ==
    /\ dsm \in [Packages -> [now : TransientStatuses \union Resting, next : Resting]]
    /\ known \in [Resources -> Wishes]
    /\ stage \in [Resources -> Nat] /\ \A r \in Resources : stage[r] \in DOMAIN Plans[r]
    /\ mu \in Resources \union {NoOne}
    /\ handled \subseteq Packages /\ unsettled \subseteq Resources
    /\ job \in [Resources -> [pc : {"idle", "queued", "get"} \union Locked, verb : Verbs,
                             queue : SUBSET Packages, tries : 0 .. 1]]
    /\ budget \in [faults : 0 .. MaxFaults, hand : 0 .. MaxHand]
    /\ \A r \in Resources : mu = r <=> job[r].pc \in Locked

\* Two resources never install the same package at the same time: what is about to be
\* installed, dependencies included, is not there, unless it was installed by the same
\* request before its answer was lost, or by hand.
NoCollision ==
    \A r \in Resources :
        At(r, "start") /\ job[r].tries = 0 =>
            \A p \in job[r].queue \ handled : dsm[p].now = "absent"

\* After an operation the state says "running" of a package exactly if it runs, unless
\* that was not read from a package at rest, something went wrong after DSM had begun, or
\* a person has intervened.
RecordedIsTrue ==
    \A r \in Resources \ unsettled :
        At(r, "idle") /\ known[r] # None => (known[r].running <=> dsm[r].next = "running")

AsConfigured(r) ==
    IF Want(r) = Gone
    THEN known[r] = None
    ELSE /\ known[r] = [running |-> Want(r).running, uninstall |-> Want(r).uninstall,
                        there |-> TRUE]
         /\ dsm[r].now = "running" <=> Want(r).running
         /\ ~Transient(dsm[r].now)

\* What only a person can solve: a broken package, here or among the ones it needs, and
\* one that DSM does not let go.
NeedsAPerson(r) ==
    \/ \E p \in {r} \union Needs[r] : dsm[p].now = "broken"
    \/ Want(r) = Gone /\ r \notin CanUninstall

\* Applying again ends with every package as it is configured, failed tasks, lost answers
\* and changes by hand included, unless a person is needed.
Converges == \A r \in Resources : <>[](AsConfigured(r) \/ NeedsAPerson(r))
=============================================================================
