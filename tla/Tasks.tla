------------------------------- MODULE Tasks -------------------------------
(***************************************************************************)
(* Tasks that DSM runs, as dsm_scheduled_task and dsm_event_task manage    *)
(* them with terraform apply (client/task_scheduler.go,                    *)
(* client/event_scheduler.go), none of it under a lock.                    *)
(*                                                                         *)
(* DSM keeps both in one list: a scheduled task has an id and its name may *)
(* be another's too, an event task has no id and is known by its name.  A  *)
(* task is [owner, real, command, doc, by]: the account it runs as, the    *)
(* account its entry belongs to (DSM wants it in every request), what it   *)
(* runs and whom it notifies, its schedule, the resource it was made for.  *)
(***************************************************************************)
EXTENDS Naturals, FiniteSets, Sequences, TaskSchedules

CONSTANTS
    Resources,
    Kind,       \* resource -> "scheduled" or "event"
    Session,    \* the account the provider is logged in with
    Scenarios,  \* sequences of configurations: resource -> settings or Gone
    Faults,     \* what may go wrong, a subset of FaultKinds
    MaxFaults,  \* bound: how many times something goes wrong
    MaxHand,    \* bound: how many times a person changes a task
    MaxId       \* bound: ids given out

FaultKinds == {"read", "refused", "lost", "timeout", "noId", "restart"}

ASSUME FaultsAssumption == Faults \subseteq FaultKinds
ASSUME BoundsAssumption == MaxFaults \in Nat /\ MaxHand \in Nat /\ MaxId \in Nat
ASSUME PersonAssumption == "person" \notin Resources

NoId == 0
NoName == ""
\* The schedule of an event task, and one for a single date.
EventDoc == [repeatDate |-> 0, weekDay |-> {}, monthlyWeek |-> {}, hour |-> 0, minute |-> 0,
             repeatHour |-> 0, repeatMin |-> 0, lastWorkHour |-> 0]
OnceDoc == [EventDoc EXCEPT !.hour = 1]
OnEvent == ParseSchedule(EventDoc)

Setting(name, user, command, schedule, allowed) ==
    [name |-> name, user |-> user, command |-> command, schedule |-> schedule,
     allowed |-> allowed]
\* Not configured any more, in a configuration that has given up allow_task_execution.
Gone == Setting("none", "none", "none", OnEvent, FALSE)
\* A task without a name is one that DSM does not have (client/task_scheduler.go:273,
\* client/event_scheduler.go:131), and none runs without an account.
Settings ==
    [name : STRING \ {NoName}, user : STRING \ {"none"}, command : STRING,
     schedule : TaskSchedule \union {OnEvent}, allowed : BOOLEAN]

\* Only an event task goes without a schedule.
Configurations ==
    {c \in [Resources -> Settings \union {Gone}] : \A r \in Resources :
        Kind[r] = "scheduled" /\ c[r] # Gone => c[r].schedule \in TaskSchedule}

ASSUME ScenariosAssumption == \A s \in Scenarios : s # <<>> /\ s \in Seq(Configurations)

None == [id |-> NoId, name |-> "none", user |-> "none", real |-> "none", command |-> "none",
         schedule |-> OnEvent, tainted |-> FALSE]

VARIABLES
    tasks,    \* <<id, name>> -> task
    fresh,    \* the id DSM gives out next
    known,    \* Terraform's state: resource -> None or what it knows of its task
    configs,  \* the configurations from the one that is applied on
    job,      \* where each resource's operation is
    untold,   \* tasks whose creation no answer has told the provider, or told it too late
    touched,  \* tasks that a person changed while an operation dealt with them
    budget    \* what is left of the bounds

vars == <<tasks, fresh, known, configs, job, untold, touched, budget>>

Idle == [pc |-> "idle"]

Init ==
    /\ tasks = [key \in {} |-> <<>>]
    /\ fresh = NoId + 1
    /\ known = [r \in Resources |-> None]
    /\ configs \in Scenarios
    /\ job = [r \in Resources |-> Idle]
    /\ untold = {}
    /\ touched = {}
    /\ budget = [faults |-> MaxFaults, hand |-> MaxHand]

Want(r) == Head(configs)[r]
Destroyed(r) == Want(r) = Gone
At(r, pc) == job[r].pc = pc
Scheduled(r) == Kind[r] = "scheduled"

Exists(key) == key \in DOMAIN tasks
KeyOf(r, id, name) == IF Scheduled(r) THEN <<id, NoName>> ELSE <<NoId, name>>
KnownKey(r) == KeyOf(r, known[r].id, known[r].name)
\* DSM has answered the create of r, which still reads the task back.
Made(r, key) == job[r].pc \in {"listBack", "getBack"} /\ job[r].key = key
Called(name) == {key \in DOMAIN tasks : key[1] # NoId /\ tasks[key].name = name}

----------------------------------------------------------------------------
(***************************************************************************)
(* How an operation goes on and ends.                                      *)
(***************************************************************************)
Goto(r, to) == job' = [job EXCEPT ![r] = to] /\ UNCHANGED known

\* An error leaves the state as it was; a failed create records nothing.
Fail(r) == Goto(r, Idle)

End(r, seen) ==
    /\ job' = [job EXCEPT ![r] = Idle]
    /\ known' = [known EXCEPT ![r] = seen]

Forget(r) == End(r, None)

Fault(kind) ==
    /\ kind \in Faults
    /\ budget.faults > 0
    /\ budget' = [budget EXCEPT !.faults = @ - 1]

NoFault == UNCHANGED budget

Parsed(r, key, tainted) ==
    [id |-> key[1], name |-> tasks[key].name, user |-> tasks[key].owner,
     real |-> tasks[key].real, command |-> tasks[key].command,
     schedule |-> ParseSchedule(tasks[key].doc), tainted |-> tainted]

\* Mutant: a task that could not be read back is not recorded.
RecordNothing(r, key) == Fail(r)

\* Mutant: it is recorded without the id that DSM gave it.
RecordWithoutId(r, key) ==
    End(r, [id |-> NoId, name |-> Want(r).name, user |-> Want(r).user,
            real |-> Want(r).user, command |-> Want(r).command,
            schedule |-> Want(r).schedule, tainted |-> TRUE])

\* The task exists but could not be read back: what was asked for, tainted by the error.
RecordRequested(r, key) ==
    End(r, [id |-> key[1], name |-> Want(r).name, user |-> Want(r).user,
            real |-> Want(r).user, command |-> Want(r).command,
            schedule |-> Want(r).schedule, tainted |-> TRUE])

\* applyForWrite: a schedule that cannot be represented is an error after a write.
Representable(r, key) ==
    Scheduled(r) => ParseSchedule(tasks[key].doc).frequency # NoFrequency

----------------------------------------------------------------------------
(***************************************************************************)
(* terraform apply for one resource: refresh, plan, one operation.  A      *)
(* replacement is a destroy and a create.                                  *)
(***************************************************************************)
\* checkTaskExecutionAllowed, in the plan and before every write; destroying is free.
Allowed(r) == Destroyed(r) \/ Want(r).allowed

\* The account, and the name of an event task, force a new task.
PlannedVerb(r, seen) ==
    IF \/ Destroyed(r) \/ seen.tainted
       \/ seen.user # Want(r).user
       \/ ~Scheduled(r) /\ seen.name # Want(r).name THEN "delete"
    ELSE IF \/ seen.name # Want(r).name \/ seen.command # Want(r).command
            \/ Differs(Want(r).schedule, seen.schedule) THEN "update"
    ELSE "nothing"

\* Root confirms its password first, an event task asks for the uid of its owner.
FirstStep(r, verb) ==
    IF verb = "nothing" THEN Idle
    ELSE IF verb = "delete" THEN [pc |-> "remove", tries |-> 0]
    ELSE [pc |-> IF Want(r).user = "root" \/ ~Scheduled(r) THEN "confirm" ELSE verb,
          verb |-> verb, tries |-> 0]

Create(r) ==
    /\ At(r, "idle") /\ known[r] = None /\ ~Destroyed(r) /\ Allowed(r)
    /\ Goto(r, FirstStep(r, "create"))
    /\ UNCHANGED <<tasks, fresh, configs, untold, touched, budget>>

Refreshed(r, key) ==
    LET seen == Parsed(r, key, known[r].tainted)
    IN  /\ known' = [known EXCEPT ![r] = seen]
        /\ job' = [job EXCEPT ![r] = FirstStep(r, PlannedVerb(r, seen))]

\* GetScheduledTask asks the list for the real owner, GetEventTask only the name.
Read(r) ==
    LET key == KnownKey(r)
    IN  /\ At(r, "idle") /\ known[r] # None /\ Allowed(r)
        /\ \/ /\ Exists(key) /\ NoFault
              /\ IF Scheduled(r)
                 THEN Goto(r, [pc |-> "get", key |-> key, real |-> tasks[key].real])
                 ELSE Refreshed(r, key)
           \/ ~Exists(key) /\ Forget(r) /\ NoFault
           \/ Fault("read") /\ Fail(r)
        /\ UNCHANGED <<tasks, fresh, configs, untold, touched>>

\* A get with another real owner answers with an empty task.
Answers(key, real) == Exists(key) /\ tasks[key].real = real

Get(r) ==
    LET key == job[r].key
    IN  /\ At(r, "get")
        /\ \/ Answers(key, job[r].real) /\ Refreshed(r, key) /\ NoFault
           \/ ~Answers(key, job[r].real) /\ Forget(r) /\ NoFault
           \/ Fault("read") /\ Fail(r)
        /\ UNCHANGED <<tasks, fresh, configs, untold, touched>>

Confirm(r) ==
    /\ At(r, "confirm")
    /\ \/ Goto(r, [job[r] EXCEPT !.pc = job[r].verb]) /\ NoFault
       \/ Fault("refused") /\ Fail(r)
    /\ UNCHANGED <<tasks, fresh, configs, untold, touched>>

----------------------------------------------------------------------------
(***************************************************************************)
(* What DSM does with a request, and how its answer may get lost.          *)
(***************************************************************************)
Put(key, task) ==
    tasks' = [k \in DOMAIN tasks \union {key} |-> IF k = key THEN task ELSE tasks[k]]

Drop(key) == tasks' = [k \in DOMAIN tasks \ {key} |-> tasks[k]]

Requested(r, real) ==
    [name |-> Want(r).name, owner |-> Want(r).user, real |-> real,
     command |-> Want(r).command, by |-> r,
     doc |-> IF Scheduled(r) THEN EncodeSchedule(Want(r).schedule) ELSE EventDoc]

\* A broken connection is tried again, whatever DSM did with the first request.
Again(r) == Fault("lost") /\ job[r].tries = 0 /\ Goto(r, [job[r] EXCEPT !.tries = 1])

\* A timeout is not repeated, and the attempts may be used up.
LostForGood(r) ==
    /\ \/ Fault("timeout")
       \/ Fault("lost") /\ job[r].tries > 0
    /\ Fail(r)

\* The API for root takes every task, the plain one none of root.
Permitted(r, key) == Want(r).user = "root" \/ tasks[key].owner # "root"

Refused(r) ==
    /\ job[r].pc \in {"create", "update", "remove"}
    /\ Fault("refused")
    /\ Fail(r)
    /\ UNCHANGED <<tasks, fresh, configs, untold, touched>>

----------------------------------------------------------------------------
(***************************************************************************)
(* Scheduled tasks.                                                        *)
(***************************************************************************)
\* CreateScheduledTask: a name may be given twice, and the real owner is DSM's choice.
CreateScheduled(r) ==
    LET key == <<fresh, NoName>>
    IN  /\ At(r, "create") /\ Scheduled(r)
        /\ fresh <= MaxId
        /\ \E real \in {Want(r).user, Session} : Put(key, Requested(r, real))
        /\ fresh' = fresh + 1
        /\ \/ Goto(r, [pc |-> "listBack", key |-> key]) /\ NoFault /\ UNCHANGED untold
           \/ /\ Again(r) \/ LostForGood(r) \/ (Fault("noId") /\ Fail(r))
              /\ untold' = untold \union {key}
        /\ UNCHANGED <<configs, touched>>

\* The real owner is looked up in the list, then the task is read.
ListBack(r) ==
    LET key == job[r].key
    IN  /\ At(r, "listBack")
        /\ \/ /\ Exists(key) /\ NoFault
              /\ Goto(r, [pc |-> "getBack", key |-> key, real |-> tasks[key].real])
           \/ ((~Exists(key) /\ NoFault) \/ Fault("read")) /\ RecordRequested(r, key)
        /\ UNCHANGED <<tasks, fresh, configs, untold, touched>>

\* A task that does not come back as it was planned is tainted.
GetBack(r) ==
    LET key == job[r].key
        seen == Parsed(r, key, \/ tasks[key].command # Want(r).command
                               \/ tasks[key].owner # Want(r).user
                               \/ Scheduled(r) /\ Differs(Want(r).schedule,
                                                          ParseSchedule(tasks[key].doc)))
    IN  /\ At(r, "getBack")
        /\ \/ /\ Answers(key, job[r].real) /\ NoFault
              /\ IF Representable(r, key) THEN End(r, seen) ELSE Fail(r)
           \/ /\ (~Answers(key, job[r].real) /\ NoFault) \/ Fault("read")
              /\ RecordRequested(r, key)
        /\ UNCHANGED <<tasks, fresh, configs, untold, touched>>

\* UpdateScheduledTask: every field is replaced, at the real owner of the state.
Update(r) ==
    LET key == KnownKey(r)
        real == IF Scheduled(r) THEN known[r].real ELSE Want(r).user
    IN  /\ At(r, "update")
        /\ IF Exists(key) /\ (Scheduled(r) => Answers(key, real)) /\ Permitted(r, key)
           THEN /\ Put(key, [Requested(r, real) EXCEPT !.by = tasks[key].by])
                /\ \/ Goto(r, [pc |-> "getAfter", key |-> key, real |-> real]) /\ NoFault
                   \/ Again(r)
                   \/ LostForGood(r)
           ELSE Fail(r) /\ NoFault /\ UNCHANGED tasks
        /\ UNCHANGED <<fresh, configs, untold, touched>>

GetAfter(r) ==
    LET key == job[r].key
    IN  /\ At(r, "getAfter")
        /\ \/ /\ Answers(key, job[r].real) /\ NoFault
              /\ IF Representable(r, key) THEN End(r, Parsed(r, key, FALSE)) ELSE Fail(r)
           \/ ~Answers(key, job[r].real) /\ Fail(r) /\ NoFault
           \/ Fault("read") /\ Fail(r)
        /\ UNCHANGED <<tasks, fresh, configs, untold, touched>>

\* Mutant: the task is addressed by the account it runs as.
RemoveByUser(r) ==
    LET key == KnownKey(r)
    IN  /\ At(r, "remove")
        /\ IF IF Scheduled(r) THEN Answers(key, known[r].user) ELSE Exists(key)
           THEN Drop(key) /\ ((Forget(r) /\ NoFault) \/ Again(r) \/ LostForGood(r))
           ELSE (Forget(r) \/ Fail(r)) /\ NoFault /\ UNCHANGED tasks
        /\ UNCHANGED <<fresh, configs, untold, touched>>

\* DeleteScheduledTask and DeleteEventTask do not look at the task; for one DSM does not
\* find it may answer with an error or with success.
Remove(r) ==
    LET key == KnownKey(r)
    IN  /\ At(r, "remove")
        /\ IF IF Scheduled(r) THEN Answers(key, known[r].real) ELSE Exists(key)
           THEN Drop(key) /\ ((Forget(r) /\ NoFault) \/ Again(r) \/ LostForGood(r))
           ELSE (Forget(r) \/ Fail(r)) /\ NoFault /\ UNCHANGED tasks
        /\ UNCHANGED <<fresh, configs, untold, touched>>

----------------------------------------------------------------------------
(***************************************************************************)
(* Event tasks, where they differ.                                         *)
(***************************************************************************)
\* CreateEventTask: a name that is taken may be refused or written over.
CreateEvent(r) ==
    LET key == <<NoId, Want(r).name>>
    IN  /\ At(r, "create") /\ ~Scheduled(r)
        /\ \/ /\ Put(key, Requested(r, Want(r).user))
              /\ \/ /\ Goto(r, [pc |-> "getBack", key |-> key, real |-> Want(r).user])
                    /\ NoFault /\ untold' = untold \ {key}
                 \/ (Again(r) \/ LostForGood(r)) /\ untold' = untold \union {key}
           \/ Exists(key) /\ Fail(r) /\ NoFault /\ UNCHANGED <<tasks, untold>>
        /\ UNCHANGED <<fresh, configs, touched>>

----------------------------------------------------------------------------
(***************************************************************************)
(* terraform import, and what is not the provider.                         *)
(***************************************************************************)
\* By name, which only one scheduled task may have.
Import(r) ==
    LET found == IF Scheduled(r) THEN Called(Want(r).name)
                 ELSE {<<NoId, Want(r).name>>} \intersect DOMAIN tasks
    IN  /\ At(r, "idle") /\ known[r] = None /\ ~Destroyed(r) /\ budget.hand > 0
        /\ Cardinality(found) = 1
        /\ \E key \in found : known' = [known EXCEPT ![r] = Parsed(r, key, FALSE)]
        /\ budget' = [budget EXCEPT !.hand = @ - 1]
        /\ UNCHANGED <<tasks, fresh, configs, job, untold, touched>>

\* The configuration is edited between two applies.
Reconfigure ==
    /\ \A r \in Resources : At(r, "idle")
    /\ Len(configs) > 1
    /\ configs' = Tail(configs)
    /\ UNCHANGED <<tasks, fresh, known, job, untold, touched, budget>>

\* A person gives a task to another owner, has it run once, removes it, or takes a name.
GivenAway(key) ==
    /\ tasks[key].real = tasks[key].owner
    /\ Put(key, [tasks[key] EXCEPT !.real = "person"])
    /\ touched' = touched \union {k \in {key} : \E r \in Resources :
                                     ~At(r, "idle") /\ KnownKey(r) = k}

RunOnce(key) ==
    /\ Put(key, [tasks[key] EXCEPT !.doc = OnceDoc])
    /\ touched' = touched \union {k \in {key} : \E r \in Resources : Made(r, k)}

ByHand ==
    /\ budget.hand > 0 /\ budget' = [budget EXCEPT !.hand = @ - 1]
    /\ \/ \E key \in DOMAIN tasks :
             \/ key[1] # NoId /\ (GivenAway(key) \/ RunOnce(key))
             \/ Drop(key) /\ UNCHANGED touched
       \/ \E r \in Resources :
             /\ ~Scheduled(r) /\ ~Destroyed(r) /\ ~Exists(<<NoId, Want(r).name>>)
             /\ Put(<<NoId, Want(r).name>>,
                    [Requested(r, Want(r).user) EXCEPT !.by = "person", !.command = "other"])
             /\ UNCHANGED touched
    /\ UNCHANGED <<fresh, known, configs, job, untold>>

\* The provider process ends, and with it what it knew of the tasks in the making.
Restart ==
    /\ Fault("restart")
    /\ \E r \in Resources : ~At(r, "idle")
    /\ job' = [r \in Resources |-> Idle]
    /\ untold' = untold \union {key \in DOMAIN tasks : \E r \in Resources : Made(r, key)}
    /\ UNCHANGED <<tasks, fresh, known, configs, touched>>

Begin(r) == Create(r) \/ Read(r)

Step(r) ==
    \/ Get(r) \/ Confirm(r) \/ CreateScheduled(r) \/ ListBack(r) \/ GetBack(r)
    \/ Update(r) \/ GetAfter(r) \/ Remove(r) \/ CreateEvent(r) \/ Refused(r)

Next ==
    \/ \E r \in Resources : Begin(r) \/ Step(r) \/ Import(r)
    \/ Reconfigure \/ ByHand \/ Restart

Spec == Init /\ [][Next]_vars

\* Every request is answered or times out, and terraform apply is run again.
FairSpec == Spec /\ \A r \in Resources : SF_vars(Begin(r)) /\ WF_vars(Step(r))

----------------------------------------------------------------------------
(***************************************************************************)
(* Properties.                                                             *)
(***************************************************************************)
\* Events have no id, ids are those given out, and an operation is at a step it has.
TypeOK ==
    /\ fresh \in 1 .. MaxId + 1
    /\ \A key \in DOMAIN tasks : key[1] \in NoId .. fresh - 1 /\ (key[1] # NoId <=> key[2] = NoName)
    /\ \A r \in Resources : known[r].id \in NoId .. fresh - 1
    /\ \A r \in Resources : known[r] # None => (Scheduled(r) <=> known[r].id # NoId)
    /\ Len(configs) \in Nat \ {0}
    /\ \A r \in Resources : job[r].pc \in {"idle", "get", "confirm", "create", "update",
                                           "listBack", "getBack", "getAfter", "remove"}

\* A task that DSM has told the provider of stays tracked whatever fails afterwards: the
\* read-back, an update, a refresh or a destroy.  Left out are the tasks that it was never
\* told of, or told of before it ended (an answer that was lost, for good or until the
\* create was sent again, and one without an id): these do run untracked, even after an
\* apply that succeeds.  Left out also are those that a person gave to another owner
\* between the list and the request that names the owner, or had run once between the
\* create and its read-back.
NothingRunsUntracked ==
    \A key \in DOMAIN tasks \ (untold \union touched) :
        LET r == tasks[key].by
        IN  r \in Resources => (known[r] # None /\ KnownKey(r) = key) \/ Made(r, key)

\* A destroy that is reported leaves no task, unless another owner got it meanwhile.
DeletedIsGone ==
    [][\A r \in Resources :
          /\ At(r, "remove") /\ known[r] # None /\ known'[r] = None
          /\ KnownKey(r) \notin touched
          => KnownKey(r) \notin DOMAIN tasks']_vars

AsConfigured(r) ==
    LET key == KnownKey(r)
    IN  IF Destroyed(r) THEN known[r] = None
        ELSE /\ known[r] # None /\ Exists(key)
             /\ tasks[key].owner = Want(r).user /\ tasks[key].command = Want(r).command
             /\ Scheduled(r) => ~Differs(Want(r).schedule, ParseSchedule(tasks[key].doc))

\* An event task of the name that Terraform does not know.
NameTaken(r) ==
    ~Scheduled(r) /\ known[r] = None /\ Exists(<<NoId, Want(r).name>>)

\* A weekday that is read back in another spelling than configured: the task is made anew
\* by every apply.
Misspelled(r) == \E d \in Want(r).schedule.days : ~d.lower

\* Applying again ends with every task as it is configured and nothing left to write,
\* unless a name is taken: what is written is read back without a difference.
Converges ==
    \A r \in Resources :
        <>[](\/ NameTaken(r) \/ Misspelled(r)
             \/ AsConfigured(r) /\ job[r].pc \in {"idle", "get"})
=============================================================================
