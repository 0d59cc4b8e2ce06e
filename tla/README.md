# Verification of terraform-provider-synology-dsm

TLA+ models of the Synology DSM Terraform provider, checked with TLC and, for
the properties that matter most, proved with TLAPS. The models are translated
from the Go code in `src/internal/client` (the DSM API client) and
`src/internal/provider` (the Terraform resources); the table under "map" in
`PROJECT.json` names the lines behind every definition.

Run a check with `tlc -config FirewallScenariosRun.cfg MCFirewallClient`, a proof
with `tlapm FirewallClient_proofs.tla`.

## 1. The system

Terraform starts the provider as a process, and runs up to ten resource
operations at a time in it. Each operation is a handful of HTTP calls to one NAS.
There is **one** `Client` per process: every concurrent operation shares its
session, its locks and its small amount of memory. DSM is the other actor, and
it has more than one writer: its own web interface changes the same objects.

DSM's API has five habits that make the code hard:

* Many objects can be written only **whole** (a firewall profile, the permission
  list of a share, the quotas of a share, the clock settings). Changing one
  entry means reading the list, editing it and sending all of it back.
* An answer of **success is not evidence**: DSM has been seen to answer success
  and store nothing (issue #130), and a saved firewall profile is not the one in
  force until a separate apply has rendered it.
* **Identity comes late**: a reverse proxy entry, a certificate and a scheduled
  task have an id that the answer to their creation does not always bring, so
  they are looked up afterwards by a name that need not be unique.
* Work goes on **after the answer**: shares settle, projects build, packages
  install, certificates appear, applies are polled; a second request in the
  meantime is refused or waits.
* **Codes are ambiguous**: 119 is an expired session and also an account that is
  not `admin`; 3300 is "busy" and "never"; 4154 is "yours already" and "somebody
  else's".

### Components

| component | state | operations | what makes it hard |
|---|---|---|---|
| Session (`client.go`, `file.go`) | session and its token under `sessMu`; `loginMu` | login; every GET, POST and file transfer with three attempts | all calls expire at once; a retry re-sends what may have been performed; parameters outlive the session they were made with |
| Firewall client (`firewall.go`, `firewall_settings.go`, `firewall_lockout.go`) | `Client.mu`; the priority record `firewallRuleOrder`; in DSM stored profiles, the live one, switch and active profile | set rule, delete rule, configure | whole-profile writes by concurrent resources; list order is the meaning of a firewall; save and apply are two calls; locking oneself out |
| Firewall wire format (`firewall.go`, `firewall_rule_wire.go`) | each rule keeps the object it was read from | parse and render a rule in two encodings and a profile in two shapes | rules nobody manages pass through the model on every write; two names for one shape |
| Whole-list editors (`share_permission.go`, `user_quota.go`, `system_settings.go` and their resources) | `Client.mu`; the lists in DSM; Terraform's state | set, delete, read, with a read-back outside the lock | lost updates; the read-back may see another edit; spellings that do not survive a round trip |
| Shared folders (`share.go`, `errors.go`, `resource_shared_folder.go`) | `shareMu`; the shares; Terraform's state | create, adopt, update, replace, delete, refresh | one mutation at a time at DSM; absence has to be proved; replacement destroys data |
| Container projects (`container_project.go`, `resource_container_project.go`) | the project in DSM; Terraform's state and private state (checksum of the last write) | create, update, start, stop, delete, import, refresh, plan | four calls per apply, each followed by polling; a write-only document |
| Reverse proxy (`reverse_proxy.go`, `resource_reverse_proxy.go`) | `reverseProxyMu`; the entries; Terraform's state | create with its check and read-back, adopt, update, delete, refresh, import | the UUID is only known after the write; descriptions are not unique |
| Certificates (`certificate.go`, three resources) | certificates, the default one, service bindings; Terraform's state | import, rotate, issue, make default, bind, delete | no lock; a retried import duplicates; renewal by DSM under a new id; one binding table, several writers |
| Tasks (`task_scheduler.go`, `event_scheduler.go`, two resources) | tasks in DSM, each under a "real owner"; Terraform's state | create, read back, update, change owner, delete, import | no lock; a create that cannot be read back; a missing task and a wrong owner look the same; a schedule is stored in another form |
| Packages (`package.go`, `resource_package.go`) | `packageMu`; status of each package in DSM; Terraform's state | install with dependencies, start, stop, uninstall | polling up to 15 minutes under a lock; two resources and one dependency graph; a fallback that omits the status |
| Files (`file.go`, `resource_file.go`) | file content, checksum | upload, download, delete | transfer retries; write-only content |
| Users, groups, home service, registries, mail | in DSM | one call each | little: no state between calls |

Terraform itself promises two things the models use: two operations of **one**
resource never run concurrently, and a failed operation is run again by a later
apply, after a refresh. The provider promises Terraform that what an apply
records agrees with the plan.

### What makes each component correct

* **Firewall:** no concurrent operation loses another's write; rules end up in
  the configured order whichever order they arrive in; what is reported done is
  in force; the firewall never shuts the provider out, nor is emptied while on.
* **Wire format:** a rule that is written is confirmed by its read-back; a rule
  that is *not* managed comes out of every write as it went in.
* **Whole lists:** each edit is atomic; what Terraform records is what DSM has, or
  an edit that explains the difference is still to be run.
* **Session:** one login at a time; the newest session the provider was told of is
  the one in use; a call is performed no oftener than its answers explain; every
  call returns.
* **Shared folders:** nothing is destroyed, taken over or forgotten that should
  not be; applies converge.
* **Container projects:** a document that was written is also built; drift is
  noticed; a success leaves an empty plan; applies converge.
* **Reverse proxy, certificates, tasks:** what DSM told the provider of is not
  forgotten, whatever fails afterwards, and (reverse proxy) a create whose answer is
  lost leaves no object nobody knows; nothing foreign is taken over; a destroy that
  is reported has destroyed, and takes nothing away from a service; applies converge.
* **Packages:** two resources never install one package; what is recorded of a
  package at rest is true; applies converge.

## 2. The modules

| module | what it is |
|---|---|
| `FirewallLayout` | pure: upsert, priorities, `arrangeFirewallRules` slot by slot |
| `FirewallGuard` | pure: the lockout replay and the guards built on it |
| `FirewallStore` | abstract: every stored change touches one thing, at once |
| `FirewallClient`, `FirewallClient_proofs` | the three operations call by call, the lock, the record, DSM; implements `FirewallStore` |
| `FirewallRules` | pure: both encodings of a rule, both shapes of a profile, the comparison of the read-back |
| `FirewallWire` | what the writes of a profile do to the rules of others |
| `EditedLists` | pure and abstract: what an edit of a list is; every edit happens at once |
| `WholeLists`, `WholeLists_proofs` | read, edit, write, read back under `Client.mu`; implements `EditedLists` |
| `Session`, `SessionCertificates_proofs` | one API call with its retries and its re-login, for any number of concurrent calls |
| `SharedFolders`, `SharedFolders_proofs` | `mutateShare`, reads that prove absence, the resource's life |
| `ContainerProject`, `ContainerProject_proofs` | one project, its call sequences, plan and private state |
| `ReverseProxy`, `ReverseProxy_proofs` | entries under `reverseProxyMu`, the resource's life |
| `Certificates`, `SessionCertificates_proofs` | certificates, the default and the bindings; three kinds of resource |
| `TaskSchedules` | pure: a schedule as it is configured and as DSM stores it |
| `Tasks`, `Tasks_proofs` | scheduled and event tasks, the two resources' life |
| `Packages`, `Packages_proofs` | Package Center under `packageMu`, the resource's life |
| `MC...` | the instances TLC checks |

Where a module says "Mutant:" above a definition, that definition is a plausible
mistake in the code next to it; `PROJECT.json` pairs each with the property that
catches it. No specification uses one.

The modules with a resource's life share one scheme. `known` is Terraform's
state. `Begin` starts what `terraform apply` does to a resource: a refresh if it
is known, otherwise a create. What follows is one action per request, with the
decisions of the code between two requests made in the first of them. A failed
operation goes back to `idle` and leaves the state as the code leaves it; a
create that is recorded but not as planned is `tainted`, and the next apply
replaces it. `Reconfigure` moves on to the next configuration, `ByHand` is a
person at DSM's interface, `Restart` ends the process and every operation in it.
`by` on an object says which resource made it: DSM does not know, the
properties do. `budget` bounds what goes wrong.

### FirewallClient

`dsm` is DSM: `settings` (switch, active profile), `stored` (the profiles as
saved) and `live` (the one rendered into chains). `order` is the client's
`firewallRuleOrder`, `mu` the holder of `Client.mu`, `job[w]` where a worker is in
its operation together with what it has read. A rule is a name and an *effect*:
what it does to a packet of the provider's own session, the only thing about a
rule that the rest of the client depends on. Names are numbers, because the code
sorts ties by name, and each stands once in a list (`IsRuleList`): a name is what the
resource is found by (`docs/resources/firewall_rule.md:93`).

`FirewallLayout` is written to be reasoned about. The stable sort of the managed rules
is `InOrder`, which puts an element at the place given by how many come before it; the
loop that merges them with the others is the function of slots `NextAfter`, and
`PlacedManaged` runs it. Neither needs a recursive operator, and what holds for every
slot is proved by the least slot at which it would not (`Least`).

One operation is `Start`, `LockAndReadSettings`, a `Decide...` step (the profile
is read and everything up to the first write happens: layout, refusal of an empty
rule set, lockout guard), then `Save`, `Switch`, `Apply` as the code decides, and
`Verified` or `NotPersisted`, the read-back. The deferred unlock is part of every
step that ends an operation. Every call can fail before its effect, have its
effect and lose its answer, or be answered with success and ignored.

`promise` is a history variable: for each resource the last operation that
completed, dropped as soon as a new operation of it commits to writing. It is
what Terraform believes.

### FirewallRules and FirewallWire

A rule on the wire is `[name, enable, policy, protocol, ports, source, other]`,
`other` standing for every field the client does not manage; a selector is a group
and a value, whose *spelling* (a range of ports with a colon, blanks in a list, an
address that is not canonical) is kept apart from what it means, because the code
promises to preserve the one or only the other. `ParseRule`/`RenderRule` are the
adapter-keyed encoding of the API, `...OnDisk` the one of Synology's library;
`Mismatches` is the comparison of the read-back; `ShapeOf` and `WriteProfile` are
how a profile's shape is told and kept. `FirewallWire` puts a small state machine
around them: the profile of a DSM, the provider's three kinds of write, a person who adds rules
of kinds the provider does not model, and an entry that is no rule.
`Meaning` is what a rule does, whatever its spelling.

### WholeLists

Three pieces of code with one shape. A list is a function from entries to values;
the clock is the list of its three fields. `LockAndList` takes `Client.mu` and
reads, `Write` (or `WrongVerb` and `Fallback`, the two verbs of `setRegionNTP`)
sends the edited list, `ReadBack` runs without the lock as in the code.
`ResolveNTPMode` is the code's treatment of the clock mode's many spellings.

`known` is what Terraform records. It changes where the code sets the state: when a
removal has been answered, when the read-back of a set has been, and by a refresh. An
operation that fails leaves it as it was, also when DSM has performed the write (a
lost answer, a read-back that fails), so that the old value then stands over DSM's
new one until the operation is run again or a refresh corrects it. `StateIsTrue`
says that this is the **only** way in which the two differ: DSM then has what an
operation of that very resource asks for (`HasTaken`) which is under way or has failed
and is to be run again (`Outstanding`). An edit of another resource never moves a
recorded value, and nothing is recorded that DSM does not have.

### Session

A session is the number of the login that made it. `param` is what the call's
parameters carry, `used` what the last request carried, `refused` the session
first answered 119. `get`, `post` and `file` calls differ exactly where
`executeRequest` and the transfer loops do: a POST takes the session out of the
parameters it is retried with, a file transfer asks for the session anew.
`performed` and `lost` count effects at DSM and answers that did not arrive or could
not be read. What happens then is a matter of the words of the error
(`isTransientError` compares them, and minds their case): `NoAnswer` leaves both
open, another attempt or the end of the call (`"unanswered"`), whether or not DSM has
performed it. Only a code of DSM's (`Rejects`) says that nothing was done. A login has
three outcomes: DSM opens a session and says so (`LoginAccepted`), opens one and is not
heard (`LoginUnheard`), or does not (`LoginFails`); `issued` counts what DSM opened,
`heard` is the last of it the provider was told of.

### SharedFolders

`shares` is DSM, `settling` whether it is still busy with an earlier mutation
(3328, and 3300). An apply of one resource is `Begin`, `GetShare` and
`ConfirmAbsence` (the reads), what the plan made of them, then `TakeShareMu` and
`mutateShare`'s loop: `Mutate`, `Refused`, `Busy`, `RetriesRejection`,
`TakesAtFaceValue`, `Impossible`. `origin` tells a folder Terraform created from
one made by hand.

### ContainerProject

`nas` is the project: its document, the document its containers were built from,
and DSM's status. `config` changes when somebody edits the configuration;
`state` and `lastWritten` are the resource's state and private state. A checksum
is the document it is computed from. `Refresh` reads and plans; `Decide` is the
branch of `UpdateContainerProject` and `SetContainerProjectRunning`; then come
`Stop`, `WriteCompose`, `Build`, `Start` with the polling between them
(`Arrives`, `Succeed`, `GivesUp`), and DSM's own progress is `Settle`.

The lock of `container_project.go` keeps *different* projects apart, which share
no state, and Terraform serialises one resource: one project at a time is the
whole of it.

### ReverseProxy

`entries` maps UUIDs to entries, `fresh` is the UUID DSM gives out next. A create
is `Check` (the list must have no entry of the description), `Create`, on 4154
`AlreadyExists` (the entry of the description is adopted), and `ReadBack`; an
update `Current` and `Update`; a destroy `Exists` and `Delete`; all of them after
`TakeReverseProxyMu`. A refresh is `Read` and, when the UUID is not listed,
`ReadByDescription`. The headers, the timeouts and the access profile of an entry
are one setting, `dest`; `http2` stays apart, because a build of DSM may not report
it. `open` of an entry made by hand names the resources that were looking for one
of its description when it was made: those the code itself lets take it.

### Certificates

`certs` are DSM's certificates under ids that are never given out twice,
`default` the default one, `served` what each service uses, `late` removals under
way whose certificate was given a service since the guard looked. Import is
`ImportNew` (or `Rotate`) and `Settle`, the loop that waits for the certificate to
be listed; DSM's own issue is `Issue` and `FindIssued`; `Claim` and `Claimed` make
one the default; `Guard` and `Remove` are a destroy; `FindTarget`, `FindBinding`
and `Bind` are a binding. `Renew` is DSM, which replaces a certificate it obtained,
under a new id. None of it is under a lock, as in the code. `stray` holds what the
code itself loses. With an error: a certificate whose making failed or was cut short.
Without any: the first of an import or an issue that was sent again; one in whose
place the read-back, the settle loop or a refresh took another of the description or
the common name; and one that DSM renewed between the refresh and the guard of a
destroy, which takes it for removed.

### TaskSchedules and Tasks

`EncodeSchedule` and `ParseSchedule` are the two conversions of a schedule,
`Differs` what Terraform sees of the difference. In `Tasks`, a task is found under
its id (scheduled) or its name (event); `owner` is whom it runs as, `real` the
account under which DSM keeps it and without which it answers nothing. A create is
`Confirm` (the password, for root), `CreateScheduled` or `CreateEvent`,
`ListBack` and `GetBack`; an update `Confirm`, `Update`, `GetAfter`; a destroy
`Remove`. The gate `allow_task_execution` is `Allowed`, which a create or a refresh needs to go on to a write.

Two variables say what the properties leave out, by its cause. `untold` are the tasks
whose creation no answer has told the provider of, or only when its process had ended:
the answer was lost, for good or until the create was sent again, or had no id. An
event task leaves the set when a later create of its name is answered; a scheduled one
never does, since the second create makes a second task. `touched` are the tasks that
a person gave to another owner while an operation of their resource was under way, or
set to a single date between the create and its read-back.

### Packages

A package is `[now, next]`: the status DSM shows and what it comes to; they
differ while DSM is at work, and `Settle` is DSM getting there. Under `packageMu`
an install is `FindFirst`, `Check`, `ResolveQueue`, `StartInstall`,
`WaitInstalled`; a start or stop `Set` and `WaitReached`; an uninstall `Exists`,
`Uninstall`, `WaitGone`; every wait may end by `Deadline`. `Answered` is the list
of packages with its fallback to version 1, whose status is `Unreported`.

## 3. The runs

| run | bounds | what it shows |
|---|---|---|
| `FirewallScenariosRun` | 2 workers, 2 profiles, 3 adapters, rejected saves and failing switches; either five rule operations on one list with rules of DSM's interface in it, 1 retry and 1 foreign save, or seven guarded operations of all three kinds | the layout is the configured one in every order of arrival; no sequence of guarded operations shuts the session out or empties the firewall; what is reported done is in force |
| `FirewallFaultsRun` | 2 workers, 5 operations over 2 profiles, all seven faults at every call, 1 retry, 1 restart | types and locking; freshness, promises, the record and "in force" (`NothingLost`); the refinement of `FirewallStore`; every operation ends |
| `FirewallDeleteRetryRun` | 1 delete, failing applies | *violation*, see findings |
| `FirewallOthersRun` | 2 adapters, Terraform's rule in four variants, four rules made by hand | *violation*, see findings |
| `WholeListsRun` | 2 workers, 5 edits of 4 lists, 1 failure, 1 restart, 1 foreign removal | atomic edits; a state that is true or explained by an edit still to be run; answers of the own edit; the clock only as asked; every operation ends |
| `SessionRun` | 2 calls of any of four kinds, 3 attempts, unlimited expiry, answers lost without limit, a login's too | one login, the newest session that was heard of, performances explained by lost answers and a success; every call returns |
| `SharedFoldersRun` | 2 workers, 4 shares in four situations, 1 fault of any kind, 1 foreign change | nothing forgotten, taken or destroyed; convergence |
| `ProjectsRun` | 4 configurations, 2 faults of any kind, 2 edits, 2 foreign changes | built as written, drift noticed, empty plan after success, convergence |
| `ReverseProxyRun` | 2 resources, one changed twice and one destroyed; 2 faults of five kinds; 1 change by hand, among them entries with the same description or the same listener | no entry left behind, none taken over, convergence |
| `CertificatesRun` | an imported certificate that is bound, rotated and destroyed, or one imported and one issued with the common name of DSM's own; 1 fault of seven kinds, 1 change by hand (a service that is lost among them) or renewal | no certificate left behind but the stray ones, none taken from a service, bindings as reported, convergence except for a service nothing serves |
| `TasksRun` | a scheduled task of root, an event task, a change of account, a weekday with a capital; 2 faults of six kinds, 1 change by hand | no task the provider was told of runs untracked, a destroyed task is gone, convergence |
| `PackagesRun` | a package and its dependency, both with a resource; 2 faults of seven kinds, 1 change by hand | nothing installed twice, true records of packages at rest, convergence |

**Why the bounds are enough.** Two workers are enough for every lock: a third
waits exactly as the second does, and the mutual exclusion it would test is
proved for any number. Requests are chosen so that each pair interacts: same
list, same profile and other adapter, other profile, the same switch, the same
lock, a package and its dependency, a certificate and its binding. Faults come
one or two at a time because each of them ends or repeats an operation, and
repeated operations are in the model; the fault kinds themselves are complete
for the calls the code makes. Two faults matter where one sets the stage for the
next (a lost answer, then a failed read-back). The bounds on ids (`MaxUUID`,
`MaxId`) are above what the faults of the run can use up, so that they never stop
a create; `MaxAstray` stops the endless repetition of an import whose read-back
nobody can succeed with, after one certificate has gone astray. Every run
keeps its whole request set, so all orders of all of them are explored.
`MaxRetries = 3` attempts and `ShareBusyAttempts = 5` are the code's own numbers; in
the resource modules a request is repeated once after a lost answer, which is
every case that the third attempt could add. Integers do not overflow anywhere:
the only ones are list positions, ids and attempt counters. Deadlock is checked in
every run except `CertificatesRun` and `TasksRun`, where everything has been
destroyed in the end and Terraform has nothing to do.

**Selection.** The two passing firewall runs divide the faults between them, for two
reasons. A firewall with every fault, three adapters and seven requests is out of
TLC's reach; and two properties are *meant* for fewer faults:
`DeletedIsOutOfForce` and `ConfiguredIsInForce` fail when an apply fails and is
retried (see findings), so `FirewallScenariosRun`, which has no failing apply, shows
that nothing **else** breaks them. Its two scenarios are two sets of initial
states of one specification (`ScenarioSpec`); the second meets every hypothesis of
`GuardsKeepTheSession`, the first those of `LaidOutAsAsked` (section 4): no rule is
both written and deleted in it, because a delete that a guard refuses has already
dropped the rule's position (`firewall.go:829`), and a later write then displaces the
rule.
`FirewallWire` has no passing run: its claim fails as stated, and what is left of
it when the claim is restricted to what the provider models is proved rule by rule,
for every value of the constants (section 4).

Properties that belong together are one conjunction, whose parts are named in the
module: `NothingLost` (freshness of what is read, promises, record, in force),
`GuardsHold` (never emptied, stays reachable, guarded writes keep access),
`ReportedIsInForce`, `DoneAsAsked`, `AnswersAreTrue`, `HandMadeIsSafe` and
`PlansAreTrue`.

### Fairness

* `FirewallClient` (`FairSpec`), `WholeLists`, `Session`: weak fairness of each worker's own
  steps. HTTP calls are answered or time out, backoffs are bounded, and Go's mutex
  hands itself to a waiter after a millisecond of starvation. Starting operations
  is not fair: Terraform may stop.
* `SharedFolders`: in addition, strong fairness of `TakeShareMu` (the same mutex,
  but workers come back for it for ever) and of starting an apply for each share:
  a run of Terraform visits every resource, and it is run again while something
  is missing. `Settle` is weakly fair: DSM finishes what it has begun.
* `ContainerProject`: Terraform is run again (refresh, create, or the import that
  the error message of an existing project asks for), the steps of an apply go on,
  and DSM finishes.
* `ReverseProxy`, `Packages`: steps and the start of an apply are weakly fair, taking
  the mutex is strongly fair, and (packages) `Settle` is weakly fair; the wait's
  deadline is one of the steps.
* `Certificates`, `Tasks`: steps are weakly fair; the start of an apply is strongly
  fair, because it is not possible while another resource it depends on is at
  work, or while `allow_task_execution` is off.
* No fault, reconfiguration, edit or foreign change is ever fair.

### What is assumed of DSM

* A call that reached DSM and was not refused has its whole effect or, where
  marked, none (issue #130); it has it before the client stops waiting. Late
  effects of a request whose client has given up are not modelled.
* An apply that DSM reports as successful has rendered the profile.
* A restart of the provider cancels its calls; their effect may have happened.
* The interface of Container Manager edits, stops and removes projects, and does
  not create them. It does not touch a document between the check and the write of
  the same apply *unnoticed*: such an edit (`EditedLate`) is overwritten or adopted
  with the write, as in the code, and `DriftIsNoticed` does not speak of it.
* "start" does not rebuild a project; only "build" deploys a document.
* A one-shot container leaves its project in `WARNING`, running or not.
* UUIDs of reverse proxy entries and ids of certificates and tasks are not used
  again. Two entries may not have one listener (4154). The order of the list of
  entries is DSM's.
* Whether a build of DSM stores `http2` is a constant; the code expects both.
* The list of tasks with a limit of -1 has all of them, which the code infers too. An
  event task whose name exists is refused or written over.
* DSM answers for a task only at its real owner, and with an empty object elsewhere.
* Certificates and their services are listed under one API as under the other.
  `FindCertificateServiceBinding` lists under `SYNO.Core.Certificate`
  (`certificate.go:614`), where the comment at the top of the file has the list of
  certificates under `.CRT` only (`certificate.go:13`); `FindBinding` takes it that
  the list answers, as the code does.
* A code of DSM's other than 119 means that DSM has not done what it was asked.
* A package's dependencies are not circular, and DSM removes no package that
  another one needs by itself.
* The objects of the rules in a firewall profile are in that profile's encoding, and
  DSM answers every one with `port_direction` and `log`.

## 4. What is proved

Everything below holds for every value of the constants: any number of workers,
resources, requests, faults, shares and configurations, under the named assumptions
of the modules, which TLC evaluates on every run:

* the bounds are natural numbers, `NoOne` is no worker, the initial configuration is
  a configuration, plans are not empty, a dependency graph has no cycle;
* a firewall request has the fields its kind of resource has (`RequestsAssumption`), and
  what DSM has at first, or its interface saves, are profiles (`DsmAssumption`,
  `ForeignAssumption`): maps from adapters to policies and to lists with each name once;
* a share has a volume, a description and a flag, a configuration its two flags
  (`SharesAssumption`, `ConfigAssumption`);
* a configured document is not empty, which the code demands
  (`resource_container_project.go:497`), nor an edit of the interface
  (`ConfigsAssumption`);
* a configured task has a name and an account, DSM taking an empty name for no task
  (`ScenariosAssumption`), and no resource is called `"person"`, who stands for a
  person in the list of tasks (`PersonAssumption`);
* for certificates, DSM has given out an id, no resource is called `"dsm"`, who stands
  for DSM as the maker of its own certificate (`ResourcesAssumption`), and the target of
  a binding is a resource that is not a binding (`KindAssumption`).

What a theorem needs beyond that it says itself, after `ASSUME`.

| theorem | statement | argument |
|---|---|---|
| `FirewallClient_proofs!MutualExclusion` | `Spec => []OneWriter` | the lock proofs, below |
| `FirewallClient_proofs!NoLostUpdate` | `Spec => []FreshRead` | " |
| `FirewallClient_proofs!LaidOutAsAsked` | `EachRuleOnce` and `NothingUnrecorded` give `Spec => []LaidOutAsConfigured` | the proof of the order, below |
| `FirewallClient_proofs!LaidOutByPriority` | what is laid out has every managed rule at its priority, or as near as the list allows, and the others in their order | the layout proofs, below |
| `FirewallClient_proofs!ArrivalDoesNotMatter` | two rules may be written in either order: the same list is saved | " |
| `FirewallClient_proofs!Idempotent` | what is laid out stays as it is when it is laid out again | " |
| `FirewallClient_proofs!Arranged` | laying a list out, whatever the priorities, gives a list of the same rules, each once | " |
| `FirewallClient_proofs!TypeCorrect` | `Spec => []TypeOK` | the firewall invariant, below |
| `FirewallClient_proofs!PromisesStand`, `!RecordIsTrue`, `!WritesAreInForce` | `Spec => []PromiseKept`, `Spec => []RecordIsPromised`, `Spec => WrittenIsInForce` | " |
| `FirewallClient_proofs!NoWriteIsLost` | `Spec => NothingLost` | all of these and `FreshRead` |
| `FirewallClient_proofs!Implements` | `MaxForeign = 0` gives `Spec => OneChangeAtATime` | refinement of `FirewallStore`, below |
| `FirewallClient_proofs!NeverEmptied` | `NobodyEmpties` gives `Spec => []EnabledNeverEmpty` | the guard proofs, below |
| `FirewallClient_proofs!ReportsAreInForce` | `EveryCallTells` gives `Spec => ReportedIsInForce` | " |
| `FirewallClient_proofs!GuardsKeepTheSession` | these two and `NothingUnguarded` give `Spec => GuardsHold` | " |
| `WholeLists_proofs!MutualExclusion` | `Spec => []OneEditor` | " |
| `WholeLists_proofs!NoLostUpdate` | `Spec => []FreshList` | " |
| `WholeLists_proofs!Implements` | `Spec => EditsAreAtomic` | refinement: a write is an edit because what is written was made from the list as it is |
| `WholeLists_proofs!TypeCorrect` | `Spec => []TypeOK` | the list proofs, below |
| `WholeLists_proofs!StateStays` | `Spec => []StateIsTrue`: state and DSM agree, or DSM has what an operation of that resource asks for which is under way or to be run again | " |
| `WholeLists_proofs!AsAsked` | `Spec => DoneAsAsked` | " |
| `SessionCertificates_proofs!SessionTypeCorrect` | `SessionSpec => []SessionTypeOK` | one invariant for all of them, below |
| `SessionCertificates_proofs!OneLoginAtATime` | `SessionSpec => []OneLogin` | " |
| `SessionCertificates_proofs!NewestSessionWins` | `SessionSpec => []LatestSession`: with no login under way, the session in use is the last one the provider was told of | " |
| `SessionCertificates_proofs!FailureIsTruthful`, `!ExpiryIsGenuine` | `SessionSpec => []NothingBehind`, `SessionSpec => []ExpiredIsGenuine` | " |
| `SessionCertificates_proofs!TruthfulAnswers` | `SessionSpec => []AnswersAreTrue` | both together |
| `SharedFolders_proofs!TypeCorrect` | `Spec => []TypeOK` | types, and a mutation under way is the lock holder's |
| `SharedFolders_proofs!MutationsExclude` | `Spec => []OneMutation` | holder of `shareMu` and mutating worker are the same |
| `SharedFolders_proofs!AbsenceIsProved` | `Spec => NeverForgotten` | only four ways lead out of the state |
| `SharedFolders_proofs!HandMadeStays` | `Spec => HandMadeIsSafe` | the proofs about shares made by hand, below |
| `SharedFolders_proofs!NextHand` | its invariant is inductive | " |
| `ContainerProject_proofs!TypeCorrect` | `Spec => []TypeOK` | |
| `ContainerProject_proofs!BuiltAsWritten` | `Spec => WrittenIsBuilt` | "what is written stays written until built" |
| `ContainerProject_proofs!EmptyPlans` | `Spec => PlansAreTrue` | the project proofs, below |
| `ContainerProject_proofs!NextPlan` | its invariant is inductive | " |
| `ReverseProxy_proofs!TypeCorrect` | `Spec => []TypeOK` | |
| `ReverseProxy_proofs!HandsStayOff` | `Spec => []HandsOff` | the proxy proofs, below |
| `ReverseProxy_proofs!NeverLeftBehind` | `Spec => []NothingLeftBehind` | " |
| `SessionCertificates_proofs!TypeCorrect` | `Spec => []TypeOK` | the certificate proofs, below |
| `SessionCertificates_proofs!NeverLeftBehind` | `Spec => []NothingLeftBehind`, of all certificates but the `stray` ones | " |
| `SessionCertificates_proofs!ServicesAreSpared` | `Spec => ServedStays` | " |
| `SessionCertificates_proofs!BindingsAreTrue` | `Spec => BoundAsReported` | " |
| `Packages_proofs!TypeCorrect` | `Spec => []TypeOK` | |
| `Packages_proofs!NeverTwice` | `Spec => []NoCollision` | the package proofs, below |
| `Packages_proofs!RecordsAreTrue` | `Spec => []RecordedIsTrue`, of all resources but the `unsettled` ones | " |
| `Tasks_proofs!TypeCorrect` | `Spec => []TypeOK` | the task proofs, below |
| `Tasks_proofs!TasksAreTracked` | `Spec => []NothingRunsUntracked`, of all tasks but the `untold` and the `touched` ones | " |
| `Tasks_proofs!DestroyedTasksAreGone` | `Spec => DeletedIsGone`, unless the task is `touched` | " |
| `Tasks_proofs!RoundTrip` | a valid schedule that is stored and read back differs from the configured one exactly if a weekday is not in lower case | by cases of the frequency |
| `FirewallClient_proofs!UntouchedIsSentBack` | a rule nobody touched is rendered as it was read **iff** its policy is allow or drop and its protocol is one of four | the render starts from the raw object, and selectors that are unchanged stay |
| `FirewallClient_proofs!OnDiskMeansTheSame` | in the encoding on disk it means the same, if no list in it is empty | selector by selector |
| `FirewallClient_proofs!ConfirmedUnlessColon` | the read-back confirms a rule **iff** none of its port ranges has a colon | what is read back is another spelling of what was written, at most |
| `FirewallClient_proofs!OtherAdaptersAreLeft` | a write of a rule leaves what DSM stores for other adapters, a write of a policy leaves all rules, if the provider models their protocols and policies | from the first of these |
| `FirewallClient_proofs!ShapeIsKept` | a profile is written in the shape it was read in | |

**The lock proofs.** `OneWriter` alone is not inductive: a step of the worker that
holds the lock has to be known to leave the others alone, and a fresh read stays
fresh only because nobody else writes. `IInv` in `FirewallClient_proofs` conjoins
`OneWriter`, `FreshRead`, the fields a job has at each place (`Shaped`) and that
the budget of foreign saves only falls (`ForeignBudget`), which is how `FreshRead`
knows that no foreign save came between. Every action of a worker is shown to be
a `LockedStep` (it stays inside with a fresh job, or it leaves), and one lemma
carries `IInv` over a `LockedStep`. `WholeLists_proofs` repeats this argument
with the read-back outside the lock; `SharedFolders_proofs` needs only the lock.

**The layout proofs.** `Ranks` shows that counting what comes before each element of a
finite set numbers it in its order, so that `InOrder` is a permutation, for the
stable sort as for the selection of some names from a list. `PlacedCounts` follows the
loop: after `k` slots it has placed a number of managed rules that grows by at most one
with each slot, never exceeds what there is of either kind, and ends with all of
them. Hence the merged list takes every rule of both lists exactly once. All of it is
independent of the priorities: no priority can lose, repeat or add a rule.

Where the rules end up is a matter of two facts about a list, `Positioned` and
`Steady`: the managed rules are where the loop puts them, counted from the list alone,
and the others are in the order they had. Laying out gives both, and depends on nothing
else: lists of the same rules have the same managed part (`ManagedSame`), and the same
other part if those come in the same order (`OnlyNamedSame`). `ArrivalDoesNotMatter` and
`Idempotent` follow. They are what the comments at `firewall.go:635` and `:1354` claim; the
first is about **two** writes, since a permutation of many writes is an induction over
data.

**The proof of the order.** `LaidSoFar` is the invariant that `LaidOutAsConfigured` needs:
the record names exactly the rules that completed writes promise (`Known`), what is
about to be saved is laid out for the record as the read-back will leave it, and so is
what was saved and is not read back yet (`LaidJob`); every other list is laid out for
the record as it is. A save is made from the list as it is (`FreshRead` once more),
under the lock, so that no list can be laid out for two records. The hypotheses are about
the record, which the property trusts:

* `EachRuleOnce`: in one process, no rule is written in two ways, or written and deleted.
  Terraform runs one operation for each resource in one apply, and starts the
  provider anew for the next. Without it, a delete or a rewrite that is refused leaves a
  layout and a record which disagree (`firewall.go:829`, section 5).
* `NothingUnrecorded`: no save takes effect without being read back and recorded, and no
  process ends half way. After such a save, the list is laid out for a rule that the
  record does not know, and the next write lays it out without that rule's priority.

Saves and switches that DSM rejects, guards that refuse, retries of all these, and any
number of workers, profiles and requests in any order are in it. After a save by DSM's
interface the property claims nothing until the record is made anew (`Quiet`).

**The firewall invariant** is `Sound`: the lock proofs' `IInv`; `Operating`, what is
known of operations; and `Data`, what is known of what they work on.

* `Operating`: an operation is waiting, or under way, or its outcome stands, and only
  one of these (`Pending`), which is why an old promise is never about the
  request now running; a resource whose write is under way has no promise
  (`DroppedJob`); a rule write that is about to be verified has its profile in force, if
  it is the active one (`InForceJob`); a rule under deletion has left the record before it
  leaves DSM (`ForgottenJob`).
* `Data`: profiles are profiles (`WellFormed`), the record is of priorities
  (`Recordable`), and until the interface saves something, `Faithful`: the record names
  only rules that DSM has (`Listed`), every promise holds (`Kept`), and every recorded
  position is one that was asked for (`Backed`).

`PromiseKept` is not inductive without `FreshRead`, because what keeps a promise through
another operation's save is that the saved profile was made from the stored one,
and differs from it in one rule (`Arranged` once more), one map of policies, or not at
all. `RecordIsPromised` is not inductive without `Listed`: a delete of a rule that
is gone succeeds without touching the record, which then must not name it.
Both properties speak of the time until DSM's interface saves: its save may undo any
promise, and take away a rule that the record goes on placing.

**The refinement.** `Implements` maps a save of a rule to `PutRule` or `RemoveRule`, a save
of policies to `PutPolicies`, the switch to `ThrowSwitch`, and everything else to a
stutter. A save by DSM's interface is no step of `FirewallStore` (it replaces a profile,
and a save under way then undoes it, the hazard at `firewall.go:1244`), so the
theorem is about a NAS on which nobody else saves. Every fault and restart is in it.

**The guard proofs** have hypotheses about requests and DSM, and each of them excludes
a way round the guards which the code leaves open, knowingly or not:

* `NobodyEmpties`: no request has `allow_empty`, and neither DSM to begin with nor its
  interface has an empty profile in force. No more is needed for `NeverEmptied`, with
  every fault, restart and order; `FilledJob` says that what is about to go into force,
  and what is about to be switched to, has rules in it.
* `EveryCallTells`: no call takes effect unheard or is heard of without effect, applies
  do not fail, the process does not end half way. Otherwise something may be stored
  and not in force, and the retry finds nothing to do (finding 1). Its last conjunct is
  the same gap with a refused switch, and a finding (section 5). `Settled` is
  then inductive: outside a switch or an apply, what an enabled firewall stores for its
  active profile is what it enforces.
* `NothingUnguarded`: the client knows the session, no request turns the guards off
  (`allow_lockout`), the profile in force can be read (the guard warns and goes
  ahead when it cannot), nobody saves through DSM's interface, no rule is one that the
  client cannot replay (`"opaque"`: the guards let it pass), and each profile has a
  policy for each adapter (adapters that only the old profile names are not compared;
  see findings). `Guarded` is then inductive: `SafeJob` says that what is about to go into force
  was compared with what **is** in force (which needs `Settled`: the code compares with
  what is stored), and keeps the session, or, if the firewall was off, admits it.

`Selection` in section 3 says which of these the run has.

**The list proofs.** `DataInv` gives the lists their types. `AskInv` is `StateIsTrue` with
three more conjuncts: operations of one resource do not overlap (`Apart`), what a set
wrote stays until its read-back, which is outside the lock (`SetStays`, and the reason
is `Apart`: everybody else's edit leaves the entry alone), and the clock that is
being edited is the clock as it is (`ClockFresh`). `StateIsTrue` itself is carried over
one request at a time, as `TrueOf` (state and DSM agree) or `TakenOf` (DSM has what the
request asks for): a write that takes effect turns the first into the second for its own
request, since editing a list twice is editing it once, and neither changes for an entry that
another operation edits, because that edit was made from the list as it is.

**The session proof.** `CallInv` says what one call may be at each place: its
counters (`lost <= attempt`, and one more where the call ended unanswered at once;
`performed = lost` plus one for a success), and that
a call which has logged in again carries a session newer than the refused one,
POST excepted. It is inductive only together with `LoginInv`: a login under way
holds `loginMu`, nobody hears of a session meanwhile, and the session it is about to
install is the newest that was heard of. DSM may have opened others since: no request
carries those. `NothingBehind` counts repetitions, and does not forbid them: the code
sends a request again whose answer is lost, and DSM does as it is told.
`ExpiredIsGenuine` then follows because the session read by
`refreshSessionParams` is at least the one this call installed.

**Shares made by hand.** `HandInv` speaks of one name at a time, in terms of which verbs
are under way for it, the share of that name, whether Terraform has it, and what
is left of the changes by hand (`Fits`). `Purposes` says why an operation is under way:
only what Terraform has is refreshed or deleted, and a write without a record is an
adoption, on its own volume. `Respected` says of a configured name that was not
Terraform's to begin with that a share on another volume is left alone, that none is
replaced, and that one which may not be adopted is untouched, unless a person put it
in the place of one that Terraform had made. That last case is why both properties are
worded as they are: a share goes by its name, and the refresh takes the new folder
for the old one. `LacksFlag` is the adoption of section 5.

**The project proofs.** `Built` says that after the write `nas.doc`, and after the
build `nas.deployed`, is the apply's document while the interface has not
interfered. It needs the fact that `Decide` clears `job.write` on every path that
does not write, so that a start alone has nothing to vouch for. `PlanInv`, inductive together with
`IInv`, adds what an apply knows of its plan: one that only starts or stops had nothing to
write, and DSM held what the record says (`NothingToWrite`); once the document has been
looked at, an edit that nobody has seen is gone (`Written`); and in write-only mode
the checksum kept in private state is never one of a document that the interface
made (`Known`), which is why drift is noticed.

**The proxy proofs.** Both properties are about the whole life of an entry, and
neither is inductive. `HandInv` says of each resource that its operation and its
state agree on whether there is an entry (`KnownOK`), that the entries of the
state and of the operation have its description (`Named`), and that every
entry of that description made by hand is open to it from the moment it looks for
one (`Watched`). `BehindInv` is that a resource has at most one entry of its own
(`OneEntry`), of its description (`OwnNamed`), which the state stands for or a
create may just have made (`Kept`), and what each step of a create and of a
refresh knows of it (`Creating`, `OwnReadBack`, `Vanished`). `Creating` is where
`reverseProxyMu` counts: nobody else touches the listener of what was just created,
so a second attempt is answered 4154 instead of making a second entry.

**The certificate proofs.** `Certain` says what DSM, the records and the operations are: an
id is one that was given out, DSM has no binding among its certificates, the default is
installed and so is whatever serves a service; only what is in the state is read, changed,
replaced or removed, and an operation with certificates of its making has nothing in the
state (`Making`). `Tracked` is stronger than `NothingLeftBehind` in one
place: a certificate that DSM has replaced under a new id is found by the next refresh, which
looks for its common name, but a destroy takes an id that is gone for a removed certificate
(`deleteCertificate`). At `guard`, then, being replaced is no excuse: a renewal under a
destroy leaves its certificate astray, which is why `Renew` puts it into `stray`. `CertOK`
adds that what was made for a resource keeps its common name, by which the refresh finds it. Every
action is `Proper`: it makes at most one certificate, under the next id and for its
resource, changes only its own record and operation, and is `Sighted`, it does not
lose what it had in sight. `AllSpared` gives `ServedStays`: at `remove`, a service of the
certificate was given it since the guard looked. `BoundAsReported` needs of the
invariant only that a request to bind moves a service to another certificate, `old # to`.
The theorems of `Session` and `Certificates` share a module and no variable.

**The package proofs.** `CollisionInv` says that from `FindFirst` until the queue
is sent the package, and then the whole queue, stays missing, but for the first
of it once a request for it has lost its answer; it is inductive because only an
installation makes a missing package appear, and only the holder of `packageMu`
installs. `TruthInv` says of each resource whose record counts that its package is
at rest and recorded truly (`AtPeace`), except while this resource has DSM change
it (`InChange`), together with the fact that a package at rest does not move
(`Sound`). `TypeOK` splits into data and lock (`DataOK`, `LockOK`): every action of a
resource `Moves` it inside the lock, outside, or out of it.

**The task proofs.** `Sound` says what DSM's list, a record and an operation are at each
place: a scheduled task has an id that was given out and no name in its key, an
event task the reverse and the name it is found by (`Entry`); only what is in the
state is read, changed or removed, and only what is not is created (`JobOK`); an update
of an event task keeps its name (`Writing`), because another name would be another
task. Each action is shown to be `Proper`, which is what one resource's step may change
(one entry of the list, its own record and operation), and `Sighted`: what it tracked
it goes on tracking, or it is gone, untold or touched. `Tracked`, which is
`NothingRunsUntracked`, is inductive with that, since an entry that changes hands is
tracked by the one who took it, and with `Found`: as long as nobody has touched it, a
task that an operation has found still has the real owner it was found with, so that
DSM's empty answer means that it is gone, and one that was just made can be represented
when it is read back (`Readable`). Without `Found` a refresh could forget a task that is
there, and a create could end without recording one. `DeletedIsGone` follows from it
as well: DSM's "no such task" is true. It is kept (`Kept`) because an update goes to
the real owner it found, and ids are not given twice. `Safe` is the three together.

**The conversions** need no induction: the operators are total functions of one
record, and the proofs are case distinctions over their forms.

**Only model-checked:**

* every liveness property: fairness and ENABLED are not reached by the provers;
* what the hypotheses of the guard theorems and of `LaidOutAsAsked` exclude. Each of them
  stands for a behaviour of the code that does break the property.

So every invariant and every action property that a passing run checks is a theorem,
under the hypotheses it names; what is left to the runs are the nine properties that
something is done in the end.

What a recursive definition computes for every input is out of the provers' reach
altogether.

## 5. Findings

Each is a run that TLC refutes; `PROJECT.json` quotes the text it contradicts.

1. **A delete whose apply fails is reported as done by its retry**
   (`FirewallDeleteRetryRun`, `firewall.go:825`). The rule is gone from the stored
   profile, so the retry returns without applying, and stays in force.
   `SetFirewall` has the same gap when its apply fails (`firewall_settings.go:136`):
   the retry finds nothing to change and applies nothing.
2. **A rule of a protocol the provider does not model is rewritten by every write of
   its profile** (`FirewallOthersRun`, `firewall_rule_wire.go:211`). A comment says
   that the raw object is written back and nothing is lost; the render starts from
   the raw object, but sets its protocol from the model, which says "all".
   `UntouchedIsSentBack` shows that this, and a policy other than allow and drop
   (which becomes drop, `firewall.go:1864`), are the only ways an untouched rule
   changes in this encoding.

Others that modelling the code brought to light, for which no run is kept:

*Firewall.*
* A delete refused by a guard has dropped the rule's position already
  (`firewall.go:829`).
* Switching to a profile that does not mention the session's adapter is not refused,
  because only adapters that the new profile names are compared
  (`firewall_settings.go:408`), though `docs/resources/firewall.md:24` says that the
  resulting profile is replayed against the session.
* A configuration that turns the firewall off and changes policies of the profile in
  force saves them first (`firewall_settings.go:124`). If the switch is then refused,
  what is stored is no longer what is in force, and the next guarded rule write, which
  compares with what is stored, may close the session with its apply. The proof of
  `GuardsKeepTheSession` failed here first; TLC has the behaviour.
* A range of ports may be configured as `20000:20010` (`parsePortSpec` takes it); the
  rule is stored and in force, but read back as `20000-20010` and reported as not
  persisted by every apply (`firewall.go:984`; theorem `ConfirmedUnlessColon`).
* Only the adapter-keyed shape refuses to write a profile with entries it cannot
  read (`firewall.go:1513`); the shape on disk drops them (`firewall.go:1472`).
* In the encoding on disk an empty set of addresses is read as "no restriction", and
  written back as such (`firewall.go:2211`).

*Session.*
* A POST that is retried after a transport error carries no session
  (`client.go:373`, against the comment at `client.go:503`).
* A session renewed on the last attempt is never used, and the call ends with
  "max retries exceeded" (`client.go:498`).
* Which losses are tried again depends on the case of a word (`client.go:571`): a
  request that ran into the client's own timeout ("Client.Timeout exceeded") is not
  matched by "timeout", and neither is "connection reset". The call then fails at once,
  performed or not.

*Shared folders.*
* Adoption compares the volume only (`resource_shared_folder.go:244`): a folder
  without copy-on-write is adopted by a configuration that has it on, and replaced,
  contents included, by the next apply. `ContentsKept` excepts it (`LacksFlag`).
* A folder that a person makes in place of one Terraform made is Terraform's from the
  next refresh on, whatever `adopt_existing` says, because a folder is its name.
* 3328 and 3300 share one attempt counter in `mutateShare` (`share.go:74`, `:109`).

*Container projects.*
* A failed migration to `compose_yaml_wo` leaves the document in the state
  (`resource_container_project.go:531`).
* A project whose document was written and whose build failed is only started by
  the retry, because documents are compared and not deployments
  (`container_project.go:255`).
* A one-shot project that is to be stopped ends in `WARNING`, which is accepted as
  stopped and recorded as running; `SuccessLeavesNothingToDo` excepts it.

*Reverse proxy.*
* After a lost answer, 4154 is taken for the own entry by its description, which
  another one may have (`reverse_proxy.go:243`); `NothingLeftBehind` and `HandsOff`
  name the moments in which that can happen.
* `http2` is only ever sent as true: once on, it stays on.

*Certificates.*
* The provider's request timeout cuts off an issue over ACME, although the comment
  at `certificate.go:327` gives it minutes: the call is not marked as slow. DSM then
  has a certificate that no state knows, and the next apply obtains another.
* A certificate that was issued and could not be made the default is not recorded
  (`resource_certificate_lets_encrypt.go:232`).
* When a read-back fails and the import is repeated, two certificates have one
  description, and every later lookup is refused as ambiguous (`certificate.go:311`).
* A renewal between the refresh and the destroy makes the guard believe that the
  certificate is gone already; the renewed one stays (`resource_certificate.go:325`).
* A binding whose answer is lost is sent again with the old owner, which DSM takes
  for no change or for a move to the default certificate (`certificate.go:649`).
* A refresh of an issued certificate may adopt the certificate of another resource,
  because it goes by the common name (`resource_certificate_lets_encrypt.go:261`).
* Destroying a certificate together with its binding is refused, because removing a
  binding moves nothing.
* A service that no certificate serves can never be bound. A refresh drops the binding
  from the state, and the comment there says that recreating it is the right move
  (`resource_certificate_service.go:144`); but a binding that is not there has no service
  object, `bindingServiceObject` returns nil (`:225`), although its comment says that the
  object has to come from the new certificate's own list (`:219`), and DSM refuses the
  request. Every later apply fails in the same way. `Converges` names the case in a
  disjunct of its own, `Unserved`, and the run has such a service (`AssignByHand`):
  without the disjunct TLC refutes `Converges`.
* The binding is looked up in a list of `SYNO.Core.Certificate`
  (`certificate.go:614`), against the comment at `certificate.go:13`, by which
  only `.CRT` has one.

*Tasks.*
* A create whose read-back fails is recorded and tainted, as it should be; but one
  whose answer is lost is sent again, the second request **succeeds**, and the first
  task runs, as root, unknown (`task_scheduler.go:295`): an apply without any error
  leaves a task that no state has. `NothingRunsUntracked` leaves it out (`untold`), and
  without that TLC has the behaviour.
* A change of the real owner between the list and the get reads as an absent task
  (`task_scheduler.go:270`): a refresh forgets a task that goes on running, and a destroy
  is reported done. Both properties leave it out (`touched`).
* A weekday in mixed case is accepted (`task_scheduler.go:639`) and read back in lower
  case: every apply makes the task anew (theorem `RoundTrip`).
* A drift of the last hour of a repeated task is not seen if it is not configured.

*Packages.*
* The fallback to version 1 of the list has no status (`package.go:69`): a running
  package looks stopped, a wait for the end of an installation ends at once.
* A package that is found while another resource installs it as a dependency is
  adopted in transition, and recorded as it is then (`resource_package.go:151`).
* A broken package is adopted as success by a configuration that wants it stopped.
* A task that failed is not noticed: the wait holds `packageMu` until its deadline of
  15 minutes (`package.go:466`).

## 6. What is not modelled

* **Files**, beyond the transfer's retry loop, which is part of `Session`: their
  content and its checksum follow the scheme of the write-only document in
  `ContainerProject`.
* **Users, groups, home service, registries, notification mail**: one call per
  operation, nothing kept in between. The check before the creation of a registry
  is not under a lock (`registry.go:69`); two resources of one registry would be
  needed to notice.
* **Encryption of shared folders** and its key: an attribute DSM takes at creation,
  like copy-on-write, which is modelled. **PEM parsing** of certificates, **volumes
  and the catalog** of packages, **headers and access profiles** of reverse proxy
  entries (one setting here), the **numbering of rules** in the firewall's encoding
  on disk.
* **Schemas, validators, data sources, logging, configuration of the provider**:
  declarations and text. Plan modifiers that decide about replacement are part of
  the resource they belong to.
* The HTTP transport below `executeRequest`, TLS, JSON: a request has an effect or
  not, and an answer or not.

## 7. Plan

In order; each module is written so that it can be proved about (constants with
assumptions, no recursive operators).

1. Firewall: `FirewallLayout`, `FirewallGuard`, `FirewallStore`, `FirewallClient`,
   lock theorems. *Done.*
2. Session, whole-list editors, shared folders, container projects, each with its
   first theorems. *Done.*
3. Objects whose identity comes late: `ReverseProxy` with its theorems,
   `Certificates` with bindings and the default, `Tasks` with `TaskSchedules`.
   *Done.*
4. `Packages` with its theorems. *Done.*
5. `FirewallRules` and `FirewallWire`, and the theorems about both conversions. *Done.*
6. Theorems of `FirewallClient` (types, promises, record, refinement, guards, order),
   `WholeLists`, `SharedFolders` (what is made by hand), `ContainerProject` (plans),
   `Tasks` and `Certificates`. *Done.*
7. `Files`: the upload loop with write-only content and its checksum.
