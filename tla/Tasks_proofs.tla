---------------------------- MODULE Tasks_proofs ----------------------------
(***************************************************************************)
(* For every set of resources, every sequence of configurations and every  *)
(* combination of faults and changes by hand: a task that DSM told the     *)
(* provider of stays in the state, and a destroy that is reported leaves   *)
(* none, but for what a person changes under an operation.                 *)
(* What is stored of a schedule comes last.                                *)
(***************************************************************************)
EXTENDS Tasks, SequenceTheorems, TLAPS

----------------------------------------------------------------------------
(***************************************************************************)
(* The inductive invariant, of one entry of DSM's list, one record of      *)
(* Terraform's state and one operation at a time.                          *)
(***************************************************************************)
\* next is the id DSM gives out next.  An event task is found by the name it has.
IsPair(key) == key = <<key[1], key[2]>> /\ key[1] \in Nat

IsKey(key, next) ==
    /\ IsPair(key) /\ key[1] < next
    /\ key[1] # NoId <=> key[2] = NoName

IsTask(task) == DOMAIN task = {"name", "owner", "real", "command", "by", "doc"}

Entry(key, task, next) ==
    /\ IsKey(key, next) /\ IsTask(task)
    /\ task.name # NoName /\ task.owner # "none"
    /\ key[1] = NoId => task.name = key[2]

RecordOK(r, seen, next) ==
    /\ seen.id \in Nat /\ seen.id < next
    /\ seen # None => (Scheduled(r) <=> seen.id # NoId)

\* Where an operation looks for the task of its resource.
KeyIn(r, seen) == KeyOf(r, seen.id, seen.name)

\* Only what is in the state is read, changed or removed, only what is not is created.
Making(r, j, seen, next, want) ==
    /\ seen = None /\ want \in Settings
    /\ IsPair(j.key)
    /\ IF Scheduled(r) THEN j.key[1] # NoId /\ j.key[1] < next /\ j.key[2] = NoName
       ELSE j.key = <<NoId, want.name>>

Writing(r, j, seen, want) ==
    /\ DOMAIN j = {"pc", "verb", "tries"}
    /\ want \in Settings
    /\ j.verb = "create" => seen = None
    /\ j.verb = "update" => seen # None /\ (Scheduled(r) \/ seen.name = want.name)
    /\ j.verb \in {"create", "update"}

JobOK(r, j, seen, next, want) ==
    \/ j = Idle
    \/ /\ j.pc \in {"get", "getAfter"} /\ DOMAIN j = {"pc", "key", "real"}
       /\ seen # None /\ j.key = KeyIn(r, seen)
       /\ j.pc = "get" => Scheduled(r)
    \/ /\ j.pc = "remove" /\ DOMAIN j = {"pc", "tries"}
       /\ seen # None
    \/ /\ j.pc \in {"confirm", "update"} /\ Writing(r, j, seen, want)
       /\ j.pc = "update" => j.verb = "update"
    \/ /\ j.pc = "create" /\ Writing(r, j, seen, want) /\ j.verb = "create"
    \/ /\ j.pc = "listBack" /\ DOMAIN j = {"pc", "key"}
       /\ Scheduled(r) /\ Making(r, j, seen, next, want)
    \/ /\ j.pc = "getBack" /\ DOMAIN j = {"pc", "key", "real"}
       /\ Making(r, j, seen, next, want)

Sound ==
    /\ fresh \in Nat /\ NoId < fresh /\ fresh <= MaxId + 1
    /\ configs \in Seq(Configurations) /\ configs # <<>>
    /\ DOMAIN known = Resources /\ DOMAIN job = Resources
    /\ \A key \in DOMAIN tasks : Entry(key, tasks[key], fresh)
    /\ \A r \in Resources : RecordOK(r, known[r], fresh)
    /\ \A r \in Resources : JobOK(r, job[r], known[r], fresh, Want(r))

\* A task is known to a resource, or its operation under way reads it back.
Telling(j) == j.pc \in {"listBack", "getBack"}

Tracks(r, key, seen, j) ==
    \/ seen # None /\ KeyIn(r, seen) = key
    \/ Telling(j) /\ j.key = key

Tracked ==
    \A key \in DOMAIN tasks \ (untold \union touched) :
        LET r == tasks[key].by
        IN  r \in Resources => Tracks(r, key, known[r], job[r])

\* A task that an operation deals with is as it was found, unless a person has changed it
\* since: its real owner is the one that is about to be named, and a new one still has a
\* schedule that can be represented.
Readable(doc) == ParseSchedule(doc).frequency # NoFrequency

Untouched(key) == key \in DOMAIN tasks /\ key \notin touched

AsFound(r, seen, j) ==
    Scheduled(r) =>
        /\ j.pc = "remove" /\ Untouched(KeyIn(r, seen)) =>
              tasks[KeyIn(r, seen)].real = seen.real
        /\ j.pc = "get" /\ Untouched(j.key) => tasks[j.key].real = j.real
        /\ Telling(j) /\ Untouched(j.key) => Readable(tasks[j.key].doc)

Found == \A r \in Resources : AsFound(r, known[r], job[r])

\* What a step of r changes: its own record and operation,
Frame(r) ==
    /\ DOMAIN job' = Resources /\ DOMAIN known' = Resources
    /\ \A q \in Resources : q # r => job'[q] = job[q] /\ known'[q] = known[q]

\* in DSM's list one entry, which it takes out, or changes, or makes: then it tracks it, or
\* was not told of it,
Listing(r) ==
    \/ UNCHANGED tasks
    \/ \E key : Drop(key)
    \/ \E key, task :
          /\ Put(key, task) /\ Entry(key, task, fresh')
          /\ \/ key \in DOMAIN tasks /\ task.by = tasks[key].by
             \/ task.by = r /\ (key \in untold' \/ Tracks(r, key, known'[r], job'[r]))

Proper(r) ==
    /\ configs' = configs
    /\ fresh' \in Nat /\ fresh <= fresh' /\ fresh' <= MaxId + 1
    /\ Frame(r) /\ Listing(r)
    /\ RecordOK(r, known'[r], fresh')
    /\ JobOK(r, job'[r], known'[r], fresh', Want(r))

\* and it loses sight of no task; one that it was told of late it tracks from then on.
Sighted(r) ==
    /\ touched' = touched
    /\ \A key \in DOMAIN tasks' : key \in untold /\ key \notin untold' =>
          tasks'[key].by = r /\ Tracks(r, key, known'[r], job'[r])
    /\ \A key \in DOMAIN tasks' \ (untold' \union touched) :
          Tracks(r, key, known[r], job[r]) => Tracks(r, key, known'[r], job'[r])

----------------------------------------------------------------------------
LEMMA PutEntry ==
  ASSUME NEW key, NEW task, Put(key, task)
  PROVE  /\ DOMAIN tasks' = DOMAIN tasks \union {key}
         /\ tasks'[key] = task
         /\ \A k \in DOMAIN tasks' : k # key => k \in DOMAIN tasks /\ tasks'[k] = tasks[k]
  BY DEF Put

LEMMA DropEntry ==
  ASSUME NEW key, Drop(key)
  PROVE  /\ DOMAIN tasks' = DOMAIN tasks \ {key}
         /\ \A k \in DOMAIN tasks' : k \in DOMAIN tasks /\ tasks'[k] = tasks[k]
  BY DEF Drop

LEMMA Pair ==
  ASSUME NEW a \in Nat, NEW b
  PROVE  IsPair(<<a, b>>) /\ <<a, b>>[1] = a /\ <<a, b>>[2] = b
  BY DEF IsPair

LEMMA Further ==
  ASSUME NEW a \in Nat, NEW b \in Nat, NEW c \in Nat, a < b, b <= c
  PROVE  a < c
  OBVIOUS

LEMMA MoreIds ==
  ASSUME NEW n \in Nat, NEW m \in Nat, n <= m, NEW key, IsKey(key, n)
  PROVE  IsKey(key, m)
<1>1. IsPair(key) /\ key[1] < n
  BY DEF IsKey
<1>2. key[1] \in Nat
  BY <1>1 DEF IsPair
<1>3. key[1] < m
  BY <1>1, <1>2, Further
<1> QED
  BY <1>3 DEF IsKey

\* The entries stay entries.
LEMMA EntriesStay ==
  ASSUME Sound, fresh' \in Nat, fresh <= fresh',
         \/ UNCHANGED tasks
         \/ \E key : Drop(key)
         \/ \E key, task : Put(key, task) /\ Entry(key, task, fresh')
  PROVE  \A key \in DOMAIN tasks' : Entry(key, tasks'[key], fresh')
<1>1. ASSUME NEW key \in DOMAIN tasks PROVE Entry(key, tasks[key], fresh')
  <2>1. Entry(key, tasks[key], fresh)
    BY DEF Sound
  <2>2. IsKey(key, fresh')
    BY <2>1, MoreIds DEF Entry, Sound
  <2> QED
    BY <2>1, <2>2 DEF Entry
<1>2. CASE UNCHANGED tasks
  BY <1>1, <1>2
<1>3. ASSUME NEW key, Drop(key) PROVE \A k \in DOMAIN tasks' : Entry(k, tasks'[k], fresh')
  BY <1>1, <1>3, DropEntry
<1>4. ASSUME NEW key, NEW task, Put(key, task), Entry(key, task, fresh')
      PROVE  \A k \in DOMAIN tasks' : Entry(k, tasks'[k], fresh')
  <2>1. /\ tasks'[key] = task
        /\ \A k \in DOMAIN tasks' : k # key => k \in DOMAIN tasks /\ tasks'[k] = tasks[k]
    BY <1>4, PutEntry
  <2> QED
    BY <1>1, <1>4, <2>1
<1> QED
  BY <1>2, <1>3, <1>4

LEMMA SomeRecord ==
  ASSUME NEW seen, seen.user # "none" \/ seen.tainted
  PROVE  seen # None
<1>1. None.user = "none" /\ None.tainted = FALSE
  BY DEF None
<1> QED
  BY <1>1

\* What is read of a task is a record of it, found where the task was.
LEMMA ReadRecord ==
  ASSUME Sound, NEW r \in Resources, NEW key \in DOMAIN tasks, NEW tainted,
         Scheduled(r) <=> key[1] # NoId
  PROVE  LET seen == Parsed(r, key, tainted)
         IN  /\ RecordOK(r, seen, fresh) /\ seen # None /\ KeyIn(r, seen) = key
             /\ seen.name = tasks[key].name /\ seen.real = tasks[key].real
<1> DEFINE seen == Parsed(r, key, tainted)
<1>1. Entry(key, tasks[key], fresh) /\ IsKey(key, fresh)
  BY DEF Sound, Entry
<1>2. /\ seen.id = key[1] /\ seen.name = tasks[key].name /\ seen.user = tasks[key].owner
      /\ seen.real = tasks[key].real
  BY DEF Parsed
<1> HIDE DEF seen
<1>3. seen # None
  BY <1>1, <1>2, SomeRecord DEF Entry
<1>4. key = <<key[1], key[2]>> /\ key[1] \in Nat
  BY <1>1 DEF IsKey, IsPair
<1>5. KeyIn(r, seen) = key
  <2>1. CASE Scheduled(r)
    BY <1>1, <1>2, <1>4, <2>1 DEF KeyIn, KeyOf, IsKey
  <2>2. CASE ~Scheduled(r)
    BY <1>1, <1>2, <1>4, <2>2 DEF KeyIn, KeyOf, Entry
  <2> QED
    BY <2>1, <2>2
<1>6. RecordOK(r, seen, fresh)
  BY <1>1, <1>2, <1>4 DEF RecordOK, Entry, IsKey
<1> QED
  BY <1>2, <1>3, <1>5, <1>6 DEF seen

\* Where the task of a resource is looked for.
LEMMA KnownKeyForm ==
  ASSUME Sound, NEW r \in Resources, known[r] # None
  PROVE  /\ KnownKey(r) = KeyIn(r, known[r])
         /\ Scheduled(r) <=> KnownKey(r)[1] # NoId
         /\ Scheduled(r) => KnownKey(r)[1] \in Nat /\ KnownKey(r)[1] < fresh
                            /\ KnownKey(r)[2] = NoName
         /\ ~Scheduled(r) => KnownKey(r) = <<NoId, known[r].name>>
<1>1. RecordOK(r, known[r], fresh)
  BY DEF Sound
<1>2. CASE Scheduled(r)
  BY <1>1, <1>2 DEF RecordOK, KnownKey, KeyIn, KeyOf
<1>3. CASE ~Scheduled(r)
  BY <1>1, <1>3 DEF RecordOK, KnownKey, KeyIn, KeyOf
<1> QED
  BY <1>2, <1>3

\* Every resource is configured, or is to be gone.
LEMMA WantForm ==
  ASSUME Sound, NEW r \in Resources, ~Destroyed(r)
  PROVE  Want(r) \in Settings
<1>1. Head(configs) \in Configurations
  BY DEF Sound
<1>2. Head(configs) \in [Resources -> Settings \union {Gone}]
  BY <1>1 DEF Configurations
<1> QED
  BY <1>2 DEF Want, Destroyed

LEMMA SettingForm ==
  ASSUME NEW want \in Settings
  PROVE  want.name # NoName /\ want.user # "none"
  BY DEF Settings

LEMMA GotoFrame ==
  ASSUME Sound, NEW r \in Resources, NEW to, Goto(r, to)
  PROVE  Frame(r) /\ job'[r] = to /\ known' = known /\ known'[r] = known[r]
  BY DEF Goto, Frame, Sound

LEMMA FailFrame ==
  ASSUME Sound, NEW r \in Resources, Fail(r)
  PROVE  Frame(r) /\ job'[r] = Idle /\ known' = known /\ known'[r] = known[r]
  BY GotoFrame DEF Fail

LEMMA EndFrame ==
  ASSUME Sound, NEW r \in Resources, NEW seen, End(r, seen)
  PROVE  Frame(r) /\ job'[r] = Idle /\ known'[r] = seen
  BY DEF End, Frame, Sound

LEMMA ForgetFrame ==
  ASSUME Sound, NEW r \in Resources, Forget(r)
  PROVE  Frame(r) /\ job'[r] = Idle /\ known'[r] = None
  BY EndFrame DEF Forget

LEMMA IdleOK ==
  ASSUME NEW r, NEW seen, NEW next, NEW want
  PROVE  JobOK(r, Idle, seen, next, want) /\ ~Telling(Idle)
  BY DEF JobOK, Idle, Telling

LEMMA NoneOK ==
  ASSUME Sound, NEW r
  PROVE  RecordOK(r, None, fresh)
<1>1. 0 < fresh
  BY DEF Sound, NoId
<1>2. None.id = 0
  BY DEF None, NoId
<1> QED
  BY <1>1, <1>2 DEF RecordOK

\* The first step of what was planned.
LEMMA FirstStepOK ==
  ASSUME Sound, NEW r \in Resources, NEW seen, NEW verb,
         \/ verb = "create" /\ seen = None /\ ~Destroyed(r)
         \/ verb = PlannedVerb(r, seen) /\ seen # None
  PROVE  /\ JobOK(r, FirstStep(r, verb), seen, fresh, Want(r))
         /\ FirstStep(r, verb).pc \in {"idle", "remove", "confirm", "create", "update"}
<1>1. CASE verb = "nothing"
  BY <1>1, IdleOK DEF FirstStep, Idle
<1>2. CASE verb = "delete"
  <2>1. FirstStep(r, verb) = [pc |-> "remove", tries |-> 0]
    BY <1>2 DEF FirstStep
  <2>2. seen # None
    BY <1>2
  <2> QED
    BY <2>1, <2>2 DEF JobOK
<1>3. CASE verb \in {"create", "update"}
  <2> DEFINE pc == IF Want(r).user = "root" \/ ~Scheduled(r) THEN "confirm" ELSE verb
             j == [pc |-> pc, verb |-> verb, tries |-> 0]
  <2>1. FirstStep(r, verb) = j
    BY <1>3 DEF FirstStep
  <2>2. ~Destroyed(r) /\ Want(r) \in Settings
    BY <1>3, WantForm DEF PlannedVerb
  <2>3. verb = "update" => seen # None /\ (Scheduled(r) \/ seen.name = Want(r).name)
    BY <1>3 DEF PlannedVerb
  <2>4. verb = "create" => seen = None
    BY DEF PlannedVerb
  <2>5. Writing(r, j, seen, Want(r)) /\ j.verb = verb
    BY <1>3, <2>2, <2>3, <2>4 DEF Writing
  <2>6. j.pc = "confirm" \/ j.pc = verb
    OBVIOUS
  <2> HIDE DEF j
  <2>7. JobOK(r, j, seen, fresh, Want(r))
    BY <1>3, <2>5, <2>6 DEF JobOK
  <2> QED
    BY <1>3, <2>1, <2>6, <2>7
<1> QED
  BY <1>1, <1>2, <1>3 DEF PlannedVerb

\* A refresh goes on with the plan.
LEMMA RefreshedOK ==
  ASSUME Sound, NEW r \in Resources, known[r] # None, Exists(KnownKey(r)),
         Refreshed(r, KnownKey(r))
  PROVE  /\ Frame(r) /\ RecordOK(r, known'[r], fresh)
         /\ JobOK(r, job'[r], known'[r], fresh, Want(r))
         /\ known'[r] # None /\ KeyIn(r, known'[r]) = KnownKey(r)
         /\ known'[r].real = tasks[KnownKey(r)].real
<1> DEFINE key == KnownKey(r)
           seen == Parsed(r, key, known[r].tainted)
<1>1. /\ RecordOK(r, seen, fresh) /\ seen # None /\ KeyIn(r, seen) = key
      /\ seen.real = tasks[key].real
  BY KnownKeyForm, ReadRecord DEF Exists
<1>2. JobOK(r, FirstStep(r, PlannedVerb(r, seen)), seen, fresh, Want(r))
  BY <1>1, FirstStepOK
<1>3. /\ known' = [known EXCEPT ![r] = seen]
      /\ job' = [job EXCEPT ![r] = FirstStep(r, PlannedVerb(r, seen))]
  BY DEF Refreshed
<1> HIDE DEF seen, key
<1>4. known'[r] = seen /\ job'[r] = FirstStep(r, PlannedVerb(r, seen)) /\ Frame(r)
  BY <1>3 DEF Sound, Frame
<1> QED
  BY <1>1, <1>2, <1>4 DEF key

----------------------------------------------------------------------------
(***************************************************************************)
(* Every step of a resource is proper and loses sight of no task.          *)
(***************************************************************************)
\* A step that leaves DSM's list as it is.
LEMMA Looks ==
  ASSUME Sound, NEW r \in Resources, Frame(r), UNCHANGED <<tasks, fresh, configs>>,
         RecordOK(r, known'[r], fresh),
         JobOK(r, job'[r], known'[r], fresh, Want(r))
  PROVE  Proper(r)
  BY DEF Proper, Listing, Sound

LEMMA CreateStep ==
  ASSUME Sound, NEW r \in Resources, Create(r)
  PROVE  Proper(r) /\ Sighted(r)
<1>1. known[r] = None /\ job[r] = Idle /\ ~Destroyed(r)
  BY DEF Create, At, Sound, JobOK, Writing, Idle
<1>2. /\ Frame(r) /\ job'[r] = FirstStep(r, "create") /\ known'[r] = None
  BY <1>1, GotoFrame DEF Create
<1>3. JobOK(r, job'[r], None, fresh, Want(r))
  BY <1>1, <1>2, FirstStepOK
<1>4. UNCHANGED <<tasks, fresh, configs, untold, touched>>
  BY DEF Create
<1>5. Proper(r)
  BY <1>2, <1>3, <1>4, NoneOK, Looks
<1>6. \A key : ~Tracks(r, key, known[r], job[r])
  BY <1>1, IdleOK DEF Tracks
<1> QED
  BY <1>4, <1>5, <1>6 DEF Sighted

\* What job is at each place.
LEMMA JobAt ==
  ASSUME Sound, NEW r \in Resources
  PROVE  /\ JobOK(r, job[r], known[r], fresh, Want(r)) /\ RecordOK(r, known[r], fresh)
         /\ At(r, "idle") => job[r] = Idle
         /\ job[r].pc \in {"get", "getAfter"} =>
               /\ DOMAIN job[r] = {"pc", "key", "real"} /\ known[r] # None
               /\ job[r].key = KnownKey(r) /\ (At(r, "get") => Scheduled(r))
         /\ At(r, "remove") => DOMAIN job[r] = {"pc", "tries"} /\ known[r] # None
         /\ job[r].pc \in {"confirm", "update"} =>
               /\ Writing(r, job[r], known[r], Want(r))
               /\ At(r, "update") => job[r].verb = "update"
         /\ At(r, "create") =>
               Writing(r, job[r], known[r], Want(r)) /\ job[r].verb = "create"
         /\ At(r, "listBack") =>
               /\ DOMAIN job[r] = {"pc", "key"} /\ Scheduled(r)
               /\ Making(r, job[r], known[r], fresh, Want(r))
         /\ At(r, "getBack") =>
               /\ DOMAIN job[r] = {"pc", "key", "real"}
               /\ Making(r, job[r], known[r], fresh, Want(r))
<1>1. JobOK(r, job[r], known[r], fresh, Want(r)) /\ RecordOK(r, known[r], fresh)
  BY DEF Sound
<1>2. KnownKey(r) = KeyIn(r, known[r])
  BY DEF KnownKey, KeyIn
<1> QED
  BY <1>1, <1>2 DEF JobOK, At, Idle

\* An operation that reads no task back may end with what is in the state.
LEMMA StopStep ==
  ASSUME Sound, NEW r \in Resources, Fail(r), ~Telling(job[r]),
         UNCHANGED <<tasks, fresh, configs, untold, touched>>
  PROVE  Proper(r) /\ Sighted(r)
<1>1. Frame(r) /\ job'[r] = Idle /\ known'[r] = known[r]
  BY FailFrame
<1>2. Proper(r)
  BY <1>1, IdleOK, Looks, JobAt
<1>3. Sighted(r)
  BY <1>1 DEF Sighted, Tracks
<1> QED
  BY <1>2, <1>3

\* One that reads none back and knows the task still where it knew it,
LEMMA SameTask ==
  ASSUME NEW r, ~Telling(job[r]), UNCHANGED <<untold, touched>>,
         known'[r] # None, KeyIn(r, known'[r]) = KeyIn(r, known[r])
  PROVE  Sighted(r)
  BY DEF Sighted, Tracks

\* or knows it no more, and it is gone or a person has changed it.
LEMMA NoTask ==
  ASSUME NEW r, ~Telling(job[r]), UNCHANGED <<untold, touched>>,
         KeyIn(r, known[r]) \in DOMAIN tasks' => KeyIn(r, known[r]) \in touched
  PROVE  Sighted(r)
  BY DEF Sighted, Tracks

LEMMA ReadStep ==
  ASSUME Sound, NEW r \in Resources, Read(r)
  PROVE  Proper(r) /\ Sighted(r)
<1> DEFINE key == KnownKey(r)
<1>1. /\ known[r] # None /\ job[r] = Idle /\ key = KeyIn(r, known[r])
      /\ RecordOK(r, known[r], fresh)
  BY JobAt, KnownKeyForm DEF Read
<1>2. UNCHANGED <<tasks, fresh, configs, untold, touched>>
  BY DEF Read
<1>3. ~Telling(job[r])
  BY <1>1, IdleOK
<1>4. CASE /\ Exists(key) /\ Scheduled(r)
           /\ Goto(r, [pc |-> "get", key |-> key, real |-> tasks[key].real])
  <2> DEFINE j == [pc |-> "get", key |-> key, real |-> tasks[key].real]
  <2>1. Frame(r) /\ job'[r] = j /\ known'[r] = known[r]
    BY <1>4, GotoFrame
  <2>2. JobOK(r, j, known[r], fresh, Want(r))
    BY <1>1, <1>4 DEF JobOK
  <2>3. Proper(r)
    BY <1>1, <1>2, <2>1, <2>2, Looks
  <2> QED
    BY <1>1, <1>2, <1>3, <2>1, <2>3, SameTask
<1>5. CASE Exists(key) /\ Refreshed(r, key)
  <2>1. /\ Frame(r) /\ RecordOK(r, known'[r], fresh)
        /\ JobOK(r, job'[r], known'[r], fresh, Want(r))
        /\ known'[r] # None /\ KeyIn(r, known'[r]) = key
    BY <1>1, <1>5, RefreshedOK
  <2>2. Proper(r)
    BY <1>2, <2>1, Looks
  <2> QED
    BY <1>1, <1>2, <1>3, <2>1, <2>2, SameTask
<1>6. CASE ~Exists(key) /\ Forget(r)
  <2>1. Frame(r) /\ job'[r] = Idle /\ known'[r] = None
    BY <1>6, ForgetFrame
  <2>2. Proper(r)
    BY <1>2, <2>1, IdleOK, NoneOK, Looks
  <2> QED
    BY <1>1, <1>2, <1>3, <1>6, <2>2, NoTask DEF Exists
<1>7. CASE Fail(r)
  <2>1. Frame(r) /\ job'[r] = Idle /\ known'[r] = known[r]
    BY <1>7, FailFrame
  <2>2. Proper(r)
    BY <1>1, <1>2, <2>1, IdleOK, Looks
  <2> QED
    BY <1>1, <1>2, <1>3, <2>1, <2>2, SameTask
<1> QED
  BY <1>4, <1>5, <1>6, <1>7 DEF Read

LEMMA FoundAt ==
  ASSUME Sound, NEW r \in Resources, job[r].pc \in {"get", "getAfter"}
  PROVE  /\ known[r] # None /\ job[r].key = KnownKey(r) /\ KnownKey(r) = KeyIn(r, known[r])
         /\ ~Telling(job[r])
<1>1. known[r] # None /\ job[r].key = KnownKey(r)
  BY JobAt
<1>2. ~Telling(job[r])
  BY DEF Telling
<1> QED
  BY <1>1, <1>2, KnownKeyForm

LEMMA GetStep ==
  ASSUME Sound, Found, NEW r \in Resources, Get(r)
  PROVE  Proper(r) /\ Sighted(r)
<1> DEFINE key == job[r].key
<1>1. /\ known[r] # None /\ key = KnownKey(r) /\ key = KeyIn(r, known[r])
      /\ ~Telling(job[r])
  BY FoundAt DEF Get, At
<1>2. UNCHANGED <<tasks, fresh, configs, untold, touched>>
  BY DEF Get
<1>3. CASE Answers(key, job[r].real) /\ Refreshed(r, key)
  <2>1. Exists(KnownKey(r)) /\ Refreshed(r, KnownKey(r))
    BY <1>1, <1>3 DEF Answers
  <2>2. /\ Frame(r) /\ RecordOK(r, known'[r], fresh)
        /\ JobOK(r, job'[r], known'[r], fresh, Want(r))
        /\ known'[r] # None /\ KeyIn(r, known'[r]) = key
    BY <1>1, <2>1, RefreshedOK
  <2>3. Proper(r)
    BY <1>2, <2>2, Looks
  <2> QED
    BY <1>1, <1>2, <2>2, <2>3, SameTask
<1>4. CASE ~Answers(key, job[r].real) /\ Forget(r)
  <2>1. Frame(r) /\ job'[r] = Idle /\ known'[r] = None
    BY <1>4, ForgetFrame
  <2>2. Proper(r)
    BY <1>2, <2>1, IdleOK, NoneOK, Looks
  <2>3. Scheduled(r) /\ job[r].pc = "get"
    BY JobAt DEF Get, At
  <2>4. ~Untouched(key)
    BY <1>4, <2>3 DEF Found, AsFound, Answers, Exists, Untouched
  <2> QED
    BY <1>1, <1>2, <2>2, <2>4, NoTask DEF Untouched
<1>5. CASE Fail(r)
  BY <1>1, <1>2, <1>5, StopStep
<1> QED
  BY <1>3, <1>4, <1>5 DEF Get

LEMMA ConfirmStep ==
  ASSUME Sound, NEW r \in Resources, Confirm(r)
  PROVE  Proper(r) /\ Sighted(r)
<1>1. /\ Writing(r, job[r], known[r], Want(r)) /\ ~Telling(job[r])
      /\ RecordOK(r, known[r], fresh)
  BY JobAt DEF Confirm, At, Telling
<1>2. UNCHANGED <<tasks, fresh, configs, untold, touched>>
  BY DEF Confirm
<1>3. CASE Goto(r, [job[r] EXCEPT !.pc = job[r].verb])
  <2> DEFINE j == [job[r] EXCEPT !.pc = job[r].verb]
  <2>1. Frame(r) /\ job'[r] = j /\ known'[r] = known[r]
    BY <1>3, GotoFrame
  <2>2. DOMAIN j = {"pc", "verb", "tries"} /\ j.pc = job[r].verb /\ j.verb = job[r].verb
    BY <1>1 DEF Writing
  <2> HIDE DEF j
  <2>3. Writing(r, j, known[r], Want(r)) /\ j.verb \in {"create", "update"}
    BY <1>1, <2>2 DEF Writing
  <2>4. JobOK(r, j, known[r], fresh, Want(r))
    BY <2>2, <2>3 DEF JobOK
  <2>5. Proper(r)
    BY <1>1, <1>2, <2>1, <2>4, Looks
  <2>6. Sighted(r)
    BY <1>1, <1>2, <2>1 DEF Sighted, Tracks
  <2> QED
    BY <2>5, <2>6
<1>4. CASE Fail(r)
  BY <1>1, <1>2, <1>4, StopStep
<1> QED
  BY <1>3, <1>4 DEF Confirm

LEMMA RefusedStep ==
  ASSUME Sound, NEW r \in Resources, Refused(r)
  PROVE  Proper(r) /\ Sighted(r)
<1>1. UNCHANGED <<tasks, fresh, configs, untold, touched>> /\ Fail(r)
  BY DEF Refused
<1>2. ~Telling(job[r])
  BY DEF Refused, Telling
<1> QED
  BY <1>1, <1>2, StopStep

LEMMA GetAfterStep ==
  ASSUME Sound, NEW r \in Resources, GetAfter(r)
  PROVE  Proper(r) /\ Sighted(r)
<1> DEFINE key == job[r].key
<1>1. /\ known[r] # None /\ key = KnownKey(r) /\ key = KeyIn(r, known[r])
      /\ ~Telling(job[r])
  BY FoundAt DEF GetAfter, At
<1>2. UNCHANGED <<tasks, fresh, configs, untold, touched>>
  BY DEF GetAfter
<1>3. CASE Answers(key, job[r].real) /\ End(r, Parsed(r, key, FALSE))
  <2> DEFINE seen == Parsed(r, key, FALSE)
  <2>1. Frame(r) /\ job'[r] = Idle /\ known'[r] = seen
    BY <1>3, EndFrame
  <2>2. RecordOK(r, seen, fresh) /\ seen # None /\ KeyIn(r, seen) = key
    <3>1. key \in DOMAIN tasks /\ (Scheduled(r) <=> key[1] # NoId)
      BY <1>1, <1>3, KnownKeyForm DEF Answers, Exists
    <3> HIDE DEF key
    <3> QED
      BY <3>1, ReadRecord
  <2>3. Proper(r)
    BY <1>2, <2>1, <2>2, IdleOK, Looks
  <2> QED
    BY <1>1, <1>2, <2>1, <2>2, <2>3, SameTask
<1>4. CASE Fail(r)
  BY <1>1, <1>2, <1>4, StopStep
<1> QED
  BY <1>3, <1>4 DEF GetAfter

\* What is asked for is a task, under the name that is asked for.
LEMMA RequestedTask ==
  ASSUME NEW r, NEW real, Want(r) \in Settings
  PROVE  LET task == Requested(r, real)
         IN  /\ IsTask(task) /\ task.name = Want(r).name /\ task.name # NoName
             /\ task.owner # "none" /\ task.by = r /\ task.real = real
<1> DEFINE task == Requested(r, real)
<1>1. Want(r).name # NoName /\ Want(r).user # "none"
  BY SettingForm
<1>2. /\ task.name = Want(r).name /\ task.owner = Want(r).user
      /\ task.by = r /\ task.real = real /\ IsTask(task)
  BY DEF Requested, IsTask
<1> HIDE DEF task
<1>3. /\ IsTask(task) /\ task.name = Want(r).name /\ task.name # NoName
      /\ task.owner # "none" /\ task.by = r /\ task.real = real
  BY <1>1, <1>2
<1> QED
  BY <1>3 DEF task

\* Only the operation's own attempts are counted.
LEMMA TryAgain ==
  ASSUME Sound, NEW r \in Resources, Goto(r, [job[r] EXCEPT !.tries = 1]),
         job[r].pc \in {"update", "remove"}
  PROVE  /\ Frame(r) /\ known'[r] = known[r]
         /\ JobOK(r, job'[r], known[r], fresh, Want(r))
         /\ RecordOK(r, known[r], fresh)
<1> DEFINE j == [job[r] EXCEPT !.tries = 1]
<1>1. Frame(r) /\ job'[r] = j /\ known'[r] = known[r] /\ RecordOK(r, known[r], fresh)
  BY GotoFrame, JobAt
<1>2. CASE job[r].pc = "update"
  <2>1. Writing(r, job[r], known[r], Want(r)) /\ job[r].verb = "update"
    BY <1>2, JobAt DEF At
  <2>2. /\ DOMAIN j = {"pc", "verb", "tries"} /\ j.pc = "update"
        /\ j.verb = job[r].verb
    BY <1>2, <2>1 DEF Writing
  <2> HIDE DEF j
  <2>3. Writing(r, j, known[r], Want(r))
    BY <2>1, <2>2 DEF Writing
  <2> QED
    BY <1>1, <2>1, <2>2, <2>3 DEF JobOK
<1>3. CASE job[r].pc = "remove"
  <2>1. DOMAIN job[r] = {"pc", "tries"} /\ known[r] # None
    BY <1>3, JobAt DEF At
  <2>2. j.pc = "remove" /\ DOMAIN j = {"pc", "tries"}
    BY <1>3, <2>1
  <2> HIDE DEF j
  <2> QED
    BY <1>1, <2>1, <2>2 DEF JobOK
<1> QED
  BY <1>2, <1>3

LEMMA UpdateStep ==
  ASSUME Sound, NEW r \in Resources, Update(r)
  PROVE  Proper(r) /\ Sighted(r)
<1> DEFINE key == KnownKey(r)
           real == IF Scheduled(r) THEN known[r].real ELSE Want(r).user
           task == [Requested(r, real) EXCEPT !.by = tasks[key].by]
<1>1. /\ Writing(r, job[r], known[r], Want(r)) /\ ~Telling(job[r])
      /\ job[r].verb = "update" /\ job[r].pc = "update" /\ RecordOK(r, known[r], fresh)
  BY JobAt DEF Update, At, Telling
<1>2. UNCHANGED <<fresh, configs, untold, touched>>
  BY DEF Update
<1>3. /\ known[r] # None /\ key = KeyIn(r, known[r]) /\ Want(r) \in Settings
      /\ ~Scheduled(r) => key = <<NoId, Want(r).name>>
      /\ Scheduled(r) <=> key[1] # NoId
  BY <1>1, KnownKeyForm DEF Writing
<1>4. CASE /\ Exists(key) /\ Put(key, task)
           /\ \/ Goto(r, [pc |-> "getAfter", key |-> key, real |-> real])
              \/ Again(r)
              \/ LostForGood(r)
  <2>1. key \in DOMAIN tasks /\ Entry(key, tasks[key], fresh)
    BY <1>4 DEF Sound, Exists
  <2>2. Entry(key, task, fresh) /\ task.by = tasks[key].by
    <3> DEFINE asked == Requested(r, real)
    <3> HIDE DEF key, real
    <3>1. /\ IsTask(asked) /\ asked.name = Want(r).name
          /\ asked.name # NoName /\ asked.owner # "none"
      <4>1. Want(r) \in Settings
        BY <1>3
      <4> QED
        BY <4>1, RequestedTask
    <3>2. IsTask(task) /\ task.name = asked.name /\ task.owner = asked.owner
      /\ task.by = tasks[key].by
      BY <3>1 DEF IsTask
    <3> HIDE DEF task, asked
    <3>3. key[1] = NoId => asked.name = key[2]
      <4>1. key[1] = NoId => key = <<NoId, Want(r).name>>
        BY <1>3
      <4>2. key[1] = NoId => key[2] = Want(r).name
        BY <4>1
      <4> QED
        BY <3>1, <4>2
    <3> QED
      BY <2>1, <3>1, <3>2, <3>3 DEF Entry
  <2>3. Listing(r)
    BY <1>2, <1>4, <2>1, <2>2 DEF Listing
  <2>4. /\ Frame(r) /\ known'[r] = known[r]
        /\ JobOK(r, job'[r], known[r], fresh, Want(r))
    <3>1. CASE Goto(r, [pc |-> "getAfter", key |-> key, real |-> real])
      <4>1. /\ Frame(r) /\ known'[r] = known[r]
            /\ job'[r] = [pc |-> "getAfter", key |-> key, real |-> real]
        BY <3>1, GotoFrame
      <4> HIDE DEF key, real
      <4> QED
        BY <1>3, <4>1 DEF JobOK
    <3>2. CASE Again(r)
      BY <1>1, <3>2, TryAgain DEF Again
    <3>3. CASE LostForGood(r)
      BY <3>3, FailFrame, IdleOK DEF LostForGood
    <3> QED
      BY <1>4, <3>1, <3>2, <3>3
  <2>5. Proper(r)
    BY <1>1, <1>2, <2>3, <2>4 DEF Proper, Sound
  <2>6. Sighted(r)
    BY <1>1, <1>2, <1>3, <2>4, SameTask
  <2> QED
    BY <2>5, <2>6
<1>5. CASE Fail(r) /\ UNCHANGED tasks
  BY <1>1, <1>2, <1>5, StopStep
<1> QED
  BY <1>4, <1>5 DEF Update

LEMMA RemoveStep ==
  ASSUME Sound, Found, NEW r \in Resources, Remove(r)
  PROVE  Proper(r) /\ Sighted(r)
<1> DEFINE key == KnownKey(r)
<1>1. /\ job[r].pc = "remove" /\ DOMAIN job[r] = {"pc", "tries"} /\ known[r] # None
      /\ RecordOK(r, known[r], fresh)
  BY JobAt DEF Remove, At
<1>2. UNCHANGED <<fresh, configs, untold, touched>> /\ key = KeyIn(r, known[r])
  BY <1>1, KnownKeyForm DEF Remove
<1>3. ~Telling(job[r])
  BY <1>1 DEF Telling
<1>4. CASE Drop(key) /\ (Forget(r) \/ Again(r) \/ LostForGood(r))
  <2>1. Listing(r) /\ key \notin DOMAIN tasks'
    BY <1>4, DropEntry DEF Listing
  <2>2. /\ Frame(r) /\ RecordOK(r, known'[r], fresh)
        /\ JobOK(r, job'[r], known'[r], fresh, Want(r))
    <3>1. CASE Forget(r)
      BY <3>1, ForgetFrame, IdleOK, NoneOK
    <3>2. CASE Again(r)
      BY <1>1, <3>2, TryAgain DEF Again
    <3>3. CASE LostForGood(r)
      BY <1>1, <3>3, FailFrame, IdleOK DEF LostForGood
    <3> QED
      BY <1>4, <3>1, <3>2, <3>3
  <2>3. Proper(r)
    BY <1>2, <2>1, <2>2 DEF Proper, Sound
  <2>4. Sighted(r)
    BY <1>2, <1>3, <2>1, NoTask
  <2> QED
    BY <2>3, <2>4
<1>5. CASE /\ Forget(r) /\ UNCHANGED tasks
           /\ ~(IF Scheduled(r) THEN Answers(key, known[r].real) ELSE Exists(key))
  <2>1. Frame(r) /\ job'[r] = Idle /\ known'[r] = None
    BY <1>5, ForgetFrame
  <2>2. Proper(r)
    BY <1>2, <1>5, <2>1, IdleOK, NoneOK, Looks
  <2>3. ~Untouched(key)
    BY <1>1, <1>2, <1>5 DEF Found, AsFound, Answers, Exists, Untouched
  <2> QED
    BY <1>2, <1>3, <1>5, <2>2, <2>3, NoTask DEF Untouched
<1>6. CASE Fail(r) /\ UNCHANGED tasks
  BY <1>2, <1>3, <1>6, StopStep
<1> QED
  BY <1>4, <1>5, <1>6 DEF Remove

\* What is made for a resource, wherever its task is.
LEMMA MadeEntry ==
  ASSUME NEW r, NEW real, NEW key, NEW next, Want(r) \in Settings, IsKey(key, next),
         key[1] = NoId => key[2] = Want(r).name
  PROVE  Entry(key, Requested(r, real), next) /\ Requested(r, real).by = r
<1>1. /\ IsTask(Requested(r, real)) /\ Requested(r, real).name = Want(r).name
      /\ Requested(r, real).name # NoName /\ Requested(r, real).owner # "none"
      /\ Requested(r, real).by = r
  BY RequestedTask
<1> QED
  BY <1>1 DEF Entry

\* An operation that has asked for a task ends with what it reads back or had asked for.
LEMMA RequestedRecord ==
  ASSUME Sound, NEW r \in Resources, NEW key, IsPair(key),
         Making(r, job[r], known[r], fresh, Want(r)), job[r].key = key
  PROVE  LET seen == [id |-> key[1], name |-> Want(r).name, user |-> Want(r).user,
                      real |-> Want(r).user, command |-> Want(r).command,
                      schedule |-> Want(r).schedule, tainted |-> TRUE]
         IN  RecordOK(r, seen, fresh) /\ seen # None /\ KeyIn(r, seen) = key
<1> DEFINE seen == [id |-> key[1], name |-> Want(r).name, user |-> Want(r).user,
                    real |-> Want(r).user, command |-> Want(r).command,
                    schedule |-> Want(r).schedule, tainted |-> TRUE]
<1>1. seen.id = key[1] /\ seen.name = Want(r).name /\ seen.tainted
  OBVIOUS
<1> HIDE DEF seen
<1>2. seen # None
  BY <1>1, SomeRecord
<1>3. key = <<key[1], key[2]>> /\ key[1] \in Nat
  BY DEF IsPair
<1>4. ASSUME Scheduled(r) PROVE RecordOK(r, seen, fresh) /\ KeyIn(r, seen) = key
  <2>1. key[1] # NoId /\ key[1] < fresh /\ key[2] = NoName
    BY <1>4 DEF Making
  <2> QED
    BY <1>1, <1>2, <1>3, <1>4, <2>1 DEF RecordOK, KeyIn, KeyOf
<1>5. ASSUME ~Scheduled(r) PROVE RecordOK(r, seen, fresh) /\ KeyIn(r, seen) = key
  <2>1. key = <<NoId, Want(r).name>> /\ NoId < fresh /\ NoId \in Nat
    BY <1>5 DEF Making, Sound, NoId
  <2>2. key[1] = NoId
    BY <2>1
  <2> QED
    BY <1>1, <1>2, <1>5, <2>1, <2>2 DEF RecordOK, KeyIn, KeyOf
<1> QED
  BY <1>2, <1>4, <1>5 DEF seen

\* Ending the making with a record of the task.
LEMMA EndMaking ==
  ASSUME Sound, NEW r \in Resources, NEW key, NEW seen, End(r, seen), job[r].key = key,
         UNCHANGED <<tasks, fresh, configs, untold, touched>>, known[r] = None,
         RecordOK(r, seen, fresh), seen # None, KeyIn(r, seen) = key
  PROVE  Proper(r) /\ Sighted(r)
<1>1. Frame(r) /\ job'[r] = Idle /\ known'[r] = seen
  BY EndFrame
<1>2. Proper(r)
  BY <1>1, IdleOK, Looks
<1>3. Sighted(r)
  BY <1>1 DEF Sighted, Tracks
<1> QED
  BY <1>2, <1>3

LEMMA ListBackStep ==
  ASSUME Sound, NEW r \in Resources, ListBack(r)
  PROVE  Proper(r) /\ Sighted(r)
<1> DEFINE key == job[r].key
<1>1. DOMAIN job[r] = {"pc", "key"} /\ Scheduled(r) /\ Making(r, job[r], known[r], fresh, Want(r))
  BY JobAt DEF ListBack
<1>2. UNCHANGED <<tasks, fresh, configs, untold, touched>>
  BY DEF ListBack
<1>3. known[r] = None /\ IsPair(key) /\ RecordOK(r, known[r], fresh)
  BY <1>1, JobAt DEF Making
<1>4. CASE Goto(r, [pc |-> "getBack", key |-> key, real |-> tasks[key].real])
  <2> DEFINE j == [pc |-> "getBack", key |-> key, real |-> tasks[key].real]
  <2>1. Frame(r) /\ job'[r] = j /\ known'[r] = known[r]
    BY <1>4, GotoFrame
  <2>2. j.key = job[r].key /\ j.pc = "getBack" /\ DOMAIN j = {"pc", "key", "real"}
    OBVIOUS
  <2> HIDE DEF j
  <2>3. JobOK(r, j, known[r], fresh, Want(r))
    BY <1>1, <2>2 DEF JobOK, Making
  <2>4. Proper(r)
    BY <1>2, <1>3, <2>1, <2>3, Looks
  <2>5. Sighted(r)
    BY <1>2, <2>1, <2>2 DEF Sighted, Tracks, Telling
  <2> QED
    BY <2>4, <2>5
<1>5. CASE RecordRequested(r, key)
  BY <1>1, <1>2, <1>3, <1>5, RequestedRecord, EndMaking DEF RecordRequested
<1> QED
  BY <1>4, <1>5 DEF ListBack

LEMMA GetBackStep ==
  ASSUME Sound, Found, NEW r \in Resources, GetBack(r)
  PROVE  Proper(r) /\ Sighted(r)
<1> DEFINE key == job[r].key
<1>1. Making(r, job[r], known[r], fresh, Want(r)) /\ job[r].pc = "getBack"
  BY JobAt DEF GetBack, At
<1>2. UNCHANGED <<tasks, fresh, configs, untold, touched>>
  BY DEF GetBack
<1>3. known[r] = None /\ IsPair(key)
  BY <1>1 DEF Making
<1>4. Scheduled(r) <=> key[1] # NoId
  <2>1. CASE Scheduled(r)
    BY <1>1, <2>1 DEF Making
  <2>2. CASE ~Scheduled(r)
    BY <1>1, <2>2 DEF Making
  <2> QED
    BY <2>1, <2>2
<1>5. ASSUME NEW tainted, Exists(key), End(r, Parsed(r, key, tainted))
      PROVE  Proper(r) /\ Sighted(r)
  <2>1. LET seen == Parsed(r, key, tainted)
        IN  RecordOK(r, seen, fresh) /\ seen # None /\ KeyIn(r, seen) = key
    <3> HIDE DEF key
    <3> QED
      BY <1>4, <1>5, ReadRecord DEF Exists
  <2> HIDE DEF key
  <2> QED
    BY <1>2, <1>3, <1>5, <2>1, EndMaking DEF key
<1>6. CASE Exists(key) /\ ~Representable(r, key) /\ Fail(r)
  <2>1. Frame(r) /\ job'[r] = Idle /\ known'[r] = None
    BY <1>3, <1>6, FailFrame
  <2>2. Proper(r)
    BY <1>2, <2>1, IdleOK, NoneOK, Looks
  <2>3. ~Untouched(key)
    BY <1>1, <1>6 DEF Found, AsFound, Representable, Readable, Telling
  <2>4. Sighted(r)
    BY <1>2, <1>3, <1>6, <2>3 DEF Sighted, Tracks, Untouched, Exists
  <2> QED
    BY <2>2, <2>4
<1>7. CASE RecordRequested(r, key)
  BY <1>1, <1>2, <1>3, <1>7, RequestedRecord, EndMaking DEF RecordRequested
<1> QED
  BY <1>5, <1>6, <1>7 DEF GetBack, Answers

\* A create that is tried again.
LEMMA CreateAgain ==
  ASSUME Sound, NEW r \in Resources, At(r, "create"), Goto(r, [job[r] EXCEPT !.tries = 1])
  PROVE  /\ Frame(r) /\ known'[r] = known[r] /\ known[r] = None
         /\ \A next : JobOK(r, job'[r], known[r], next, Want(r))
         /\ job'[r].pc = "create"
<1> DEFINE j == [job[r] EXCEPT !.tries = 1]
<1>1. Frame(r) /\ job'[r] = j /\ known'[r] = known[r]
  BY GotoFrame
<1>2. Writing(r, job[r], known[r], Want(r)) /\ job[r].verb = "create" /\ job[r].pc = "create"
  BY JobAt DEF At
<1>3. DOMAIN j = {"pc", "verb", "tries"} /\ j.pc = "create" /\ j.verb = "create"
  BY <1>2 DEF Writing
<1> HIDE DEF j
<1>4. Writing(r, j, known[r], Want(r)) /\ known[r] = None
  BY <1>2, <1>3 DEF Writing
<1>5. \A next : JobOK(r, j, known[r], next, Want(r))
  BY <1>3, <1>4 DEF JobOK
<1> QED
  BY <1>1, <1>3, <1>4, <1>5

\* The task that a create makes is read back, or the provider was not told of it.
LEMMA MakeStep ==
  ASSUME Sound, NEW r \in Resources, NEW key, NEW task, At(r, "create"),
         Put(key, task), Entry(key, task, fresh'), task.by = r,
         UNCHANGED <<configs, touched>>, fresh' \in Nat, fresh <= fresh', fresh' <= MaxId + 1,
         known'[r] = None, Frame(r), JobOK(r, job'[r], None, fresh', Want(r)),
         \/ Telling(job'[r]) /\ job'[r].key = key /\ untold \ {key} \subseteq untold'
         \/ untold' = untold \union {key}
  PROVE  Proper(r) /\ Sighted(r)
<1>1. known[r] = None /\ ~Telling(job[r])
  BY JobAt DEF Writing, At, Telling
<1>2. RecordOK(r, None, fresh')
  <2>1. NoId < fresh' /\ NoId \in Nat
    BY DEF Sound, NoId
  <2>2. None.id = NoId
    BY DEF None
  <2> QED
    BY <2>1, <2>2 DEF RecordOK
<1>3. Listing(r)
  BY DEF Listing, Tracks
<1>4. Proper(r)
  BY <1>2, <1>3 DEF Proper
<1>5. tasks'[key].by = r
  BY PutEntry
<1>6. Sighted(r)
  BY <1>1, <1>5 DEF Sighted, Tracks
<1> QED
  BY <1>4, <1>6

LEMMA NextId ==
  ASSUME Sound, fresh <= MaxId, fresh' = fresh + 1
  PROVE  /\ fresh' \in Nat /\ fresh < fresh' /\ fresh <= fresh' /\ fresh' <= MaxId + 1
         /\ IsKey(<<fresh, NoName>>, fresh') /\ fresh # NoId
<1>1. /\ fresh \in Nat /\ 0 < fresh /\ MaxId \in Nat
  BY BoundsAssumption DEF Sound, NoId
<1>2. /\ fresh' \in Nat /\ fresh < fresh' /\ fresh <= fresh' /\ fresh' <= MaxId + 1
      /\ fresh # NoId
  BY <1>1 DEF NoId
<1>3. IsPair(<<fresh, NoName>>) /\ <<fresh, NoName>>[1] = fresh /\ <<fresh, NoName>>[2] = NoName
  BY <1>1, Pair
<1> QED
  BY <1>2, <1>3 DEF IsKey

LEMMA CreateScheduledStep ==
  ASSUME Sound, NEW r \in Resources, CreateScheduled(r)
  PROVE  Proper(r) /\ Sighted(r)
<1> DEFINE key == <<fresh, NoName>>
           j == [pc |-> "listBack", key |-> key]
<1>1. /\ At(r, "create") /\ Scheduled(r) /\ UNCHANGED <<configs, touched>>
      /\ fresh <= MaxId /\ fresh' = fresh + 1
  BY DEF CreateScheduled
<1>2. /\ fresh' \in Nat /\ fresh < fresh' /\ fresh <= fresh' /\ fresh' <= MaxId + 1
      /\ IsKey(key, fresh') /\ fresh # NoId
  BY <1>1, NextId
<1>3. known[r] = None /\ Want(r) \in Settings
  BY <1>1, JobAt DEF Writing
<1>4. IsPair(key) /\ key[1] = fresh /\ key[2] = NoName
  BY <1>2 DEF IsKey
<1>5. PICK real : Put(key, Requested(r, real))
  BY DEF CreateScheduled
<1>6. \/ Goto(r, j) /\ UNCHANGED untold
      \/ (Again(r) \/ Fail(r)) /\ untold' = untold \union {key}
  BY DEF CreateScheduled, LostForGood
<1> HIDE DEF key
<1>7. Entry(key, Requested(r, real), fresh') /\ Requested(r, real).by = r
  BY <1>2, <1>3, <1>4, MadeEntry
<1>8. /\ Frame(r) /\ known'[r] = None /\ JobOK(r, job'[r], None, fresh', Want(r))
      /\ \/ Telling(job'[r]) /\ job'[r].key = key /\ untold \ {key} \subseteq untold'
         \/ untold' = untold \union {key}
  <2>1. CASE Goto(r, j) /\ UNCHANGED untold
    <3>1. Frame(r) /\ job'[r] = j /\ known'[r] = None
      BY <1>3, <2>1, GotoFrame
    <3>2. DOMAIN j = {"pc", "key"} /\ j.pc = "listBack" /\ j.key = key
      OBVIOUS
    <3> HIDE DEF j
    <3>3. JobOK(r, j, None, fresh', Want(r))
      BY <1>1, <1>2, <1>3, <1>4, <3>2 DEF JobOK, Making
    <3> QED
      BY <2>1, <3>1, <3>2, <3>3 DEF Telling
  <2>2. CASE Again(r) /\ untold' = untold \union {key}
    BY <1>1, <1>3, <2>2, CreateAgain DEF Again
  <2>3. CASE Fail(r) /\ untold' = untold \union {key}
    BY <1>3, <2>3, FailFrame, IdleOK
  <2> QED
    BY <1>6, <2>1, <2>2, <2>3
<1> QED
  BY <1>1, <1>2, <1>5, <1>7, <1>8, MakeStep

LEMMA CreateEventStep ==
  ASSUME Sound, NEW r \in Resources, CreateEvent(r)
  PROVE  Proper(r) /\ Sighted(r)
<1> DEFINE key == <<NoId, Want(r).name>>
           real == Want(r).user
           j == [pc |-> "getBack", key |-> key, real |-> real]
<1>1. At(r, "create") /\ ~Scheduled(r) /\ UNCHANGED <<fresh, configs, touched>>
  BY DEF CreateEvent
<1>2. /\ fresh' \in Nat /\ NoId < fresh' /\ fresh <= fresh' /\ fresh' <= MaxId + 1
      /\ NoId \in Nat
  BY <1>1 DEF Sound, NoId
<1>3. known[r] = None /\ Want(r) \in Settings
  BY <1>1, JobAt DEF Writing
<1>4. /\ IsPair(key) /\ key[1] = NoId /\ key[2] = Want(r).name
      /\ Want(r).name # NoName
  BY <1>2, <1>3, SettingForm, Pair
<1>5. key = <<NoId, Want(r).name>>
  OBVIOUS
<1>6. CASE /\ Put(key, Requested(r, real))
           /\ \/ Goto(r, j) /\ untold' = untold \ {key}
              \/ (Again(r) \/ LostForGood(r)) /\ untold' = untold \union {key}
  <2> HIDE DEF key, real
  <2>1. Entry(key, Requested(r, real), fresh') /\ Requested(r, real).by = r
    <3>1. IsKey(key, fresh')
      BY <1>2, <1>4 DEF IsKey
    <3> QED
      BY <1>3, <1>4, <3>1, MadeEntry
  <2>2. /\ Frame(r) /\ known'[r] = None /\ JobOK(r, job'[r], None, fresh', Want(r))
        /\ \/ Telling(job'[r]) /\ job'[r].key = key /\ untold \ {key} \subseteq untold'
           \/ untold' = untold \union {key}
    <3>1. CASE Goto(r, j) /\ untold' = untold \ {key}
      <4>1. Frame(r) /\ job'[r] = j /\ known'[r] = None
        BY <1>3, <3>1, GotoFrame
      <4>2. DOMAIN j = {"pc", "key", "real"} /\ j.pc = "getBack" /\ j.key = key
        OBVIOUS
      <4> HIDE DEF j
      <4>3. JobOK(r, j, None, fresh', Want(r))
        BY <1>1, <1>3, <1>4, <1>5, <4>2 DEF JobOK, Making
      <4> QED
        BY <3>1, <4>1, <4>2, <4>3 DEF Telling
    <3>2. CASE Again(r) /\ untold' = untold \union {key}
      BY <1>1, <1>3, <3>2, CreateAgain DEF Again
    <3>3. CASE Fail(r) /\ untold' = untold \union {key}
      BY <1>3, <3>3, FailFrame, IdleOK
    <3> QED
      BY <1>6, <3>1, <3>2, <3>3 DEF LostForGood
  <2> QED
    BY <1>1, <1>2, <1>6, <2>1, <2>2, MakeStep
<1>7. CASE Fail(r) /\ UNCHANGED <<tasks, untold>>
  BY <1>1, <1>7, StopStep DEF At, Telling
<1> QED
  BY <1>6, <1>7 DEF CreateEvent

\* An import takes a task that is there into the state.
LEMMA ImportStep ==
  ASSUME Sound, NEW r \in Resources, Import(r)
  PROVE  Proper(r) /\ Sighted(r)
<1>1. /\ known[r] = None /\ job[r] = Idle
      /\ UNCHANGED <<tasks, fresh, configs, job, untold, touched>>
  BY JobAt DEF Import
<1>2. PICK key \in (IF Scheduled(r) THEN Called(Want(r).name)
                    ELSE {<<NoId, Want(r).name>>} \intersect DOMAIN tasks) :
         known' = [known EXCEPT ![r] = Parsed(r, key, FALSE)]
  BY DEF Import
<1>3. key \in DOMAIN tasks /\ (Scheduled(r) <=> key[1] # NoId)
  <2>1. CASE Scheduled(r)
    BY <2>1 DEF Called
  <2>2. CASE ~Scheduled(r)
    BY <2>2
  <2> QED
    BY <2>1, <2>2
<1> DEFINE seen == Parsed(r, key, FALSE)
<1>4. RecordOK(r, seen, fresh)
  BY <1>3, ReadRecord
<1>5. Frame(r) /\ known'[r] = seen /\ job'[r] = Idle
  <2> HIDE DEF seen
  <2> QED
    BY <1>1, <1>2 DEF Frame, Sound, seen
<1>6. Proper(r)
  <2> HIDE DEF seen
  <2> QED
    BY <1>1, <1>4, <1>5, IdleOK, Looks
<1>7. \A k : ~Tracks(r, k, known[r], job[r])
  BY <1>1, IdleOK DEF Tracks
<1> QED
  BY <1>1, <1>6, <1>7 DEF Sighted

LEMMA StepProper ==
  ASSUME Sound, Found, NEW r \in Resources, Begin(r) \/ Step(r) \/ Import(r)
  PROVE  Proper(r) /\ Sighted(r)
<1>1. CASE Begin(r)
  BY <1>1, CreateStep, ReadStep DEF Begin
<1>2. CASE Step(r)
  BY <1>2, GetStep, ConfirmStep, CreateScheduledStep, ListBackStep, GetBackStep, UpdateStep,
     GetAfterStep, RemoveStep, CreateEventStep, RefusedStep DEF Step
<1>3. CASE Import(r)
  BY <1>3, ImportStep
<1> QED
  BY <1>1, <1>2, <1>3

----------------------------------------------------------------------------
(***************************************************************************)
(* The invariant holds.                                                    *)
(***************************************************************************)
\* Ids only ever grow.
LEMMA LaterRecord ==
  ASSUME NEW r, NEW seen, NEW n \in Nat, NEW m \in Nat, n <= m, RecordOK(r, seen, n)
  PROVE  RecordOK(r, seen, m)
<1>1. seen.id < m
  BY Further DEF RecordOK
<1> QED
  BY <1>1 DEF RecordOK

LEMMA LaterMaking ==
  ASSUME NEW r, NEW j, NEW seen, NEW n \in Nat, NEW m \in Nat, n <= m, NEW want,
         Making(r, j, seen, n, want)
  PROVE  Making(r, j, seen, m, want)
<1>1. ASSUME Scheduled(r) PROVE j.key[1] < m
  BY <1>1, Further DEF Making, IsPair
<1> QED
  BY <1>1 DEF Making

LEMMA LaterJob ==
  ASSUME NEW r, NEW j, NEW seen, NEW n \in Nat, NEW m \in Nat, n <= m, NEW want,
         JobOK(r, j, seen, n, want)
  PROVE  JobOK(r, j, seen, m, want)
BY LaterMaking DEF JobOK

LEMMA ProperSound ==
  ASSUME Sound, NEW r \in Resources, Proper(r)
  PROVE  Sound'
<1>1. /\ fresh \in Nat /\ fresh' \in Nat /\ NoId < fresh /\ fresh <= fresh'
      /\ fresh' <= MaxId + 1 /\ configs' = configs
  BY DEF Proper, Sound
<1>2. NoId < fresh'
  BY <1>1, Further DEF NoId
<1>3. /\ configs' \in Seq(Configurations) /\ configs' # <<>>
      /\ DOMAIN known' = Resources /\ DOMAIN job' = Resources
  BY DEF Proper, Sound, Frame
<1>4. \A key \in DOMAIN tasks' : Entry(key, tasks'[key], fresh')
  BY <1>1, EntriesStay DEF Proper, Listing
<1>5. ASSUME NEW q \in Resources PROVE RecordOK(q, known'[q], fresh')
  <2>1. CASE q = r
    BY <2>1 DEF Proper
  <2>2. CASE q # r
    <3>1. known'[q] = known[q] /\ RecordOK(q, known[q], fresh)
      BY <2>2 DEF Proper, Frame, Sound
    <3> QED
      BY <1>1, <3>1, LaterRecord
  <2> QED
    BY <2>1, <2>2
<1>6. ASSUME NEW q \in Resources
      PROVE  Want(q)' = Want(q) /\ JobOK(q, job'[q], known'[q], fresh', Want(q))
  <2>1. Want(q)' = Want(q)
    BY <1>1 DEF Want
  <2>2. CASE q = r
    BY <2>1, <2>2 DEF Proper
  <2>3. CASE q # r
    <3>1. known'[q] = known[q] /\ job'[q] = job[q]
          /\ JobOK(q, job[q], known[q], fresh, Want(q))
      BY <2>3 DEF Proper, Frame, Sound
    <3>2. JobOK(q, job[q], known[q], fresh', Want(q))
      BY <1>1, <3>1, LaterJob
    <3> QED
      BY <2>1, <3>1, <3>2
  <2> QED
    BY <2>1, <2>2, <2>3
<1> QED
  BY <1>1, <1>2, <1>3, <1>4, <1>5, <1>6 DEF Sound

LEMMA SightedTracked ==
  ASSUME Tracked, NEW r \in Resources, Proper(r), Sighted(r)
  PROVE  Tracked'
<1> SUFFICES ASSUME NEW key \in DOMAIN tasks' \ (untold' \union touched'),
                    tasks'[key].by \in Resources
             PROVE  Tracks(tasks'[key].by, key, known'[tasks'[key].by], job'[tasks'[key].by])
  BY DEF Tracked, Tracks
<1>1. touched' = touched
  BY DEF Sighted
<1>2. CASE key \in untold
  BY <1>2 DEF Sighted
<1>3. ASSUME key \notin untold, key \in DOMAIN tasks, tasks'[key].by = tasks[key].by
      PROVE  Tracks(tasks'[key].by, key, known'[tasks'[key].by], job'[tasks'[key].by])
  <2> DEFINE q == tasks[key].by
  <2>1. q \in Resources /\ tasks'[key].by = q
    BY <1>3
  <2>2. Tracks(q, key, known[q], job[q])
    BY <1>1, <1>3, <2>1 DEF Tracked
  <2> HIDE DEF q
  <2>3. CASE q = r
    BY <1>1, <2>1, <2>2, <2>3 DEF Sighted
  <2>4. CASE q # r
    BY <2>1, <2>2, <2>4 DEF Proper, Frame
  <2> QED
    BY <2>1, <2>3, <2>4
<1>4. CASE UNCHANGED tasks
  BY <1>2, <1>3, <1>4
<1>5. ASSUME NEW k, Drop(k)
      PROVE  Tracks(tasks'[key].by, key, known'[tasks'[key].by], job'[tasks'[key].by])
  BY <1>2, <1>3, <1>5, DropEntry
<1>6. ASSUME NEW k, NEW task, Put(k, task),
             \/ k \in DOMAIN tasks /\ task.by = tasks[k].by
             \/ task.by = r /\ (k \in untold' \/ Tracks(r, k, known'[r], job'[r]))
      PROVE  Tracks(tasks'[key].by, key, known'[tasks'[key].by], job'[tasks'[key].by])
  <2>1. /\ tasks'[k] = task
        /\ key # k => key \in DOMAIN tasks /\ tasks'[key] = tasks[key]
    BY <1>6, PutEntry
  <2>2. CASE key # k
    BY <1>2, <1>3, <2>1, <2>2
  <2>3. CASE key = k
    BY <1>2, <1>3, <1>6, <2>1, <2>3
  <2> QED
    BY <2>2, <2>3
<1> QED
  BY <1>4, <1>5, <1>6 DEF Proper, Listing

LEMMA Shorter ==
  ASSUME NEW S, NEW s \in Seq(S), Len(s) > 1
  PROVE  Tail(s) \in Seq(S) /\ Tail(s) # <<>>
<1>1. Len(<<>>) = 0
  BY EmptySeq
<1>2. s # <<>>
  BY <1>1
<1>3. Tail(s) \in Seq(S) /\ Len(Tail(s)) = Len(s) - 1 /\ Len(s) \in Nat
  BY <1>2, HeadTailProperties, LenProperties
<1>4. Len(Tail(s)) # 0
  BY <1>3
<1> QED
  BY <1>1, <1>3, <1>4

\* Between operations the list changes by hand only.
LEMMA Reconfigured ==
  ASSUME Sound, Reconfigure
  PROVE  Sound'
<1>1. \A r \in Resources : job[r] = Idle
  BY JobAt DEF Reconfigure
<1>2. UNCHANGED <<tasks, fresh, known, job, untold, touched>> /\ Len(configs) > 1
      /\ configs' = Tail(configs)
  BY DEF Reconfigure
<1>3. configs' \in Seq(Configurations) /\ configs' # <<>>
  BY <1>2, Shorter DEF Sound
<1>4. \A r \in Resources : \A want : JobOK(r, job'[r], known'[r], fresh', want)
  BY <1>1, <1>2, IdleOK
<1> QED
  BY <1>2, <1>3, <1>4 DEF Sound

\* What a person does to DSM's list.
LEMMA HandSound ==
  ASSUME Sound, ByHand
  PROVE  Sound'
<1>1. UNCHANGED <<fresh, known, configs, job>>
  BY DEF ByHand
<1>2. \/ UNCHANGED tasks
      \/ \E key : Drop(key)
      \/ \E key, task : Put(key, task) /\ Entry(key, task, fresh')
  <2>1. ASSUME NEW key \in DOMAIN tasks,
               NEW task, \/ task = [tasks[key] EXCEPT !.real = "person"]
                         \/ task = [tasks[key] EXCEPT !.doc = OnceDoc]
        PROVE  Entry(key, task, fresh')
    <3>1. Entry(key, tasks[key], fresh)
      BY DEF Sound
    <3>2. DOMAIN task = DOMAIN tasks[key] /\ task.name = tasks[key].name
          /\ task.owner = tasks[key].owner
      BY <2>1, <3>1 DEF Entry, IsTask
    <3> QED
      BY <1>1, <3>1, <3>2 DEF Entry, IsTask
  <2>2. ASSUME NEW r \in Resources, ~Destroyed(r)
        PROVE  Entry(<<NoId, Want(r).name>>,
                     [Requested(r, Want(r).user) EXCEPT !.by = "person", !.command = "other"],
                     fresh')
    <3> DEFINE key == <<NoId, Want(r).name>>
               asked == Requested(r, Want(r).user)
               task == [asked EXCEPT !.by = "person", !.command = "other"]
    <3>1. Want(r) \in Settings /\ Want(r).name # NoName
      BY <2>2, WantForm, SettingForm
    <3>2. NoId \in Nat /\ NoId < fresh'
      BY <1>1 DEF Sound, NoId
    <3>3. IsPair(key) /\ key[1] = NoId /\ key[2] = Want(r).name
      BY <3>2, Pair
    <3>4. IsKey(key, fresh')
      BY <3>1, <3>2, <3>3 DEF IsKey
    <3> HIDE DEF key
    <3>5. Entry(key, asked, fresh')
      BY <3>1, <3>3, <3>4, MadeEntry
    <3> HIDE DEF asked
    <3>6. DOMAIN task = DOMAIN asked /\ task.name = asked.name /\ task.owner = asked.owner
      BY <3>5 DEF Entry, IsTask
    <3> HIDE DEF task
    <3>7. Entry(key, task, fresh')
      BY <3>5, <3>6 DEF Entry, IsTask
    <3> QED
      BY <3>7 DEF key, task, asked
  <2> QED
    BY <2>1, <2>2 DEF ByHand, GivenAway, RunOnce
<1>3. \A key \in DOMAIN tasks' : Entry(key, tasks'[key], fresh')
  <2>1. fresh' \in Nat /\ fresh <= fresh'
    BY <1>1 DEF Sound
  <2> QED
    BY <1>2, <2>1, EntriesStay
<1>4. \A r \in Resources : Want(r)' = Want(r)
  BY <1>1 DEF Want
<1> QED
  BY <1>1, <1>3, <1>4 DEF Sound

\* A person makes no task for a resource: what was made for one stays tracked.
LEMMA HandTracked ==
  ASSUME Tracked, ByHand
  PROVE  Tracked'
<1>1. UNCHANGED <<known, job, untold>> /\ touched \subseteq touched'
  BY DEF ByHand, GivenAway, RunOnce
<1>2. ASSUME NEW key \in DOMAIN tasks', tasks'[key].by \in Resources
      PROVE  key \in DOMAIN tasks /\ tasks'[key].by = tasks[key].by
  <2>1. ASSUME NEW k \in DOMAIN tasks,
               NEW task, Put(k, task), task.by = tasks[k].by
        PROVE  key \in DOMAIN tasks /\ tasks'[key].by = tasks[key].by
    BY <1>2, <2>1, PutEntry
  <2>2. ASSUME NEW k, NEW task, Put(k, task), task.by = "person"
        PROVE  key \in DOMAIN tasks /\ tasks'[key].by = tasks[key].by
    BY <1>2, <2>2, PutEntry, PersonAssumption
  <2>3. ASSUME NEW k, Drop(k)
        PROVE  key \in DOMAIN tasks /\ tasks'[key].by = tasks[key].by
    BY <2>3, DropEntry
  <2>4. \A k \in DOMAIN tasks :
           /\ [tasks[k] EXCEPT !.real = "person"].by = tasks[k].by
           /\ [tasks[k] EXCEPT !.doc = OnceDoc].by = tasks[k].by
    OBVIOUS
  <2>5. \A r : [Requested(r, Want(r).user) EXCEPT !.by = "person", !.command = "other"].by
                 = "person"
    BY DEF Requested
  <2> QED
    BY <2>1, <2>2, <2>3, <2>4, <2>5 DEF ByHand, GivenAway, RunOnce
<1> QED
  BY <1>1, <1>2 DEF Tracked, Tracks

LEMMA RestartSound ==
  ASSUME Sound, Restart
  PROVE  Sound'
<1>1. /\ UNCHANGED <<tasks, fresh, known, configs>> /\ DOMAIN job' = Resources
      /\ \A r \in Resources : job'[r] = Idle
  BY DEF Restart
<1>2. \A r \in Resources : \A want : JobOK(r, job'[r], known'[r], fresh', want)
  BY <1>1, IdleOK
<1> QED
  BY <1>1, <1>2 DEF Sound

\* Of what was being read back the provider has not been told in time.
LEMMA RestartTracked ==
  ASSUME Tracked, Restart
  PROVE  Tracked'
<1>1. /\ UNCHANGED <<tasks, known, touched>> /\ untold \subseteq untold'
      /\ \A key \in DOMAIN tasks \ untold' : \A r \in Resources : ~Made(r, key)
  BY DEF Restart
<1>2. ASSUME NEW key \in DOMAIN tasks \ (untold' \union touched), NEW r \in Resources,
             r = tasks[key].by
      PROVE  known[r] # None /\ KeyIn(r, known[r]) = key
  BY <1>1, <1>2 DEF Tracked, Tracks, Made, Telling
<1> QED
  BY <1>1, <1>2 DEF Tracked, Tracks

----------------------------------------------------------------------------
(***************************************************************************)
(* What an operation has found of its task stays so, until a person changes *)
(* it.                                                                     *)
(***************************************************************************)
LEMMA FrequencyOfRepeatDate ==
    ASSUME NEW f \in Frequencies
    PROVE  /\ Frequency(RepeatDate(f)) = f
           /\ RepeatDate(f) = 1001 <=> f = "daily"
<1>1. CASE f = "daily"
  BY <1>1 DEF Frequency, RepeatDate
<1>2. CASE f = "weekly"
  BY <1>2 DEF Frequency, RepeatDate
<1>3. CASE f = "monthly"
  BY <1>3 DEF Frequency, RepeatDate
<1> QED
  BY <1>1, <1>2, <1>3 DEF Frequencies

\* Scheduled tasks keep their real owner and a schedule that can be read, and those made
\* anew have an id of their own.
OwnersStay ==
    \A key \in DOMAIN tasks' : key[1] # NoId /\ key[1] < fresh =>
        /\ key \in DOMAIN tasks /\ tasks'[key].real = tasks[key].real
        /\ Readable(tasks[key].doc) => Readable(tasks'[key].doc)

Kept(r) == OwnersStay /\ AsFound(r, known[r], job[r])'

LEMMA ListStays ==
  ASSUME UNCHANGED tasks \/ \E key : Drop(key)
  PROVE  OwnersStay
  BY DropEntry DEF OwnersStay

LEMMA PutStays ==
  ASSUME NEW key, NEW task, Put(key, task),
         \/ key[1] = NoId
         \/ key[1] = fresh /\ fresh \in Nat
         \/ key \in DOMAIN tasks /\ task.real = tasks[key].real /\ Readable(task.doc)
  PROVE  OwnersStay
<1>1. /\ tasks'[key] = task
      /\ \A k \in DOMAIN tasks' : k # key => k \in DOMAIN tasks /\ tasks'[k] = tasks[k]
  BY PutEntry
<1>2. key[1] = fresh /\ fresh \in Nat => ~(key[1] < fresh)
  OBVIOUS
<1> QED
  BY <1>1, <1>2 DEF OwnersStay

LEMMA Unconcerned ==
  ASSUME NEW r, job'[r].pc \notin {"get", "remove", "listBack", "getBack"} \/ ~Scheduled(r)
  PROVE  AsFound(r, known[r], job[r])'
  BY DEF AsFound, Scheduled, Telling

LEMMA Stopped ==
  ASSUME Sound, NEW r \in Resources, Fail(r) \/ \E seen : End(r, seen)
  PROVE  AsFound(r, known[r], job[r])'
<1>1. job'[r] = Idle
  BY FailFrame, EndFrame
<1> QED
  BY <1>1, Unconcerned DEF Idle

LEMMA RefreshedOwner ==
  ASSUME Sound, NEW r \in Resources, known[r] # None, Exists(KnownKey(r)), UNCHANGED tasks,
         Refreshed(r, KnownKey(r))
  PROVE  AsFound(r, known[r], job[r])'
<1> DEFINE key == KnownKey(r)
           seen == Parsed(r, key, known[r].tainted)
<1>1. KeyIn(r, known'[r]) = key /\ known'[r].real = tasks[key].real
  BY RefreshedOK
<1>2. KeyIn(r, known[r])' = KeyIn(r, known'[r])
  BY DEF KeyIn, KeyOf, Scheduled
<1>3. job'[r].pc \in {"idle", "remove", "confirm", "create", "update"}
  <2>1. seen # None
    BY KnownKeyForm, ReadRecord DEF Exists
  <2>2. job'[r] = FirstStep(r, PlannedVerb(r, seen))
    <3>1. job' = [job EXCEPT ![r] = FirstStep(r, PlannedVerb(r, seen))]
      BY DEF Refreshed
    <3> HIDE DEF seen
    <3> QED
      BY <3>1 DEF Sound
  <2> HIDE DEF seen
  <2> QED
    BY <2>1, <2>2, FirstStepOK
<1> HIDE DEF key
<1> QED
  BY <1>1, <1>2, <1>3 DEF AsFound, Telling

\* A schedule that is configured can be read, once it is stored.
LEMMA WantReadable ==
  ASSUME Sound, NEW r \in Resources, Want(r) \in Settings, Scheduled(r)
  PROVE  \A real : Readable(Requested(r, real).doc)
<1>1. Head(configs) \in Configurations
  BY DEF Sound
<1>2. Want(r).user # "none" /\ Gone.user = "none"
  BY SettingForm DEF Gone, Setting
<1>3. Want(r).schedule \in TaskSchedule
  BY <1>1, <1>2 DEF Configurations, Want, Scheduled
<1> DEFINE s == Want(r).schedule
<1>4. s.frequency \in Frequencies
  BY <1>3 DEF TaskSchedule
<1>5. \A real : Requested(r, real).doc = EncodeSchedule(s)
  BY DEF Requested
<1> HIDE DEF s
<1>6. EncodeSchedule(s).repeatDate = RepeatDate(s.frequency)
  BY DEF EncodeSchedule
<1>7. ParseSchedule(EncodeSchedule(s)).frequency = s.frequency
  <2>1. \A doc : ParseSchedule(doc).frequency = Frequency(doc.repeatDate)
    BY DEF ParseSchedule
  <2> QED
    BY <1>4, <1>6, <2>1, FrequencyOfRepeatDate
<1> QED
  BY <1>4, <1>5, <1>7 DEF Readable, Frequencies, NoFrequency

LEMMA StepKept ==
  ASSUME Sound, Found, NEW r \in Resources, Begin(r) \/ Step(r) \/ Import(r)
  PROVE  Kept(r)
<1>1. CASE Create(r)
  <2>1. UNCHANGED tasks /\ job'[r] = FirstStep(r, "create")
    BY <1>1, GotoFrame DEF Create
  <2>2. FirstStep(r, "create").pc \in {"idle", "remove", "confirm", "create", "update"}
    BY <1>1, FirstStepOK DEF Create
  <2>3. FirstStep(r, "create").pc # "remove"
    BY DEF FirstStep
  <2> QED
    BY <2>1, <2>2, <2>3, ListStays, Unconcerned DEF Kept
<1>2. CASE Read(r)
  <2> DEFINE key == KnownKey(r)
             j == [pc |-> "get", key |-> key, real |-> tasks[key].real]
  <2>1. UNCHANGED tasks
    BY <1>2 DEF Read
  <2>2. Goto(r, j) \/ ~Scheduled(r) \/ Fail(r) \/ Forget(r)
    BY <1>2 DEF Read
  <2>3. ASSUME Goto(r, j) PROVE AsFound(r, known[r], job[r])'
    <3>1. job'[r] = j
      BY <2>3, GotoFrame
    <3>2. job'[r].pc = "get" /\ job'[r].key = key /\ job'[r].real = tasks[key].real
      BY <3>1
    <3> HIDE DEF key
    <3> QED
      BY <2>1, <3>2 DEF AsFound, Telling
  <2> HIDE DEF j
  <2> QED
    BY <2>1, <2>2, <2>3, ListStays, Unconcerned, Stopped DEF Kept, Forget
<1>3. CASE Get(r)
  <2>1. UNCHANGED tasks /\ known[r] # None /\ job[r].key = KnownKey(r)
    BY <1>3, FoundAt DEF Get, At
  <2>2. \/ Exists(KnownKey(r)) /\ Refreshed(r, KnownKey(r))
        \/ Fail(r) \/ Forget(r)
    BY <1>3, <2>1 DEF Get, Answers
  <2> QED
    BY <2>1, <2>2, ListStays, RefreshedOwner, Stopped DEF Kept, Forget
<1>4. CASE Confirm(r)
  <2>1. UNCHANGED tasks /\ job[r].verb \in {"create", "update"}
    BY <1>4, JobAt DEF Confirm, At, Writing
  <2>2. CASE Goto(r, [job[r] EXCEPT !.pc = job[r].verb])
    <3>1. job'[r] = [job[r] EXCEPT !.pc = job[r].verb]
      BY <2>2, GotoFrame
    <3>2. "pc" \in DOMAIN job[r]
      BY <1>4, JobAt DEF Confirm, At, Writing
    <3>3. job'[r].pc \in {"create", "update"}
      BY <2>1, <3>1, <3>2
    <3> QED
      BY <2>1, <3>3, ListStays, Unconcerned DEF Kept
  <2> QED
    BY <1>4, <2>1, <2>2, ListStays, Stopped DEF Confirm, Kept
<1>5. CASE CreateScheduled(r)
  <2> DEFINE key == <<fresh, NoName>>
             j == [pc |-> "listBack", key |-> key]
  <2>1. PICK real : Put(key, Requested(r, real))
    BY <1>5 DEF CreateScheduled
  <2>2. OwnersStay
    BY <2>1, PutStays, Pair DEF Sound
  <2>3. At(r, "create") /\ Scheduled(r) /\ Want(r) \in Settings
    BY <1>5, JobAt DEF CreateScheduled, Writing
  <2>4. Goto(r, j) \/ Again(r) \/ Fail(r)
    BY <1>5 DEF CreateScheduled, LostForGood
  <2>5. CASE Goto(r, j)
    <3>1. job'[r] = j
      BY <2>5, GotoFrame
    <3>2. job'[r].pc = "listBack" /\ job'[r].key = key
      BY <3>1
    <3>3. \A k : Put(k, Requested(r, real)) => tasks'[k] = Requested(r, real)
      BY PutEntry
    <3>4. tasks'[key] = Requested(r, real)
      BY <2>1, <3>3
    <3>5. Readable(Requested(r, real).doc)
      BY <2>3, WantReadable
    <3> HIDE DEF key, j
    <3>6. Readable(tasks'[key].doc)
      BY <3>4, <3>5
    <3>7. AsFound(r, known[r], job[r])'
      BY <3>2, <3>6 DEF AsFound, Telling, Readable
    <3> QED
      BY <2>2, <3>7 DEF Kept
  <2>6. CASE Again(r)
    <3>1. job'[r].pc = "create"
      BY <2>3, <2>6, CreateAgain DEF Again
    <3> QED
      BY <2>2, <3>1, Unconcerned DEF Kept
  <2>7. CASE Fail(r)
    BY <2>2, <2>7, Stopped DEF Kept
  <2> QED
    BY <2>4, <2>5, <2>6, <2>7
<1>6. CASE ListBack(r)
  <2> DEFINE key == job[r].key
             j == [pc |-> "getBack", key |-> key, real |-> tasks[key].real]
  <2>1. UNCHANGED <<tasks, touched>>
    BY <1>6 DEF ListBack
  <2>2. Goto(r, j) \/ \E seen : End(r, seen)
    BY <1>6 DEF ListBack, RecordRequested
  <2>3. ASSUME Goto(r, j) PROVE AsFound(r, known[r], job[r])'
    <3>1. job'[r] = j
      BY <2>3, GotoFrame
    <3>2. job'[r].pc = "getBack" /\ job'[r].key = key
      BY <3>1
    <3>3. Scheduled(r) /\ Untouched(key) => Readable(tasks[key].doc)
      BY <1>6 DEF ListBack, At, Found, AsFound, Telling
    <3> HIDE DEF key
    <3> QED
      BY <2>1, <3>2, <3>3 DEF AsFound, Telling, Untouched, Scheduled, Readable
  <2> HIDE DEF j
  <2> QED
    BY <2>1, <2>2, <2>3, ListStays, Stopped DEF Kept
<1>7. CASE GetBack(r)
  <2>1. UNCHANGED tasks /\ (Fail(r) \/ \E seen : End(r, seen))
    BY <1>7 DEF GetBack, RecordRequested
  <2> QED
    BY <2>1, ListStays, Stopped DEF Kept
<1>8. CASE Update(r)
  <2> DEFINE key == KnownKey(r)
  <2>1. /\ Writing(r, job[r], known[r], Want(r)) /\ job[r].verb = "update"
        /\ job[r].pc = "update"
    BY <1>8, JobAt DEF Update, At
  <2>2. known[r] # None /\ Want(r) \in Settings
    BY <2>1 DEF Writing
  <2>3. Scheduled(r) <=> key[1] # NoId
    BY <2>2, KnownKeyForm
  <2>4. CASE UNCHANGED tasks /\ Fail(r)
    BY <2>4, ListStays, Stopped DEF Kept
  <2>5. CASE ~(UNCHANGED tasks /\ Fail(r))
    <3> DEFINE real == IF Scheduled(r) THEN known[r].real ELSE Want(r).user
    <3>1. /\ Put(key, [Requested(r, real) EXCEPT !.by = tasks[key].by])
          /\ Exists(key) /\ (Scheduled(r) => Answers(key, real))
          /\ \/ Goto(r, [pc |-> "getAfter", key |-> key, real |-> real])
             \/ Again(r)
             \/ LostForGood(r)
      BY <1>8, <2>5 DEF Update
    <3>2. /\ [Requested(r, real) EXCEPT !.by = tasks[key].by].real = real
          /\ [Requested(r, real) EXCEPT !.by = tasks[key].by].doc = Requested(r, real).doc
      BY DEF Requested
    <3>3. Scheduled(r) => key \in DOMAIN tasks /\ real = tasks[key].real
      BY <3>1 DEF Answers, Exists
    <3> HIDE DEF real, key
    <3>4. OwnersStay
      <4>1. Scheduled(r) => Readable(Requested(r, real).doc)
        BY <2>2, WantReadable
      <4> QED
        BY <2>3, <3>1, <3>2, <3>3, <4>1, PutStays
    <3>5. job'[r].pc \in {"getAfter", "update", "idle"}
      <4>1. CASE Goto(r, [pc |-> "getAfter", key |-> key, real |-> real])
        BY <4>1, GotoFrame
      <4>2. CASE Again(r)
        <5>1. job'[r] = [job[r] EXCEPT !.tries = 1]
          BY <4>2, GotoFrame DEF Again
        <5>2. job'[r].pc = job[r].pc
          BY <2>1, <5>1
        <5> QED
          BY <2>1, <5>2
      <4>3. CASE LostForGood(r)
        BY <4>3, FailFrame DEF LostForGood, Idle
      <4> QED
        BY <3>1, <4>1, <4>2, <4>3
    <3> QED
      BY <3>4, <3>5, Unconcerned DEF Kept
  <2> QED
    BY <2>4, <2>5
<1>9. CASE GetAfter(r)
  <2>1. UNCHANGED tasks /\ (Fail(r) \/ \E seen : End(r, seen))
    BY <1>9 DEF GetAfter
  <2> QED
    BY <2>1, ListStays, Stopped DEF Kept
<1>10. CASE Remove(r)
  <2> DEFINE key == KnownKey(r)
  <2>1. At(r, "remove")
    BY <1>10 DEF Remove
  <2>2. CASE UNCHANGED tasks /\ (Forget(r) \/ Fail(r))
    BY <2>2, ListStays, Stopped DEF Kept, Forget
  <2>3. CASE Drop(key) /\ (Forget(r) \/ Again(r) \/ LostForGood(r))
    <3>1. CASE Again(r)
      <4>1. known'[r] = known[r] /\ job'[r] = [job[r] EXCEPT !.tries = 1]
        BY <3>1, GotoFrame DEF Again
      <4>2. KeyIn(r, known[r])' = key
        BY <4>1 DEF KnownKey, KeyIn, KeyOf, Scheduled
      <4>3. key \notin DOMAIN tasks'
        BY <2>3, DropEntry
      <4>4. job'[r].pc = "remove"
        BY <2>1, <4>1, JobAt DEF At
      <4>5. AsFound(r, known[r], job[r])'
        BY <4>2, <4>3, <4>4 DEF AsFound, Untouched, Telling
      <4> QED
        BY <2>3, <4>5, ListStays DEF Kept
    <3>2. CASE Forget(r) \/ LostForGood(r)
      BY <2>3, <3>2, ListStays, Stopped DEF Kept, Forget, LostForGood
    <3> QED
      BY <2>3, <3>1, <3>2
  <2> QED
    BY <1>10, <2>2, <2>3 DEF Remove
<1>11. CASE CreateEvent(r)
  <2>1. \/ UNCHANGED tasks
        \/ \E task : Put(<<NoId, Want(r).name>>, task)
    BY <1>11 DEF CreateEvent
  <2>2. OwnersStay
    BY <2>1, ListStays, PutStays, Pair DEF NoId
  <2>3. ~Scheduled(r)
    BY <1>11 DEF CreateEvent
  <2> QED
    BY <2>2, <2>3, Unconcerned DEF Kept
<1>12. CASE Refused(r)
  BY <1>12, ListStays, Stopped DEF Refused, Kept
<1>13. CASE Import(r)
  <2>1. UNCHANGED <<tasks, job>> /\ At(r, "idle")
    BY <1>13 DEF Import
  <2>2. job'[r].pc = "idle"
    BY <2>1 DEF At
  <2> QED
    BY <2>1, <2>2, ListStays, Unconcerned DEF Kept
<1> QED
  BY <1>1, <1>2, <1>3, <1>4, <1>5, <1>6, <1>7, <1>8, <1>9, <1>10, <1>11, <1>12, <1>13
  DEF Begin, Step

\* What another operation deals with stays as it was found.
LEMMA KeptFound ==
  ASSUME Sound, Found, NEW r \in Resources, Proper(r), Kept(r), touched' = touched
  PROVE  Found'
<1> SUFFICES ASSUME NEW q \in Resources
             PROVE  AsFound(q, known[q], job[q])'
  BY DEF Found
<1>1. CASE q = r
  BY <1>1 DEF Kept
<1>2. CASE q # r
  <2>1. known'[q] = known[q] /\ job'[q] = job[q]
    BY <1>2 DEF Proper, Frame
  <2> SUFFICES ASSUME Scheduled(q) PROVE AsFound(q, known[q], job[q])'
    BY DEF AsFound, Scheduled
  <2>2. AsFound(q, known[q], job[q])
    BY DEF Found
  <2>3. KeyIn(q, known[q])' = KeyIn(q, known[q]) /\ KeyIn(q, known[q]) = KnownKey(q)
    BY <2>1 DEF KnownKey, KeyIn, KeyOf, Scheduled
  <2>4. ASSUME NEW key, key[1] # NoId, key[1] < fresh, Untouched(key)'
        PROVE  /\ Untouched(key) /\ tasks'[key].real = tasks[key].real
               /\ Readable(tasks[key].doc) => Readable(tasks'[key].doc)
    BY <2>4 DEF Kept, OwnersStay, Untouched
  <2>5. ASSUME job[q].pc \in {"get", "remove"}
        PROVE  /\ KnownKey(q)[1] # NoId /\ KnownKey(q)[1] < fresh
               /\ job[q].pc = "get" => job[q].key = KnownKey(q)
    <3>1. known[q] # None /\ (job[q].pc = "get" => job[q].key = KnownKey(q))
      BY <2>5, JobAt DEF At
    <3> QED
      BY <3>1, KnownKeyForm
  <2>6. ASSUME Telling(job[q]) PROVE job[q].key[1] # NoId /\ job[q].key[1] < fresh
    BY <2>6, JobAt DEF Telling, At, Making
  <2> QED
    BY <2>1, <2>2, <2>3, <2>4, <2>5, <2>6 DEF AsFound, Telling, Readable
<1> QED
  BY <1>1, <1>2

\* So it does when a person changes another task, or takes it away.
LEMMA HandFound ==
  ASSUME Sound, Found, ByHand
  PROVE  Found'
<1> SUFFICES ASSUME NEW q \in Resources, Scheduled(q)
             PROVE  AsFound(q, known[q], job[q])'
  BY DEF Found, AsFound, Scheduled
<1>1. UNCHANGED <<known, job>> /\ touched \subseteq touched'
  BY DEF ByHand, GivenAway, RunOnce
<1>2. AsFound(q, known[q], job[q])
  BY DEF Found
<1>3. KeyIn(q, known[q])' = KeyIn(q, known[q]) /\ KeyIn(q, known[q]) = KnownKey(q)
  BY <1>1 DEF KnownKey, KeyIn, KeyOf, Scheduled
<1>4. ASSUME job[q].pc \in {"get", "remove"}
      PROVE  /\ KnownKey(q)[1] # NoId /\ ~At(q, "idle")
             /\ job[q].pc = "get" => job[q].key = KnownKey(q)
  <2>1. known[q] # None /\ (job[q].pc = "get" => job[q].key = KnownKey(q))
    BY <1>4, JobAt DEF At
  <2> QED
    BY <1>4, <2>1, KnownKeyForm DEF At
<1>5. ASSUME Telling(job[q]) PROVE job[q].key[1] # NoId /\ Made(q, job[q].key)
  BY <1>5, JobAt DEF Telling, At, Making, Made
<1>6. ASSUME NEW key, key[1] # NoId, Untouched(key)'
      PROVE  /\ Untouched(key)
             /\ ~At(q, "idle") /\ KnownKey(q) = key => tasks'[key].real = tasks[key].real
             /\ Made(q, key) /\ Readable(tasks[key].doc) => Readable(tasks'[key].doc)
  <2>1. key \in DOMAIN tasks' /\ key \notin touched' /\ key \notin touched
    BY <1>1, <1>6 DEF Untouched
  <2>2. ASSUME NEW k \in DOMAIN tasks, GivenAway(k)
        PROVE  /\ key \in DOMAIN tasks /\ tasks'[key].doc = tasks[key].doc
               /\ ~At(q, "idle") /\ KnownKey(q) = key => tasks'[key].real = tasks[key].real
    <3>1. CASE key # k
      BY <2>1, <2>2, <3>1, PutEntry DEF GivenAway
    <3>2. CASE key = k
      <4>1. tasks'[k] = [tasks[k] EXCEPT !.real = "person"]
        BY <2>2, PutEntry DEF GivenAway
      <4>2. ~(~At(q, "idle") /\ KnownKey(q) = k)
        BY <2>1, <2>2, <3>2 DEF GivenAway
      <4> QED
        BY <3>2, <4>1, <4>2
    <3> QED
      BY <3>1, <3>2
  <2>3. ASSUME NEW k \in DOMAIN tasks, RunOnce(k)
        PROVE  /\ key \in DOMAIN tasks /\ tasks'[key].real = tasks[key].real
               /\ Made(q, key) => tasks'[key].doc = tasks[key].doc
    <3>1. CASE key # k
      BY <2>1, <2>3, <3>1, PutEntry DEF RunOnce
    <3>2. CASE key = k
      <4>1. tasks'[k] = [tasks[k] EXCEPT !.doc = OnceDoc]
        BY <2>3, PutEntry DEF RunOnce
      <4>2. ~Made(q, k)
        BY <2>1, <2>3, <3>2 DEF RunOnce
      <4> QED
        BY <3>2, <4>1, <4>2
    <3> QED
      BY <3>1, <3>2
  <2>4. ASSUME NEW k, Drop(k)
        PROVE  key \in DOMAIN tasks /\ tasks'[key] = tasks[key]
    BY <2>1, <2>4, DropEntry
  <2>5. ASSUME NEW r, NEW task, Put(<<NoId, Want(r).name>>, task)
        PROVE  key \in DOMAIN tasks /\ tasks'[key] = tasks[key]
    <3> DEFINE k == <<NoId, Want(r).name>>
    <3>1. key # k
      BY <1>6
    <3> HIDE DEF k
    <3> QED
      BY <2>1, <2>5, <3>1, PutEntry DEF k
  <2> QED
    BY <2>1, <2>2, <2>3, <2>4, <2>5 DEF ByHand, Untouched, Readable
<1> QED
  BY <1>1, <1>2, <1>3, <1>4, <1>5, <1>6 DEF AsFound, Telling, Readable, Scheduled

----------------------------------------------------------------------------
(***************************************************************************)
(* Together they hold, and with them what is checked.                      *)
(***************************************************************************)
Safe == Sound /\ Tracked /\ Found

LEMMA InitSafe ==
  ASSUME Init
  PROVE  Safe
<1>1. fresh = 1 /\ 1 <= MaxId + 1 /\ NoId < 1
  BY BoundsAssumption DEF Init, NoId
<1>2. configs \in Seq(Configurations) /\ configs # <<>>
  BY ScenariosAssumption DEF Init
<1>3. /\ DOMAIN tasks = {} /\ DOMAIN known = Resources /\ DOMAIN job = Resources
      /\ \A r \in Resources : known[r] = None /\ job[r] = Idle
  BY DEF Init
<1>4. None.id = 0
  BY DEF None, NoId
<1>5. \A r \in Resources : RecordOK(r, known[r], fresh)
  BY <1>1, <1>3, <1>4 DEF RecordOK
<1>6. \A r \in Resources : JobOK(r, job[r], known[r], fresh, Want(r))
  BY <1>3, IdleOK
<1>7. Found
  BY <1>3, IdleOK DEF Found, AsFound, Idle
<1> QED
  BY <1>1, <1>2, <1>3, <1>5, <1>6, <1>7 DEF Safe, Sound, Tracked

LEMMA NextSafe ==
  ASSUME Safe, [Next]_vars
  PROVE  Safe'
<1>1. ASSUME NEW r \in Resources, Begin(r) \/ Step(r) \/ Import(r) PROVE Safe'
  <2>1. Proper(r) /\ Sighted(r) /\ Kept(r) /\ touched' = touched
    BY <1>1, StepProper, StepKept DEF Safe, Sighted
  <2> QED
    BY <2>1, ProperSound, SightedTracked, KeptFound DEF Safe
<1>2. CASE Reconfigure
  <2>1. UNCHANGED <<tasks, known, job, untold, touched>>
    BY <1>2 DEF Reconfigure
  <2>2. Tracked' /\ Found'
    BY <2>1 DEF Safe, Tracked, Tracks, Found, AsFound, Untouched, KeyIn, KeyOf, Scheduled
  <2> QED
    BY <1>2, <2>2, Reconfigured DEF Safe
<1>3. CASE ByHand
  BY <1>3, HandSound, HandTracked, HandFound DEF Safe
<1>4. CASE Restart
  <2>1. \A r \in Resources : job'[r] = Idle
    BY <1>4 DEF Restart
  <2>2. Found'
    BY <2>1, IdleOK DEF Found, AsFound, Idle
  <2> QED
    BY <1>4, <2>2, RestartSound, RestartTracked DEF Safe
<1>5. CASE UNCHANGED vars
  <2>1. Sound' /\ Tracked'
    BY <1>5 DEF vars, Safe, Sound, Tracked, Tracks, Want
  <2>2. Found'
    BY <1>5 DEF vars, Safe, Found, AsFound, Untouched, KeyIn, KeyOf, Scheduled
  <2> QED
    BY <2>1, <2>2 DEF Safe
<1> QED
  BY <1>1, <1>2, <1>3, <1>4, <1>5 DEF Next

LEMMA AlwaysSafe == Spec => []Safe
  BY InitSafe, NextSafe, PTL DEF Spec

LEMMA SafeTypes ==
  ASSUME Sound
  PROVE  TypeOK
<1>1. fresh \in Nat /\ NoId < fresh /\ fresh <= MaxId + 1 /\ MaxId \in Nat
  BY BoundsAssumption DEF Sound
<1>2. fresh \in 1 .. MaxId + 1
  BY <1>1 DEF NoId
<1>3. \A n \in Nat : n < fresh => n \in NoId .. fresh - 1
  BY <1>1 DEF NoId
<1>4. ASSUME NEW key \in DOMAIN tasks
      PROVE  key[1] \in NoId .. fresh - 1 /\ (key[1] # NoId <=> key[2] = NoName)
  <2>1. IsKey(key, fresh)
    BY DEF Sound, Entry
  <2> QED
    BY <1>3, <2>1 DEF IsKey, IsPair
<1>5. ASSUME NEW r \in Resources
      PROVE  /\ known[r].id \in NoId .. fresh - 1
             /\ known[r] # None => (Scheduled(r) <=> known[r].id # NoId)
             /\ job[r].pc \in {"idle", "get", "confirm", "create", "update",
                              "listBack", "getBack", "getAfter", "remove"}
  <2>1. RecordOK(r, known[r], fresh) /\ JobOK(r, job[r], known[r], fresh, Want(r))
    BY DEF Sound
  <2>2. job[r].pc \in {"idle", "get", "confirm", "create", "update",
                       "listBack", "getBack", "getAfter", "remove"}
    BY <2>1 DEF JobOK, Idle
  <2> QED
    BY <1>3, <2>1, <2>2 DEF RecordOK
<1>6. Len(configs) \in Nat \ {0}
  BY EmptySeq DEF Sound
<1> QED
  BY <1>2, <1>4, <1>5, <1>6 DEF TypeOK, Sound

\* Ids are those that DSM gave out, event tasks have none, and an operation is where one may
\* be, however ids, records and faults come together.
THEOREM TypeCorrect == Spec => []TypeOK
  BY AlwaysSafe, SafeTypes, PTL DEF Safe

LEMMA SafeUntracked ==
  ASSUME Tracked
  PROVE  NothingRunsUntracked
<1>1. \A r : KnownKey(r) = KeyIn(r, known[r])
  BY DEF KnownKey, KeyIn
<1> QED
  BY <1>1 DEF Tracked, Tracks, NothingRunsUntracked, Telling, Made

\* A task that DSM told the provider of stays in Terraform's state until it is gone from
\* DSM, whatever fails after that.  It says nothing of a task that the provider was never
\* told of, which a create that is sent again leaves running even if it succeeds, nor of
\* one that a person gave to another owner, or had run once, under an operation.
THEOREM TasksAreTracked == Spec => []NothingRunsUntracked
  BY AlwaysSafe, SafeUntracked, PTL DEF Safe

----------------------------------------------------------------------------
(***************************************************************************)
(* A destroy that is reported leaves no task.                              *)
(***************************************************************************)
Deleting(r) ==
    /\ At(r, "remove") /\ known[r] # None /\ known'[r] = None
    /\ KnownKey(r) \notin touched
    => KnownKey(r) \notin DOMAIN tasks'

LEMMA RemoveDeletes ==
  ASSUME Safe, NEW r \in Resources, Remove(r), At(r, "remove"), known[r] # None,
         known'[r] = None, KnownKey(r) \notin touched
  PROVE  KnownKey(r) \notin DOMAIN tasks'
<1>1. CASE Drop(KnownKey(r))
  BY <1>1, DropEntry
<1>2. CASE ~Drop(KnownKey(r))
  <2>1. /\ UNCHANGED tasks
        /\ ~(IF Scheduled(r) THEN Answers(KnownKey(r), known[r].real) ELSE Exists(KnownKey(r)))
    BY <1>2 DEF Remove
  <2>2. KeyIn(r, known[r]) = KnownKey(r) /\ AsFound(r, known[r], job[r])
    BY DEF Safe, Found, KeyIn, KnownKey
  <2> QED
    BY <2>1, <2>2 DEF AsFound, Untouched, Answers, Exists, At
<1> QED
  BY <1>1, <1>2

LEMMA NextDeletes ==
  ASSUME Safe, [Next]_vars, NEW r \in Resources
  PROVE  Deleting(r)
<1> SUFFICES ASSUME At(r, "remove"), known[r] # None, known'[r] = None,
                    KnownKey(r) \notin touched
             PROVE  KnownKey(r) \notin DOMAIN tasks'
  BY DEF Deleting
<1>1. ASSUME NEW q \in Resources, Begin(q) \/ Step(q) \/ Import(q)
      PROVE  KnownKey(r) \notin DOMAIN tasks'
  <2>1. q = r
    BY <1>1, StepProper DEF Proper, Frame, Safe
  <2>2. CASE Remove(r)
    BY <2>2, RemoveDeletes
  <2>3. CASE Refused(r)
    BY <2>3, FailFrame DEF Refused, Safe
  <2> QED
    BY <1>1, <2>1, <2>2, <2>3 DEF Begin, Step, Import, Create, Read, Get, Confirm,
       CreateScheduled, ListBack, GetBack, Update, GetAfter, CreateEvent, At
<1>2. CASE Reconfigure \/ ByHand \/ Restart \/ UNCHANGED vars
  <2>1. known' = known
    BY <1>2 DEF Reconfigure, ByHand, Restart, vars
  <2> QED
    BY <2>1
<1> QED
  BY <1>1, <1>2 DEF Next

\* A destroy that Terraform is told of leaves no task on DSM, whatever was answered to the
\* requests of its operation, unless a person gave the task away meanwhile.
THEOREM DestroyedTasksAreGone == Spec => DeletedIsGone
<1>1. Safe /\ [Next]_vars =>
        [\A r \in Resources :
            /\ At(r, "remove") /\ known[r] # None /\ known'[r] = None
            /\ KnownKey(r) \notin touched
            => KnownKey(r) \notin DOMAIN tasks']_vars
  BY NextDeletes DEF Deleting
<1> QED
  BY <1>1, AlwaysSafe, PTL DEF Spec, DeletedIsGone

----------------------------------------------------------------------------
(***************************************************************************)
(* The schedule of a task: what is configured, stored and read back.       *)
(***************************************************************************)
\* The days that are read back: all of them, in lower case.
LEMMA DaysReadBack ==
    ASSUME NEW days \in SUBSET Weekdays
    PROVE  LET read == [day : {d.day : d \in days} \intersect (0 .. 6), lower : {TRUE}]
           IN  days = read <=> \A d \in days : d.lower
<1> DEFINE read == [day : {d.day : d \in days} \intersect (0 .. 6), lower : {TRUE}]
<1>1. ASSUME days = read, NEW d \in days PROVE d.lower
  BY <1>1
<1>2. ASSUME \A d \in days : d.lower PROVE days = read
  <2>1. ASSUME NEW d \in days PROVE d \in read
    <3>1. d \in [day : 0 .. 6, lower : BOOLEAN] /\ d.lower
      BY <1>2 DEF Weekdays
    <3>2. d = [day |-> d.day, lower |-> TRUE] /\ d.day \in 0 .. 6
      BY <3>1
    <3>3. d.day \in {x.day : x \in days} \intersect (0 .. 6)
      BY <3>2
    <3> DEFINE numbers == {x.day : x \in days} \intersect (0 .. 6)
    <3>4. d.day \in numbers
      BY <3>3
    <3>5. d \in [day : numbers, lower : {TRUE}]
      <4> HIDE DEF numbers
      <4>1. ASSUME NEW n \in numbers
            PROVE  [day |-> n, lower |-> TRUE] \in [day : numbers, lower : {TRUE}]
        OBVIOUS
      <4> QED BY <3>2, <3>4, <4>1
    <3> QED BY <3>5
  <2>2. ASSUME NEW x \in read PROVE x \in days
    <3>1. PICK d \in days : x.day = d.day
      OBVIOUS
    <3>2. x = [day |-> d.day, lower |-> TRUE]
      BY <3>1
    <3>3. d = [day |-> d.day, lower |-> d.lower] /\ d.lower = TRUE
      BY <1>2 DEF Weekdays
    <3> QED BY <3>2, <3>3
  <2> QED BY <2>1, <2>2
<1> QED BY <1>1, <1>2

(***************************************************************************)
(* Whatever schedule is configured, what DSM stores of it is read back as  *)
(* configured, and the next plan is empty, unless a weekday is not spelled *)
(* in lower case: then every plan differs, because encodeWeekDays          *)
(* compares without regard to case (task_scheduler.go:639) and             *)
(* parseSchedule answers in lower case.                                    *)
(***************************************************************************)
THEOREM RoundTrip ==
    ASSUME NEW s \in TaskSchedule, Valid(s)
    PROVE  Differs(s, ParseSchedule(EncodeSchedule(s))) <=> \E d \in s.days : ~d.lower
<1> DEFINE doc  == EncodeSchedule(s)
           seen == ParseSchedule(doc)
           read == [day : {d.day : d \in s.days} \intersect (0 .. 6), lower : {TRUE}]
           shown == IF s.frequency = "daily" THEN {} ELSE read
           until == IF s.until = Unset THEN s.hour ELSE s.until
<1>1. /\ s = [frequency |-> s.frequency, days |-> s.days, weeks |-> s.weeks,
              hour |-> s.hour, minute |-> s.minute, everyHours |-> s.everyHours,
              everyMinutes |-> s.everyMinutes, until |-> s.until]
      /\ s.frequency \in Frequencies /\ s.days \in SUBSET Weekdays
  BY DEF TaskSchedule
<1>2. /\ doc.repeatDate = RepeatDate(s.frequency) /\ doc.monthlyWeek = s.weeks
      /\ doc.hour = s.hour /\ doc.minute = s.minute
      /\ doc.repeatHour = s.everyHours /\ doc.repeatMin = s.everyMinutes
      /\ doc.lastWorkHour = IF s.until = Unset THEN s.hour ELSE s.until
      /\ doc.weekDay = EncodeWeekDays(s)
  BY DEF EncodeSchedule
<1>3. Frequency(doc.repeatDate) = s.frequency /\ (doc.repeatDate = 1001 <=> s.frequency = "daily")
  BY <1>1, <1>2, FrequencyOfRepeatDate
<1>4. seen = [frequency |-> s.frequency,
              days |-> shown, weeks |-> s.weeks, hour |-> s.hour, minute |-> s.minute,
              everyHours |-> s.everyHours, everyMinutes |-> s.everyMinutes,
              until |-> until]
  <2>1. CASE s.frequency = "daily"
    BY <1>2, <1>3, <2>1 DEF ParseSchedule
  <2>2. CASE s.frequency # "daily"
    <3>1. doc.weekDay = {d.day : d \in s.days}
      BY <1>2, <2>2 DEF EncodeWeekDays
    <3>2. (doc.repeatDate = 1001) = FALSE
      BY <1>3, <2>2
    <3> HIDE DEF doc
    <3> QED BY <1>2, <1>3, <2>2, <3>1, <3>2 DEF ParseSchedule
  <2> QED BY <2>1, <2>2
<1>5. s.until # Unset => s.until = seen.until
  BY <1>4
<1> HIDE DEF shown, until, seen
<1>6. seen.days = shown
  BY <1>4
<1>7. [s EXCEPT !.until = 0] = [seen EXCEPT !.until = 0] <=> s.days = shown
  <2>1. [s EXCEPT !.until = 0] =
            [frequency |-> s.frequency, days |-> s.days, weeks |-> s.weeks,
             hour |-> s.hour, minute |-> s.minute, everyHours |-> s.everyHours,
             everyMinutes |-> s.everyMinutes, until |-> 0]
    BY DEF TaskSchedule
  <2>2. [seen EXCEPT !.until = 0] =
            [frequency |-> s.frequency, days |-> shown, weeks |-> s.weeks,
             hour |-> s.hour, minute |-> s.minute, everyHours |-> s.everyHours,
             everyMinutes |-> s.everyMinutes, until |-> 0]
    BY <1>4
  <2>3. ([s EXCEPT !.until = 0]).days = s.days /\ ([seen EXCEPT !.until = 0]).days = shown
    BY <2>1, <2>2
  <2> QED BY <2>1, <2>2, <2>3
<1>8. s.days = shown <=> \A d \in s.days : d.lower
  <2>1. CASE s.frequency = "daily"
    <3>1. s.days = {}
      BY <2>1 DEF Valid
    <3> QED BY <2>1, <3>1 DEF shown
  <2>2. CASE s.frequency # "daily"
    <3>1. shown = read
      BY <2>2 DEF shown
    <3> QED BY <1>1, <3>1, DaysReadBack
  <2> QED BY <2>1, <2>2
<1> QED
  <2>1. Differs(s, seen) <=> s.days # shown
    BY <1>5, <1>7 DEF Differs
  <2> QED BY <2>1, <1>8 DEF seen
=============================================================================
