------------------------ MODULE ReverseProxy_proofs ------------------------
(***************************************************************************)
(* For any resources, plans, faults and entries made by hand:              *)
(* reverseProxyMu has one holder, no entry is left behind silently, and an *)
(* entry made by hand is only taken over where the code looks for one.     *)
(***************************************************************************)
EXTENDS ReverseProxy, TLAPS

Pcs == {"idle", "read", "readByDescription", "queued"} \union Locked
Verbs == {"none", "create", "update", "delete"}
Tries == 0 .. 1

\* Every string; the provers do not know that these are some.
Text == STRING \union {"unset", "on", "none", "gone", "by hand"}
JobTypes == [pc : Pcs, verb : Verbs, tries : Tries, raw : Text, uuid : Nat]

\* The operations a step may belong to.
Fits(j) ==
    /\ j.pc \in {"idle", "read", "readByDescription"} => j.verb = "none"
    /\ j.pc = "queued" => j.verb # "none"
    /\ j.pc \in {"check", "create"} => j.verb = "create"
    /\ j.pc \in {"current", "set"} => j.verb = "update"
    /\ j.pc \in {"exists", "remove"} => j.verb = "delete"
    /\ j.pc = "readback" => j.verb \in {"create", "update"}

Jobs == {j \in JobTypes : Fits(j)}

Entries == [desc : Text, front : Text, dest : Text, http2 : Text,
            by : Resources \union {Hand}, open : SUBSET Resources]
States == [uuid : Nat, dest : Text, http2 : BOOLEAN, tainted : BOOLEAN]
Budgets == [faults : 0 .. MaxFaults, hand : 0 .. MaxHand]

\* What Terraform's state may hold of a resource.
Recordable(k) == k \in States /\ (k = None \/ k.uuid \in 1 .. fresh - 1)

EntriesOK ==
    /\ fresh \in 1 .. MaxUUID + 1
    /\ DOMAIN entries \subseteq 1 .. fresh - 1
    /\ \A u \in DOMAIN entries : entries[u] \in Entries

StatesOK ==
    /\ DOMAIN known = Resources /\ \A r \in Resources : Recordable(known[r])
    /\ stage \in [Resources -> Nat] /\ \A r \in Resources : stage[r] \in DOMAIN Plans[r]
    /\ stranded \subseteq Resources
    /\ budget \in Budgets

LockOK ==
    /\ mu \in Resources \union {NoOne}
    /\ job \in [Resources -> Jobs]
    /\ \A r \in Resources : job[r].uuid < fresh
    /\ \A r \in Resources : mu = r <=> job[r].pc \in Locked

Typed == EntriesOK /\ StatesOK /\ LockOK

LEMMA TypedImplied == Typed => TypeOK
<1> SUFFICES ASSUME Typed PROVE TypeOK
  OBVIOUS
<1>1. DOMAIN entries \subseteq 1 .. MaxUUID /\ \A u \in DOMAIN entries : u < fresh
  BY BoundsAssumption DEF Typed, EntriesOK
<1>2. \A r \in Resources : job[r].pc \in Pcs
  BY DEF Typed, LockOK, Jobs, JobTypes
<1> QED
  BY <1>1, <1>2 DEF Typed, EntriesOK, StatesOK, LockOK, Recordable, TypeOK, Pcs

LEMMA TriesOK == 0 \in Tries /\ 1 \in Tries
  BY DEF Tries

LEMMA TextOK ==
    /\ \A t \in {"unset", "on", "none", "gone", "by hand"} : t \in Text
    /\ \A t \in STRING : t \in Text
  BY DEF Text

----------------------------------------------------------------------------
(***************************************************************************)
(* The job and the lock.                                                   *)
(***************************************************************************)
\* An operation goes on where it was, inside the lock or outside, or leaves the lock.
Moves(r) ==
    \E j \in Jobs :
        /\ job' = [job EXCEPT ![r] = j] /\ j.uuid < fresh'
        /\ \/ mu' = mu /\ (j.pc \in Locked <=> job[r].pc \in Locked)
           \/ mu' = (IF mu = r THEN NoOne ELSE mu) /\ j.pc \notin Locked

LEMMA MovesLockOK ==
  ASSUME NEW r \in Resources, LockOK, Moves(r), fresh \in Nat, fresh' \in Nat, fresh <= fresh'
  PROVE  LockOK'
<1>1. PICK j \in Jobs :
        /\ job' = [job EXCEPT ![r] = j] /\ j.uuid < fresh'
        /\ \/ mu' = mu /\ (j.pc \in Locked <=> job[r].pc \in Locked)
           \/ mu' = (IF mu = r THEN NoOne ELSE mu) /\ j.pc \notin Locked
  BY DEF Moves
<1>2. job' \in [Resources -> Jobs]
  BY <1>1 DEF LockOK
<1>3. job'[r] = j /\ \A s \in Resources : s # r => job'[s] = job[s]
  BY <1>1 DEF LockOK
<1>4. mu' \in Resources \union {NoOne}
  BY <1>1 DEF LockOK
<1>5. ASSUME NEW s \in Resources PROVE mu' = s <=> job'[s].pc \in Locked
  <2>1. NoOne # s /\ NoOne # r
    BY ResourcesAssumption
  <2>2. (mu = s <=> job[s].pc \in Locked) /\ (mu = r <=> job[r].pc \in Locked)
    BY DEF LockOK
  <2> QED
    BY <1>1, <1>3, <2>1, <2>2
<1>6. ASSUME NEW s \in Resources PROVE job'[s].uuid < fresh'
  <2>1. job[s].uuid \in Nat /\ job[s].uuid < fresh
    BY DEF LockOK, Jobs, JobTypes
  <2> QED
    BY <1>1, <1>3, <2>1
<1> QED
  BY <1>2, <1>4, <1>5, <1>6 DEF LockOK

LEMMA IdleIsJob == Idle \in Jobs /\ Idle.pc \notin Locked /\ Idle.uuid = 0 /\ Idle.verb = "none"
<1>1. Idle \in JobTypes /\ Idle.pc = "idle" /\ Idle.verb = "none" /\ Idle.uuid = 0
  BY TriesOK, TextOK DEF Idle, JobTypes, Pcs, Verbs, NoUUID
<1>2. Fits(Idle) /\ "idle" \notin Locked
  BY <1>1 DEF Fits, Locked
<1> QED
  BY <1>1, <1>2 DEF Jobs

LEMMA QueuedIsJob ==
  ASSUME NEW verb \in Verbs \ {"none"}
  PROVE  /\ Queued(verb) \in Jobs /\ Queued(verb).pc = "queued" /\ "queued" \notin Locked
         /\ Queued(verb).uuid = 0 /\ Queued(verb).verb = verb
<1>1. /\ Queued(verb) \in JobTypes /\ Queued(verb).pc = "queued"
      /\ Queued(verb).verb = verb /\ Queued(verb).uuid = 0
  BY TriesOK, TextOK DEF Queued, Idle, JobTypes, Pcs, NoUUID
<1>2. Fits(Queued(verb)) /\ "queued" \notin Locked
  BY <1>1 DEF Fits, Locked
<1> QED
  BY <1>1, <1>2 DEF Jobs

LEMMA ReadingBackIsJob ==
  ASSUME NEW verb \in {"create", "update"}, NEW u \in Nat
  PROVE  /\ ReadingBack(verb, u) \in Jobs /\ ReadingBack(verb, u).pc = "readback"
         /\ "readback" \in Locked
         /\ ReadingBack(verb, u).uuid = u /\ ReadingBack(verb, u).verb = verb
<1>1. /\ ReadingBack(verb, u) \in JobTypes /\ ReadingBack(verb, u).pc = "readback"
      /\ ReadingBack(verb, u).verb = verb /\ ReadingBack(verb, u).uuid = u
  BY TriesOK, TextOK DEF ReadingBack, Idle, JobTypes, Pcs, Verbs, Locked
<1>2. Fits(ReadingBack(verb, u)) /\ "readback" \in Locked
  BY <1>1 DEF Fits, Locked
<1> QED
  BY <1>1, <1>2 DEF Jobs

\* An operation ends, with or without an error.
LEMMA EndMoves ==
  ASSUME NEW r \in Resources, fresh' \in Nat, fresh' > 0,
         End(r) \/ Fail(r) \/ Forget(r) \/ \E u : Record(r, u)
  PROVE  Moves(r)
<1>1. End(r)
  BY DEF Fail, Forget, Record
<1> QED
  BY <1>1, IdleIsJob DEF End, Moves

\* On to the next step, with what the job was.
LEMMA StepMoves ==
  ASSUME NEW r \in Resources, LockOK, fresh \in Nat, fresh' \in Nat, fresh <= fresh', mu' = mu,
         NEW j \in JobTypes, Fits(j), job' = [job EXCEPT ![r] = j],
         j.uuid = job[r].uuid, j.pc \in Locked <=> job[r].pc \in Locked
  PROVE  Moves(r)
<1>1. job[r].uuid \in Nat /\ job[r].uuid < fresh
  BY DEF LockOK, Jobs, JobTypes
<1>2. j.uuid < fresh' /\ j \in Jobs
  BY <1>1 DEF Jobs
<1> QED
  BY <1>2 DEF Moves

LEMMA GotoMoves ==
  ASSUME NEW r \in Resources, LockOK, fresh \in Nat, fresh' \in Nat, fresh <= fresh', mu' = mu,
         NEW pc \in Pcs, Goto(r, pc), pc \in Locked <=> job[r].pc \in Locked,
         Fits([job[r] EXCEPT !.pc = pc])
  PROVE  Moves(r)
<1> DEFINE j == [job[r] EXCEPT !.pc = pc]
<1>0. job[r] \in JobTypes /\ job \in [Resources -> Jobs]
  BY DEF LockOK, Jobs
<1>1. j \in JobTypes /\ j.pc = pc /\ j.uuid = job[r].uuid
  BY <1>0 DEF JobTypes
<1>2. job' = [job EXCEPT ![r] = j]
  BY <1>0 DEF Goto
<1>3. Fits(j)
  OBVIOUS
<1> HIDE DEF j
<1> QED
  BY <1>1, <1>2, <1>3, StepMoves

LEMMA RetryMoves ==
  ASSUME NEW r \in Resources, LockOK, fresh \in Nat, fresh' \in Nat, fresh <= fresh', mu' = mu,
         RetryLost(r)
  PROVE  Moves(r)
<1> DEFINE j == [job[r] EXCEPT !.tries = 1]
<1>0. job[r] \in JobTypes /\ job \in [Resources -> Jobs] /\ Fits(job[r])
  BY DEF LockOK, Jobs
<1>1. j \in JobTypes /\ j.pc = job[r].pc /\ j.uuid = job[r].uuid /\ j.verb = job[r].verb
  BY <1>0, TriesOK DEF JobTypes
<1>2. job' = [job EXCEPT ![r] = j]
  BY <1>0 DEF RetryLost
<1> HIDE DEF j
<1>3. Fits(j)
  BY <1>0, <1>1 DEF Fits
<1> QED
  BY <1>1, <1>2, <1>3, StepMoves

LEMMA SetMoves ==
  ASSUME NEW r \in Resources, LockOK, fresh \in Nat, fresh' \in Nat, fresh <= fresh', mu' = mu,
         NEW raw \in Text, job[r].pc = "current",
         job' = [job EXCEPT ![r] = [@ EXCEPT !.pc = "set", !.raw = raw]]
  PROVE  Moves(r)
<1> DEFINE j == [job[r] EXCEPT !.pc = "set", !.raw = raw]
<1>0. job[r] \in JobTypes /\ job \in [Resources -> Jobs] /\ Fits(job[r])
  BY DEF LockOK, Jobs
<1>1. /\ j \in JobTypes /\ j.pc = "set" /\ j.uuid = job[r].uuid /\ j.verb = job[r].verb
      /\ "set" \in Locked /\ "current" \in Locked
  BY <1>0 DEF JobTypes, Pcs, Locked
<1>2. job' = [job EXCEPT ![r] = j]
  BY <1>0
<1> HIDE DEF j
<1>3. Fits(j)
  BY <1>0, <1>1 DEF Fits
<1> QED
  BY <1>1, <1>2, <1>3, StepMoves

LEMMA FitsGoes ==
  ASSUME NEW j \in Jobs
  PROVE  /\ j.pc = "read" => Fits([j EXCEPT !.pc = "readByDescription"])
         /\ j.pc = "check" => Fits([j EXCEPT !.pc = "create"])
         /\ j.pc = "exists" => Fits([j EXCEPT !.pc = "remove"])
         /\ j.pc = "queued" => Fits([j EXCEPT !.pc = FirstStep(j.verb)])
         /\ j.pc = "queued" => FirstStep(j.verb) \in Locked
<1>1. j \in JobTypes /\ Fits(j)
  BY DEF Jobs
<1>2. ASSUME NEW pc \in Pcs PROVE [j EXCEPT !.pc = pc].pc = pc /\ [j EXCEPT !.pc = pc].verb = j.verb
  BY <1>1 DEF JobTypes
<1>3. /\ j.pc = "read" => Fits([j EXCEPT !.pc = "readByDescription"])
      /\ j.pc = "check" => Fits([j EXCEPT !.pc = "create"])
      /\ j.pc = "exists" => Fits([j EXCEPT !.pc = "remove"])
  BY <1>1, <1>2 DEF Fits, Pcs, Locked
<1>4. ASSUME j.pc = "queued"
      PROVE  Fits([j EXCEPT !.pc = FirstStep(j.verb)]) /\ FirstStep(j.verb) \in Locked
  <2>1. j.verb \in {"create", "update", "delete"}
    BY <1>1, <1>4 DEF Fits, JobTypes, Verbs
  <2>2. /\ j.verb = "create" => FirstStep(j.verb) = "check"
        /\ j.verb = "update" => FirstStep(j.verb) = "current"
        /\ j.verb = "delete" => FirstStep(j.verb) = "exists"
    BY DEF FirstStep
  <2>3. FirstStep(j.verb) \in Pcs /\ FirstStep(j.verb) \in Locked
    BY <2>1, <2>2 DEF Pcs, Locked
  <2> QED
    BY <1>2, <2>1, <2>2, <2>3 DEF Fits
<1> QED
  BY <1>3, <1>4

LEMMA JobOK ==
  ASSUME LockOK, NEW r \in Resources
  PROVE  /\ job[r] \in Jobs /\ job[r].uuid \in Nat /\ job[r].raw \in Text
         /\ job \in [Resources -> Jobs]
  BY DEF LockOK, Jobs, JobTypes

LEMMA ReadingBackMoves ==
  ASSUME NEW r \in Resources, NEW verb \in {"create", "update"}, NEW u \in Nat, u < fresh',
         mu' = mu, job[r].pc \in Locked, job' = [job EXCEPT ![r] = ReadingBack(verb, u)]
  PROVE  Moves(r)
<1> DEFINE j == ReadingBack(verb, u)
<1>1. j \in Jobs /\ j.pc \in Locked /\ j.uuid < fresh' /\ job' = [job EXCEPT ![r] = j]
  BY ReadingBackIsJob
<1> HIDE DEF j
<1> QED
  BY <1>1 DEF Moves

LEMMA RefreshedMoves ==
  ASSUME NEW r \in Resources, LockOK, fresh' = fresh, fresh \in Nat, fresh > 0, NEW u,
         Refreshed(r, u), job[r].pc \notin Locked
  PROVE  Moves(r)
<1> DEFINE verb == PlannedVerb(r, Parsed(u, known[r].http2, known[r].tainted))
           j == IF verb = "nothing" THEN Idle ELSE Queued(verb)
<1>1. verb \in {"nothing", "update", "delete"}
  BY DEF PlannedVerb
<1>2. job' = [job EXCEPT ![r] = j] /\ mu' = mu
  BY DEF Refreshed
<1> HIDE DEF verb
<1>3. j \in Jobs /\ j.pc \notin Locked /\ j.uuid = 0
  <2>1. verb # "nothing" => verb \in Verbs \ {"none"}
    BY <1>1 DEF Verbs
  <2> QED
    BY <2>1, IdleIsJob, QueuedIsJob
<1> HIDE DEF j
<1> QED
  BY <1>2, <1>3 DEF Moves

LEMMA OutsideMoves ==
  ASSUME NEW r \in Resources, LockOK, EntriesOK,
         Begin(r) \/ Read(r) \/ ReadByDescription(r) \/ ProfileNotFound(r)
  PROVE  Moves(r)
<1>0. fresh' = fresh /\ fresh \in Nat /\ fresh > 0 /\ job[r].pc \notin Locked
  BY DEF EntriesOK, Begin, Read, ReadByDescription, ProfileNotFound, At, Locked
<1>1. CASE Begin(r)
  <2>1. mu' = mu
    BY <1>1 DEF Begin
  <2>2. CASE job' = [job EXCEPT ![r] = [Idle EXCEPT !.pc = "read"]]
    <3> DEFINE j == [Idle EXCEPT !.pc = "read"]
    <3>1. j \in JobTypes /\ j.pc = "read" /\ j.verb = "none" /\ j.uuid = 0
      BY IdleIsJob DEF Jobs, JobTypes, Pcs
    <3> HIDE DEF j
    <3>2. j \in Jobs /\ j.pc \notin Locked
      BY <3>1 DEF Jobs, Fits, Locked
    <3> QED
      BY <1>0, <2>1, <2>2, <3>1, <3>2 DEF Moves, j
  <2>3. CASE job' = [job EXCEPT ![r] = Queued("create")]
    <3>1. "create" \in Verbs \ {"none"}
      BY DEF Verbs
    <3> QED
      BY <1>0, <2>1, <2>3, <3>1, QueuedIsJob DEF Moves
  <2> QED
    BY <1>1, <2>2, <2>3 DEF Begin
<1>2. CASE Read(r)
  <2>1. Goto(r, "readByDescription") /\ mu' = mu => Moves(r)
    <3>1. /\ "readByDescription" \in Pcs /\ "readByDescription" \notin Locked
          /\ job[r].pc = "read"
      BY <1>2 DEF Pcs, Locked, Read, At
    <3>2. Fits([job[r] EXCEPT !.pc = "readByDescription"])
      BY <1>0, <3>1, JobOK, FitsGoes
    <3> QED
      BY <1>0, <3>1, <3>2, GotoMoves
  <2> QED
    BY <1>0, <1>2, <2>1, RefreshedMoves, EndMoves DEF Read
<1>3. CASE ReadByDescription(r)
  BY <1>0, <1>3, RefreshedMoves, EndMoves DEF ReadByDescription
<1>4. CASE ProfileNotFound(r)
  BY <1>0, <1>4, EndMoves DEF ProfileNotFound
<1> QED
  BY <1>1, <1>2, <1>3, <1>4

LEMMA CreateMoves ==
  ASSUME NEW r \in Resources, LockOK, EntriesOK,
         Check(r) \/ Create(r) \/ AlreadyExists(r) \/ ReadBack(r) \/ Refused(r)
  PROVE  Moves(r)
<1>0. /\ fresh \in Nat /\ fresh > 0 /\ fresh' \in Nat /\ fresh <= fresh'
      /\ fresh' = fresh \/ fresh' = fresh + 1
  BY DEF EntriesOK, Check, Create, AlreadyExists, ReadBack, Refused
<1>1. CASE Check(r)
  <2>1. Goto(r, "create") /\ mu' = mu => Moves(r)
    <3>1. "create" \in Pcs /\ "create" \in Locked /\ job[r].pc \in Locked /\ job[r].pc = "check"
      BY <1>1 DEF Pcs, Locked, Check, At
    <3>2. Fits([job[r] EXCEPT !.pc = "create"])
      BY <1>0, <3>1, JobOK, FitsGoes
    <3> QED
      BY <1>0, <3>1, <3>2, GotoMoves
  <2> QED
    BY <1>0, <1>1, <2>1, EndMoves DEF Check
<1>2. ASSUME NEW u \in Nat, u < fresh', mu' = mu, job[r].pc \in Locked,
             job' = [job EXCEPT ![r] = ReadingBack("create", u)]
      PROVE  Moves(r)
  BY <1>2, ReadingBackMoves
<1>3. CASE Create(r)
  <2>1. job[r].pc \in Locked /\ fresh' = fresh + 1 /\ NoUUID = 0
    BY <1>3 DEF Create, At, Locked, NoUUID
  <2>2. \/ /\ \E u \in {NoUUID, fresh} : job' = [job EXCEPT ![r] = ReadingBack("create", u)]
           /\ mu' = mu
        \/ RetryLost(r) /\ mu' = mu
        \/ Fail(r)
    BY <1>3 DEF Create, RetryLost, LostForGood
  <2>3. ASSUME NEW u \in {NoUUID, fresh}, mu' = mu,
               job' = [job EXCEPT ![r] = ReadingBack("create", u)]
        PROVE  Moves(r)
    <3>1. u \in Nat /\ u < fresh'
      BY <1>0, <2>1, <2>3
    <3> QED
      BY <1>2, <2>1, <2>3, <3>1
  <2> QED
    BY <1>0, <2>2, <2>3, RetryMoves, EndMoves
<1>4. CASE AlreadyExists(r)
  <2>1. /\ job[r].pc \in Locked /\ mu' = mu /\ NoUUID \in Nat /\ NoUUID < fresh'
        /\ job' = [job EXCEPT ![r] = ReadingBack("create", NoUUID)]
    BY <1>0, <1>4 DEF AlreadyExists, At, Locked, NoUUID
  <2> QED
    BY <1>2, <2>1
<1>5. CASE ReadBack(r)
  <2>1. Fail(r) \/ \E u : Record(r, u)
    BY <1>5 DEF ReadBack
  <2> QED
    BY <1>0, <2>1, EndMoves
<1>6. CASE Refused(r)
  BY <1>0, <1>6, EndMoves DEF Refused
<1> QED
  BY <1>1, <1>3, <1>4, <1>5, <1>6

LEMMA ChangeMoves ==
  ASSUME NEW r \in Resources, Typed, Current(r) \/ Update(r) \/ Exists(r) \/ Delete(r)
  PROVE  Moves(r)
<1>0. fresh' = fresh /\ fresh \in Nat /\ fresh > 0 /\ LockOK
  BY DEF Typed, EntriesOK, Current, Update, Exists, Delete
<1>1. CASE Current(r)
  <2>1. job[r].pc = "current"
    BY <1>1 DEF Current, At
  <2>2. \/ Fail(r)
        \/ /\ \E raw \in Text : job' = [job EXCEPT ![r] = [@ EXCEPT !.pc = "set", !.raw = raw]]
           /\ mu' = mu
    BY <1>1 DEF Current, Typed, EntriesOK, Entries
  <2>3. ASSUME NEW raw \in Text, mu' = mu,
               job' = [job EXCEPT ![r] = [@ EXCEPT !.pc = "set", !.raw = raw]]
        PROVE  Moves(r)
    <3>1. fresh <= fresh'
      BY <1>0
    <3> QED
      BY <1>0, <2>1, <2>3, <3>1, SetMoves
  <2> QED
    BY <1>0, <2>2, <2>3, EndMoves
<1>2. CASE Update(r)
  <2>1. job[r].pc \in Locked
    BY <1>2 DEF Update, At, Locked
  <2>2. \/ Fail(r)
        \/ RetryLost(r) /\ mu' = mu
        \/ /\ job' = [job EXCEPT ![r] = ReadingBack("update", known[r].uuid)] /\ mu' = mu
           /\ known[r].uuid \in DOMAIN entries
    BY <1>2 DEF Update, RetryLost, LostForGood
  <2>3. CASE /\ job' = [job EXCEPT ![r] = ReadingBack("update", known[r].uuid)] /\ mu' = mu
             /\ known[r].uuid \in DOMAIN entries
    <3>1. known[r].uuid \in Nat /\ known[r].uuid < fresh'
      BY <1>0, <2>3 DEF Typed, EntriesOK
    <3> QED
      BY <2>1, <2>3, <3>1, ReadingBackMoves
  <2> QED
    BY <1>0, <2>2, <2>3, RetryMoves, EndMoves
<1>3. CASE Exists(r)
  <2>1. Goto(r, "remove") /\ mu' = mu => Moves(r)
    <3>1. "remove" \in Pcs /\ "remove" \in Locked /\ job[r].pc \in Locked /\ job[r].pc = "exists"
      BY <1>3 DEF Pcs, Locked, Exists, At
    <3>2. Fits([job[r] EXCEPT !.pc = "remove"])
      BY <1>0, <3>1, JobOK, FitsGoes
    <3> QED
      BY <1>0, <3>1, <3>2, GotoMoves
  <2> QED
    BY <1>0, <1>3, <2>1, EndMoves DEF Exists
<1>4. CASE Delete(r)
  <2>1. Fail(r) \/ Forget(r) \/ (RetryLost(r) /\ mu' = mu)
    BY <1>4 DEF Delete, RetryLost, LostForGood
  <2> QED
    BY <1>0, <2>1, RetryMoves, EndMoves
<1> QED
  BY <1>1, <1>2, <1>3, <1>4

LEMMA TakeLockOK ==
  ASSUME NEW r \in Resources, LockOK, TakeReverseProxyMu(r)
  PROVE  LockOK' /\ \E j \in Jobs : job' = [job EXCEPT ![r] = j]
<1> DEFINE pc == FirstStep(job[r].verb)
           j == [job[r] EXCEPT !.pc = pc]
<1>1. /\ job[r] \in Jobs /\ job[r] \in JobTypes /\ job \in [Resources -> Jobs]
      /\ job[r].pc = "queued" /\ fresh' = fresh
  BY DEF LockOK, Jobs, TakeReverseProxyMu, At
<1>2. pc \in Locked /\ Fits(j)
  BY <1>1, FitsGoes
<1> HIDE DEF pc
<1>3. j \in JobTypes /\ j.pc = pc /\ j.uuid = job[r].uuid
  BY <1>1, <1>2 DEF JobTypes, Pcs
<1>4. job' = [job EXCEPT ![r] = j] /\ mu = NoOne /\ mu' = r
  BY <1>1 DEF TakeReverseProxyMu, pc
<1> HIDE DEF j
<1>5. j \in Jobs /\ job' \in [Resources -> Jobs]
  BY <1>1, <1>2, <1>3, <1>4 DEF Jobs
<1>6. job'[r] = j /\ \A s \in Resources : s # r => job'[s] = job[s]
  BY <1>1, <1>4
<1>7. \A s \in Resources : mu' = s <=> job'[s].pc \in Locked
  BY <1>2, <1>3, <1>4, <1>6, ResourcesAssumption DEF LockOK
<1>8. \A s \in Resources : job'[s].uuid < fresh'
  BY <1>1, <1>3, <1>6 DEF LockOK
<1> QED
  BY <1>4, <1>5, <1>7, <1>8 DEF LockOK

LEMMA NextLockOK ==
  ASSUME Typed, [Next]_vars
  PROVE  LockOK'
<1>0. LockOK /\ EntriesOK /\ fresh \in Nat
  BY DEF Typed, EntriesOK
<1>1. ASSUME NEW r \in Resources, Begin(r) \/ Step(r) PROVE LockOK'
  <2>1. Moves(r)
    BY <1>0, <1>1, OutsideMoves, CreateMoves, ChangeMoves DEF Step
  <2>2. fresh' \in Nat /\ fresh <= fresh'
    BY <1>0, <1>1 DEF Begin, Step, Read, ReadByDescription, ProfileNotFound, Check, Create,
       AlreadyExists, ReadBack, Current, Update, Exists, Delete, Refused
  <2> QED
    BY <1>0, <2>1, <2>2, MovesLockOK
<1>2. ASSUME UNCHANGED <<mu, job>>, fresh' \in Nat, fresh <= fresh' PROVE LockOK'
  <2>1. \A r \in Resources : job[r].uuid \in Nat /\ job[r].uuid < fresh
    BY <1>0, JobOK DEF LockOK
  <2> QED
    BY <1>0, <1>2, <2>1 DEF LockOK
<1>3. CASE \E r \in Resources : Reconfigure(r) \/ Import(r)
  <2>1. UNCHANGED <<mu, job, fresh>>
    BY <1>3 DEF Reconfigure, Import
  <2> QED
    BY <1>0, <1>2, <2>1
<1>4. CASE ByHand
  <2>1. UNCHANGED <<mu, job>> /\ (fresh' = fresh \/ fresh' = fresh + 1)
    BY <1>4 DEF ByHand
  <2> QED
    BY <1>0, <1>2, <2>1
<1>5. CASE Restart
  <2>1. mu' = NoOne /\ job' = [r \in Resources |-> Idle] /\ fresh' = fresh
    BY <1>5 DEF Restart
  <2>2. 0 < fresh
    BY DEF Typed, EntriesOK
  <2> QED
    BY <2>1, <2>2, IdleIsJob, ResourcesAssumption DEF LockOK
<1>6. CASE UNCHANGED vars
  BY <1>0, <1>2, <1>6 DEF vars
<1> QED
  BY <1>0, <1>1, <1>3, <1>4, <1>5, <1>6, TakeLockOK DEF Next

----------------------------------------------------------------------------
(***************************************************************************)
(* What DSM and Terraform have.                                            *)
(***************************************************************************)
LEMMA WantOK ==
  ASSUME StatesOK, NEW r \in Resources
  PROVE  Want(r) \in Wishes /\ Want(r).dest \in Text /\ Want(r).http2 \in BOOLEAN
<1>1. Plans[r] \in Seq(Wishes) /\ stage[r] \in DOMAIN Plans[r]
  BY PlansAssumption DEF StatesOK
<1>2. DOMAIN Plans[r] = 1 .. Len(Plans[r])
  BY <1>1
<1>3. Want(r) \in Wishes
  BY <1>1, <1>2 DEF Want
<1>4. Want(r).dest \in STRING /\ Want(r).http2 \in BOOLEAN
  BY <1>3 DEF Wishes
<1> QED
  BY <1>3, <1>4, TextOK

LEMMA FaultOK ==
  ASSUME StatesOK, NEW kind, Fault(kind)
  PROVE  budget' \in Budgets
<1>1. budget.faults > 0 /\ budget' = [budget EXCEPT !.faults = @ - 1] /\ budget \in Budgets
  BY DEF Fault, StatesOK
<1>2. budget.faults - 1 \in 0 .. MaxFaults
  BY <1>1, BoundsAssumption DEF Budgets
<1> QED
  BY <1>1, <1>2 DEF Budgets

\* The state of r stays, or is something it may be; nothing else of the state changes.
Tells(r) ==
    \/ known' = known
    \/ \E k : known' = [known EXCEPT ![r] = k] /\ Recordable(k)

LEMMA NoneIsRecordable == Recordable(None)
  BY TextOK DEF Recordable, None, States, NoUUID

LEMMA ParsedOK ==
  ASSUME EntriesOK, NEW u \in DOMAIN entries, NEW prior \in BOOLEAN, NEW tainted \in BOOLEAN
  PROVE  /\ Recordable(Parsed(u, prior, tainted)) /\ Parsed(u, prior, tainted).uuid = u
         /\ Parsed(u, prior, tainted) # None
<1>1. entries[u].dest \in Text /\ u \in 1 .. fresh - 1 /\ u \in Nat /\ u # 0 /\ fresh \in Nat
  BY DEF EntriesOK, Entries
<1>2. ShownHTTP2(prior, entries[u]) \in BOOLEAN
  BY DEF ShownHTTP2
<1>3. Parsed(u, prior, tainted) \in States /\ Parsed(u, prior, tainted).uuid = u
  BY <1>1, <1>2 DEF Parsed, States
<1>4. None.uuid = 0
  BY DEF None, NoUUID
<1> QED
  BY <1>1, <1>3, <1>4 DEF Recordable

LEMMA RecordTells ==
  ASSUME EntriesOK, StatesOK, NEW r \in Resources, NEW u \in DOMAIN entries, Record(r, u)
  PROVE  /\ Tells(r) /\ known'[r].uuid = u /\ known'[r] # None
         /\ \A s \in Resources : s # r => known'[s] = known[s]
<1> DEFINE tainted == job[r].verb = "create" /\
               ~ (/\ entries[u].dest = Want(r).dest /\ entries[u].front = Config[r].front
                  /\ ShownHTTP2(Want(r).http2, entries[u]) = Want(r).http2)
           k == Parsed(u, Want(r).http2, tainted)
<1>1. tainted \in BOOLEAN /\ Want(r).http2 \in BOOLEAN
  BY WantOK
<1>2. known' = [known EXCEPT ![r] = k]
  BY DEF Record
<1> HIDE DEF tainted
<1>3. Recordable(k) /\ k.uuid = u /\ k # None
  BY <1>1, ParsedOK
<1> HIDE DEF k
<1> QED
  BY <1>2, <1>3 DEF Tells, StatesOK

LEMMA RefreshedTells ==
  ASSUME EntriesOK, StatesOK, NEW r \in Resources, NEW u \in DOMAIN entries, Refreshed(r, u)
  PROVE  /\ Tells(r) /\ known'[r].uuid = u /\ known'[r] # None
         /\ \A s \in Resources : s # r => known'[s] = known[s]
<1> DEFINE k == Parsed(u, known[r].http2, known[r].tainted)
<1>1. known[r].http2 \in BOOLEAN /\ known[r].tainted \in BOOLEAN
  BY DEF StatesOK, Recordable, States
<1>2. known' = [known EXCEPT ![r] = k]
  BY DEF Refreshed
<1>3. Recordable(k) /\ k.uuid = u /\ k # None
  BY <1>1, ParsedOK
<1> HIDE DEF k
<1> QED
  BY <1>2, <1>3 DEF Tells, StatesOK

LEMMA ForgetTells ==
  ASSUME StatesOK, NEW r \in Resources, Forget(r)
  PROVE  /\ Tells(r) /\ known'[r] = None
         /\ \A s \in Resources : s # r => known'[s] = known[s]
  BY NoneIsRecordable DEF Forget, Tells, StatesOK

LEMMA TellsStatesOK ==
  ASSUME EntriesOK, StatesOK, NEW r \in Resources, Tells(r), stage' = stage,
         fresh' = fresh \/ fresh' = fresh + 1, stranded' \subseteq Resources, budget' \in Budgets
  PROVE  StatesOK'
<1>1. \A k : Recordable(k) => Recordable(k)'
  BY DEF Recordable, EntriesOK
<1>2. DOMAIN known' = Resources
  BY DEF Tells, StatesOK
<1>3. ASSUME NEW s \in Resources PROVE Recordable(known'[s])
  BY DEF Tells, StatesOK
<1>4. \A s \in Resources : Recordable(known[s])'
  BY <1>1, <1>3 DEF Recordable
<1> QED
  BY <1>2, <1>4 DEF StatesOK

\* Every step of a resource.
LEMMA StepTells ==
  ASSUME Typed, NEW r \in Resources, Begin(r) \/ TakeReverseProxyMu(r) \/ Step(r)
  PROVE  Tells(r)
<1>0. EntriesOK /\ StatesOK
  BY DEF Typed
<1>1. CASE known' = known
  BY <1>1 DEF Tells
<1>2. CASE Begin(r) \/ TakeReverseProxyMu(r) \/ ProfileNotFound(r) \/ Refused(r)
  BY <1>1, <1>2 DEF Begin, TakeReverseProxyMu, ProfileNotFound, Refused, Fail
<1>3. CASE Read(r) \/ ReadByDescription(r)
  <2>1. known' = known \/ Forget(r) \/ \E u \in DOMAIN entries : Refreshed(r, u)
    BY <1>3 DEF Read, ReadByDescription, Fail, Described
  <2> QED
    BY <1>0, <1>1, <2>1, ForgetTells, RefreshedTells
<1>4. CASE Check(r) \/ Create(r) \/ AlreadyExists(r)
  BY <1>1, <1>4 DEF Check, Create, AlreadyExists, RetryLost, LostForGood, Fail
<1>5. CASE ReadBack(r)
  <2>1. known' = known \/ \E u \in DOMAIN entries : Record(r, u)
    BY <1>5 DEF ReadBack, Fail, Described
  <2> QED
    BY <1>0, <1>1, <2>1, RecordTells
<1>6. CASE Current(r) \/ Update(r)
  BY <1>1, <1>6 DEF Current, Update, RetryLost, LostForGood, Fail
<1>7. CASE Exists(r) \/ Delete(r)
  <2>1. known' = known \/ Forget(r)
    BY <1>7 DEF Exists, Delete, RetryLost, LostForGood, Fail
  <2> QED
    BY <1>0, <1>1, <2>1, ForgetTells
<1> QED
  BY <1>2, <1>3, <1>4, <1>5, <1>6, <1>7 DEF Step

LEMMA StepBookkeeping ==
  ASSUME StatesOK, NEW r \in Resources, Begin(r) \/ TakeReverseProxyMu(r) \/ Step(r)
  PROVE  /\ stage' = stage /\ stranded' \subseteq Resources /\ budget' \in Budgets
         /\ stranded \subseteq stranded' /\ \A s \in Resources : s # r => (s \in stranded' => s \in stranded)
<1>1. stage' = stage
  BY DEF Begin, TakeReverseProxyMu, Step, Read, ReadByDescription, ProfileNotFound, Check,
     Create, AlreadyExists, ReadBack, Current, Update, Exists, Delete, Refused
<1>2. stranded' = stranded \/ stranded' = stranded \union {r}
  BY DEF Begin, TakeReverseProxyMu, Step, Read, ReadByDescription, ProfileNotFound, Check,
     Create, AlreadyExists, ReadBack, Current, Update, Exists, Delete, Refused
<1>3. budget' = budget \/ \E kind : Fault(kind)
  BY DEF Begin, TakeReverseProxyMu, Step, Read, ReadByDescription, ProfileNotFound, Check,
     Create, AlreadyExists, ReadBack, Current, Update, Exists, Delete, Refused, RetryLost,
     LostForGood
<1>4. budget' \in Budgets
  BY <1>3, FaultOK DEF StatesOK
<1> QED
  BY <1>1, <1>2, <1>4 DEF StatesOK

LEMMA ImportTells ==
  ASSUME Typed, NEW r \in Resources, Import(r)
  PROVE  /\ Tells(r) /\ \A s \in Resources : s # r => known'[s] = known[s]
         /\ known'[r] # None /\ known'[r].uuid \in Described(r)
<1>0. EntriesOK /\ StatesOK
  BY DEF Typed
<1>1. PICK u \in Described(r) : known' = [known EXCEPT ![r] = Parsed(u, FALSE, FALSE)]
  BY DEF Import
<1>2. /\ Recordable(Parsed(u, FALSE, FALSE)) /\ Parsed(u, FALSE, FALSE).uuid = u
      /\ Parsed(u, FALSE, FALSE) # None
  BY <1>0, ParsedOK DEF Described
<1> QED
  BY <1>0, <1>1, <1>2 DEF Tells, StatesOK

LEMMA NextStatesOK ==
  ASSUME Typed, [Next]_vars
  PROVE  StatesOK'
<1>0. EntriesOK /\ StatesOK
  BY DEF Typed
<1>1. ASSUME NEW r \in Resources, Begin(r) \/ TakeReverseProxyMu(r) \/ Step(r) PROVE StatesOK'
  <2>1. fresh' = fresh \/ fresh' = fresh + 1
    BY <1>1 DEF Begin, TakeReverseProxyMu, Step, Read, ReadByDescription, ProfileNotFound, Check,
       Create, AlreadyExists, ReadBack, Current, Update, Exists, Delete, Refused
  <2> QED
    BY <1>0, <1>1, <2>1, StepTells, StepBookkeeping, TellsStatesOK
<1>2. ASSUME budget.hand > 0, budget' = [budget EXCEPT !.hand = @ - 1] PROVE budget' \in Budgets
  <2>1. budget \in Budgets /\ budget.hand - 1 \in 0 .. MaxHand
    BY <1>0, <1>2, BoundsAssumption DEF StatesOK, Budgets
  <2> QED
    BY <1>2, <2>1 DEF Budgets
<1>3. ASSUME NEW r \in Resources, Import(r) PROVE StatesOK'
  <2>1. /\ stage' = stage /\ fresh' = fresh /\ stranded' \subseteq Resources
        /\ budget' \in Budgets
    BY <1>0, <1>2, <1>3 DEF Import, StatesOK
  <2> QED
    BY <1>0, <1>3, <2>1, ImportTells, TellsStatesOK
<1>4. ASSUME NEW r \in Resources, Reconfigure(r) PROVE StatesOK'
  <2>1. stage' = [stage EXCEPT ![r] = @ + 1] /\ stage[r] < Len(Plans[r])
        /\ UNCHANGED <<known, fresh, stranded, budget>>
    BY <1>4 DEF Reconfigure
  <2>2. /\ Plans[r] \in Seq(Wishes) /\ stage[r] \in DOMAIN Plans[r]
        /\ stage \in [Resources -> Nat]
    BY <1>0, PlansAssumption DEF StatesOK
  <2>3. stage[r] + 1 \in DOMAIN Plans[r] /\ stage' \in [Resources -> Nat]
    BY <2>1, <2>2
  <2>4. \A s \in Resources : stage'[s] \in DOMAIN Plans[s]
    BY <1>0, <2>1, <2>2, <2>3 DEF StatesOK
  <2> QED
    BY <1>0, <2>1, <2>3, <2>4 DEF StatesOK, Recordable
<1>5. CASE ByHand \/ Restart
  <2>1. /\ stage' = stage /\ known' = known /\ stranded' \subseteq Resources
        /\ fresh' = fresh \/ fresh' = fresh + 1
    BY <1>0, <1>5 DEF ByHand, Restart, StatesOK
  <2>2. budget' \in Budgets
    BY <1>0, <1>2, <1>5, FaultOK DEF ByHand, Restart
  <2>3. \A k : Recordable(k) => Recordable(k)'
    BY <1>0, <2>1 DEF Recordable, EntriesOK
  <2>4. \A s \in Resources : Recordable(known[s])'
    BY <1>0, <2>1, <2>3 DEF StatesOK, Recordable
  <2> QED
    BY <1>0, <2>1, <2>2, <2>4 DEF StatesOK
<1>6. CASE UNCHANGED vars
  BY <1>0, <1>6 DEF vars, StatesOK, Recordable
<1> QED
  BY <1>1, <1>3, <1>4, <1>5, <1>6 DEF Next

----------------------------------------------------------------------------
(***************************************************************************)
(* What each action does to the entries.                                   *)
(***************************************************************************)
\* A new entry e.
Adds(e) ==
    /\ fresh' = fresh + 1 /\ fresh \notin DOMAIN entries
    /\ DOMAIN entries' = DOMAIN entries \union {fresh}
    /\ entries'[fresh] = e
    /\ \A u \in DOMAIN entries : entries'[u] = entries[u]

\* Entries may go, nothing else changes.
Drops ==
    /\ fresh' = fresh
    /\ DOMAIN entries' \subseteq DOMAIN entries
    /\ \A u \in DOMAIN entries' : entries'[u] = entries[u]

\* Entry u gets another listener, destination or flag.
Edits(u) ==
    /\ fresh' = fresh /\ u \in DOMAIN entries /\ DOMAIN entries' = DOMAIN entries
    /\ \A w \in DOMAIN entries \ {u} : entries'[w] = entries[w]
    /\ entries'[u] \in Entries
    /\ entries'[u].desc = entries[u].desc /\ entries'[u].by = entries[u].by
    /\ entries'[u].open = entries[u].open

\* Entries are opened to r.
Opens(r) ==
    /\ fresh' = fresh /\ DOMAIN entries' = DOMAIN entries
    /\ \A u \in DOMAIN entries :
          /\ entries'[u].desc = entries[u].desc /\ entries'[u].by = entries[u].by
          /\ entries'[u].front = entries[u].front /\ entries'[u] \in Entries
          /\ entries'[u].open = IF u \in Described(r) THEN entries[u].open \union {r}
                                ELSE entries[u].open

LEMMA FreshIsNew == ASSUME EntriesOK PROVE fresh \notin DOMAIN entries /\ fresh \in Nat /\ fresh > 0
  BY DEF EntriesOK

LEMMA EncodedOK ==
  ASSUME NEW want, NEW raw \in Text
  PROVE  EncodedHTTP2(want, raw) \in Text
  BY TextOK DEF EncodedHTTP2

LEMMA CreateAdds ==
  ASSUME Typed, NEW r \in Resources, Create(r)
  PROVE  /\ Adds(NewEntry(r)) /\ NewEntry(r) \in Entries /\ NewEntry(r).by = r
         /\ NewEntry(r).desc = Config[r].desc /\ NewEntry(r).front = Config[r].front
<1>1. /\ entries' = [u \in DOMAIN entries \union {fresh} |->
                        IF u = fresh THEN NewEntry(r) ELSE entries[u]]
      /\ fresh' = fresh + 1
  BY DEF Create
<1>2. /\ Config[r].desc \in Text /\ Config[r].front \in Text /\ Want(r).dest \in Text
      /\ EncodedHTTP2(Want(r), "unset") \in Text
  BY ConfigAssumption, TextOK, WantOK, EncodedOK DEF Typed
<1>3. fresh \notin DOMAIN entries
  BY FreshIsNew DEF Typed
<1>4. NewEntry(r) \in Entries
  BY <1>2 DEF NewEntry, Entries
<1> QED
  BY <1>1, <1>3, <1>4 DEF Adds, NewEntry

LEMMA UpdateEdits ==
  ASSUME Typed, NEW r \in Resources, Update(r)
  PROVE  \/ entries' = entries /\ fresh' = fresh
         \/ Edits(known[r].uuid)
<1> DEFINE u == known[r].uuid
           e == [entries[u] EXCEPT !.front = Config[r].front, !.dest = Want(r).dest,
                                   !.http2 = EncodedHTTP2(Want(r), job[r].raw)]
<1>1. CASE entries' = entries
  BY <1>1 DEF Update
<1>2. CASE entries' # entries
  <2>1. /\ u \in DOMAIN entries /\ fresh' = fresh
        /\ entries' = [entries EXCEPT ![u].front = Config[r].front, ![u].dest = Want(r).dest,
                          ![u].http2 = EncodedHTTP2(Want(r), job[r].raw)]
    BY <1>2 DEF Update
  <2>2. entries[u] \in Entries
    BY <2>1 DEF Typed, EntriesOK
  <2>3. /\ Config[r].front \in Text /\ Want(r).dest \in Text
        /\ EncodedHTTP2(Want(r), job[r].raw) \in Text
    BY ConfigAssumption, TextOK, WantOK, EncodedOK, JobOK DEF Typed
  <2>4. /\ e \in Entries /\ e.desc = entries[u].desc /\ e.by = entries[u].by
        /\ e.open = entries[u].open
    BY <2>2, <2>3 DEF Entries
  <2>5. entries' = [entries EXCEPT ![u] = e]
    BY <2>1
  <2> HIDE DEF e, u
  <2>6. entries'[u] = e /\ DOMAIN entries' = DOMAIN entries
        /\ \A w \in DOMAIN entries \ {u} : entries'[w] = entries[w]
    BY <2>1, <2>5
  <2> QED
    BY <2>1, <2>4, <2>6 DEF Edits, u
<1> QED
  BY <1>1, <1>2

LEMMA DropDrops ==
  ASSUME NEW u, entries' = Drop(entries, u), fresh' = fresh
  PROVE  Drops /\ DOMAIN entries' = DOMAIN entries \ {u}
  BY DEF Drops, Drop

LEMMA StepEntries ==
  ASSUME Typed, NEW r \in Resources, Begin(r) \/ TakeReverseProxyMu(r) \/ Step(r)
  PROVE  \/ entries' = entries /\ fresh' = fresh
         \/ Create(r) /\ Adds(NewEntry(r)) /\ NewEntry(r) \in Entries
         \/ Update(r) /\ Edits(known[r].uuid)
         \/ Delete(r) /\ Drops
<1>1. CASE Create(r)
  BY <1>1, CreateAdds
<1>2. CASE Update(r)
  BY <1>2, UpdateEdits
<1>3. CASE Delete(r)
  BY <1>3, DropDrops DEF Delete
<1>4. CASE ~Create(r) /\ ~Update(r) /\ ~Delete(r)
  BY <1>4 DEF Begin, TakeReverseProxyMu, Step, Read, ReadByDescription, ProfileNotFound, Check,
     AlreadyExists, ReadBack, Current, Exists, Refused
<1> QED
  BY <1>1, <1>2, <1>3, <1>4

\* What a person makes.
Made(e) ==
    /\ e \in Entries /\ e.by = Hand
    /\ e.open = LookingFor(e.desc)

LEMMA ByHandEntries ==
  ASSUME Typed, ByHand
  PROVE  \/ \E e : Made(e) /\ Adds(e)
         \/ Drops
         \/ \E u : Edits(u) /\ entries'[u].front = entries[u].front
<1>0. EntriesOK
  BY DEF Typed
<1>1. ASSUME NEW h \in HandMade, fresh' = fresh + 1,
             entries' = [u \in DOMAIN entries \union {fresh} |->
                  IF u # fresh THEN entries[u]
                  ELSE [desc |-> h.desc, front |-> h.front, dest |-> h.dest,
                        http2 |-> "unset", by |-> Hand, open |-> LookingFor(h.desc)]]
      PROVE  \E e : Made(e) /\ Adds(e)
  <2> DEFINE e == [desc |-> h.desc, front |-> h.front, dest |-> h.dest,
                   http2 |-> "unset", by |-> Hand, open |-> LookingFor(h.desc)]
  <2>1. h.desc \in Text /\ h.front \in Text /\ h.dest \in Text /\ "unset" \in Text
    BY HandMadeAssumption, TextOK
  <2>2. LookingFor(h.desc) \in SUBSET Resources
    BY DEF LookingFor
  <2>3. e \in Entries /\ e.by = Hand /\ e.open = LookingFor(e.desc)
    BY <2>1, <2>2 DEF Entries
  <2>4. Adds(e)
    BY <1>0, <1>1, FreshIsNew DEF Adds
  <2> QED
    BY <2>3, <2>4 DEF Made
<1>2. ASSUME NEW u \in DOMAIN entries, fresh' = fresh,
             entries' = Drop(entries, u) \/ entries' = [entries EXCEPT ![u].dest = "by hand"]
      PROVE  Drops \/ (Edits(u) /\ entries'[u].front = entries[u].front)
  <2> DEFINE e == [entries[u] EXCEPT !.dest = "by hand"]
  <2>1. CASE entries' = Drop(entries, u)
    BY <1>2, <2>1, DropDrops
  <2>2. CASE entries' = [entries EXCEPT ![u].dest = "by hand"]
    <3>1. entries[u] \in Entries /\ "by hand" \in Text
      BY <1>0, TextOK DEF EntriesOK
    <3>2. /\ e \in Entries /\ e.desc = entries[u].desc /\ e.by = entries[u].by
          /\ e.open = entries[u].open /\ e.front = entries[u].front
      BY <3>1 DEF Entries
    <3>3. entries' = [entries EXCEPT ![u] = e]
      BY <2>2
    <3> HIDE DEF e
    <3>4. /\ entries'[u] = e /\ DOMAIN entries' = DOMAIN entries
          /\ \A w \in DOMAIN entries \ {u} : entries'[w] = entries[w]
      BY <3>3
    <3> QED
      BY <1>2, <3>2, <3>4 DEF Edits
  <2> QED
    BY <1>2, <2>1, <2>2
<1> QED
  BY <1>1, <1>2 DEF ByHand

LEMMA ImportOpens ==
  ASSUME Typed, NEW r \in Resources, Import(r)
  PROVE  Opens(r)
<1>1. /\ entries' = [v \in DOMAIN entries |->
                        IF v \in Described(r) THEN [entries[v] EXCEPT !.open = @ \union {r}]
                        ELSE entries[v]]
      /\ fresh' = fresh
  BY DEF Import
<1>2. ASSUME NEW u \in DOMAIN entries
      PROVE  /\ entries'[u].desc = entries[u].desc /\ entries'[u].by = entries[u].by
             /\ entries'[u].front = entries[u].front /\ entries'[u] \in Entries
             /\ entries'[u].open = IF u \in Described(r) THEN entries[u].open \union {r}
                                   ELSE entries[u].open
  <2>1. entries[u] \in Entries
    BY DEF Typed, EntriesOK
  <2>2. CASE u \in Described(r)
    <3> DEFINE e == [entries[u] EXCEPT !.open = @ \union {r}]
    <3>1. /\ e \in Entries /\ e.desc = entries[u].desc /\ e.by = entries[u].by
          /\ e.front = entries[u].front /\ e.open = entries[u].open \union {r}
      BY <2>1 DEF Entries
    <3>2. entries'[u] = e
      BY <1>1, <2>2
    <3> HIDE DEF e
    <3> QED
      BY <2>2, <3>1, <3>2
  <2>3. CASE u \notin Described(r)
    BY <1>1, <2>1, <2>3
  <2> QED
    BY <2>2, <2>3
<1> QED
  BY <1>1, <1>2 DEF Opens

LEMMA NextEntriesOK ==
  ASSUME Typed, [Next]_vars
  PROVE  EntriesOK'
<1>0. EntriesOK /\ fresh \in Nat /\ MaxUUID \in Nat
  BY BoundsAssumption DEF Typed, EntriesOK
<1>1. ASSUME NEW e \in Entries, Adds(e), fresh <= MaxUUID PROVE EntriesOK'
  BY <1>0, <1>1 DEF EntriesOK, Adds, Entries
<1>2. CASE Drops
  BY <1>0, <1>2 DEF EntriesOK, Drops, Entries
<1>3. ASSUME NEW u, Edits(u) PROVE EntriesOK'
  BY <1>0, <1>3 DEF EntriesOK, Edits, Entries
<1>4. ASSUME NEW r \in Resources, Opens(r) PROVE EntriesOK'
  BY <1>0, <1>4 DEF EntriesOK, Opens, Entries
<1>5. CASE UNCHANGED <<entries, fresh>>
  BY <1>0, <1>5 DEF EntriesOK, Entries
<1>6. ASSUME NEW r \in Resources, Begin(r) \/ TakeReverseProxyMu(r) \/ Step(r) PROVE EntriesOK'
  <2>1. Create(r) => fresh <= MaxUUID
    BY DEF Create
  <2> QED
    BY <1>1, <1>2, <1>3, <1>5, <1>6, <2>1, StepEntries
<1>7. CASE ByHand
  <2>1. fresh <= MaxUUID \/ fresh' = fresh
    BY <1>7 DEF ByHand
  <2>2. fresh' = fresh + 1 => fresh <= MaxUUID
    BY <1>0, <2>1
  <2> QED
    BY <1>1, <1>2, <1>3, <1>7, <2>2, ByHandEntries DEF Made, Adds
<1>8. ASSUME NEW r \in Resources, Import(r) PROVE EntriesOK'
  BY <1>4, <1>8, ImportOpens
<1>9. CASE Restart \/ UNCHANGED vars \/ \E r \in Resources : Reconfigure(r)
  BY <1>5, <1>9 DEF Restart, vars, Reconfigure
<1> QED
  BY <1>6, <1>7, <1>8, <1>9 DEF Next

LEMMA InitTyped == Init => Typed
<1> SUFFICES ASSUME Init PROVE Typed
  OBVIOUS
<1>1. EntriesOK
  BY BoundsAssumption DEF Init, EntriesOK
<1>2. \A r \in Resources : 1 \in DOMAIN Plans[r]
  <2>1. ASSUME NEW r \in Resources PROVE 1 \in DOMAIN Plans[r]
    <3>1. Plans[r] \in Seq(Wishes) /\ Plans[r] # <<>>
      BY PlansAssumption
    <3> QED
      BY <3>1
  <2> QED
    BY <2>1
<1>3. StatesOK
  BY <1>2, NoneIsRecordable, BoundsAssumption DEF Init, StatesOK, Budgets
<1>4. LockOK
  BY IdleIsJob, ResourcesAssumption DEF Init, LockOK
<1> QED
  BY <1>1, <1>3, <1>4 DEF Typed

LEMMA NextTyped == Typed /\ [Next]_vars => Typed'
  BY NextEntriesOK, NextStatesOK, NextLockOK DEF Typed

\* The types, and that reverseProxyMu has one holder, who is the one under the lock.
THEOREM TypeCorrect == Spec => []TypeOK
  BY InitTyped, NextTyped, TypedImplied, PTL DEF Spec

----------------------------------------------------------------------------
(***************************************************************************)
(* An entry made by hand is only taken over where the code looks for one.  *)
(***************************************************************************)
\* Operations and the state agree on whether there is an entry.
KnownOK(r) ==
    /\ job[r].verb = "create" => known[r] = None
    /\ job[r].verb \in {"update", "delete"} \/ job[r].pc \in {"read", "readByDescription"} =>
           known[r] # None

\* The resource stands for an entry of its description, or is about to.
Looking(r) == known[r] # None \/ job[r].pc \in {"create", "readback"}

\* The entries of the state and of the operation have the description of the resource.
Named(r) ==
    \A u \in {known[r].uuid, job[r].uuid} \intersect DOMAIN entries :
        entries[u].desc = Config[r].desc

Watched(r) ==
    Looking(r) => \A u \in Described(r) : entries[u].by = Hand => r \in entries[u].open

HandInv == \A r \in Resources : KnownOK(r) /\ Named(r) /\ Watched(r)

LEMMA HandImplied == Typed /\ HandInv => HandsOff
<1> SUFFICES ASSUME HandInv, NEW r \in Resources, known[r] # None,
                    known[r].uuid \in DOMAIN entries, entries[known[r].uuid].by = Hand
             PROVE  r \in entries[known[r].uuid].open
  BY DEF HandsOff
<1>1. known[r].uuid \in Described(r)
  BY DEF HandInv, Named, Described
<1> QED
  BY <1>1 DEF HandInv, Watched, Looking

\* What a step may do to the entries.
Changes ==
    \/ entries' = entries /\ fresh' = fresh
    \/ \E e \in Entries : Adds(e) /\ (e.by # Hand \/ Made(e))
    \/ Drops
    \/ \E u : Edits(u)
    \/ \E s \in Resources : Opens(s)

LEMMA NextChanges ==
  ASSUME Typed, Next
  PROVE  Changes
<1>1. ASSUME NEW r \in Resources, Begin(r) \/ TakeReverseProxyMu(r) \/ Step(r) PROVE Changes
  <2>1. Create(r) => NewEntry(r).by # Hand
    BY CreateAdds, ResourcesAssumption
  <2> QED
    BY <1>1, <2>1, StepEntries DEF Changes
<1>2. CASE ByHand
  BY <1>2, ByHandEntries DEF Changes, Made
<1>3. ASSUME NEW r \in Resources, Import(r) PROVE Changes
  BY <1>3, ImportOpens DEF Changes
<1>4. CASE Restart \/ \E r \in Resources : Reconfigure(r)
  BY <1>4 DEF Restart, Reconfigure, Changes
<1> QED
  BY <1>1, <1>2, <1>3, <1>4 DEF Next

\* An entry that stays keeps its description and its maker.
LEMMA EntriesKeep ==
  ASSUME Typed, Changes, NEW u \in DOMAIN entries'
  PROVE  \/ /\ u \in DOMAIN entries
            /\ entries'[u].desc = entries[u].desc /\ entries'[u].by = entries[u].by
            /\ \A r : r \in entries[u].open => r \in entries'[u].open
         \/ /\ u = fresh /\ u \notin DOMAIN entries
            /\ entries'[u].by = Hand => entries'[u].open = LookingFor(entries'[u].desc)
<1>1. ASSUME NEW e \in Entries, Adds(e), e.by # Hand \/ Made(e), u = fresh
      PROVE  u \notin DOMAIN entries
             /\ (entries'[u].by = Hand => entries'[u].open = LookingFor(entries'[u].desc))
  BY <1>1 DEF Adds, Made
<1>2. ASSUME NEW w, Edits(w) PROVE u \in DOMAIN entries
            /\ entries'[u].desc = entries[u].desc /\ entries'[u].by = entries[u].by
            /\ entries'[u].open = entries[u].open
  BY <1>2 DEF Edits
<1>3. ASSUME NEW s \in Resources, Opens(s)
      PROVE  u \in DOMAIN entries
            /\ entries'[u].desc = entries[u].desc /\ entries'[u].by = entries[u].by
            /\ \A r : r \in entries[u].open => r \in entries'[u].open
  BY <1>3 DEF Opens
<1>4. ASSUME Drops \/ entries' = entries PROVE u \in DOMAIN entries /\ entries'[u] = entries[u]
  BY <1>4 DEF Drops
<1>5. ASSUME NEW e, Adds(e), u # fresh PROVE u \in DOMAIN entries /\ entries'[u] = entries[u]
  BY <1>5 DEF Adds
<1> QED
  BY <1>1, <1>2, <1>3, <1>4, <1>5 DEF Changes

LEMMA WatchedStays ==
  ASSUME Typed, Changes, NEW r \in Resources, Watched(r), Looking(r)' => Looking(r)
  PROVE  Watched(r)'
<1> SUFFICES ASSUME Looking(r), NEW u \in DOMAIN entries', entries'[u].desc = Config[r].desc,
                    entries'[u].by = Hand
             PROVE  r \in entries'[u].open
  BY DEF Watched, Described
<1>1. CASE u \in DOMAIN entries
  <2>1. u \in Described(r) /\ entries[u].by = Hand
    BY <1>1, EntriesKeep DEF Described
  <2>2. r \in entries[u].open
    BY <2>1 DEF Watched
  <2> QED
    BY <1>1, <2>2, EntriesKeep
<1>2. CASE u \notin DOMAIN entries
  <2>1. entries'[u].open = LookingFor(Config[r].desc)
    BY <1>2, EntriesKeep
  <2> QED
    BY <2>1 DEF LookingFor, Looking
<1> QED
  BY <1>1, <1>2

\* A name that is known of an entry, or of one that is gone, stays true: UUIDs are not
\* used again.
LEMMA NameStays ==
  ASSUME Typed, Changes, NEW r \in Resources, NEW u \in Nat, u < fresh,
         u \in DOMAIN entries => entries[u].desc = Config[r].desc, u \in DOMAIN entries'
  PROVE  entries'[u].desc = Config[r].desc
<1>1. u # fresh
  BY DEF Typed, EntriesOK
<1> QED
  BY <1>1, EntriesKeep

LEMMA IdsOK ==
  ASSUME Typed, NEW r \in Resources
  PROVE  /\ known[r].uuid \in Nat /\ known[r].uuid < fresh
         /\ job[r].uuid \in Nat /\ job[r].uuid < fresh
         /\ 0 \notin DOMAIN entries /\ None.uuid = 0 /\ 0 < fresh
<1>1. fresh \in Nat /\ 0 < fresh /\ 0 \notin DOMAIN entries
  BY DEF Typed, EntriesOK
<1>2. None.uuid = 0
  BY DEF None, NoUUID
<1>3. Recordable(known[r])
  BY DEF Typed, StatesOK
<1>4. known[r].uuid \in Nat /\ known[r].uuid < fresh
  BY <1>1, <1>2, <1>3 DEF Recordable
<1>5. job[r].uuid \in Nat /\ job[r].uuid < fresh
  BY JobOK DEF Typed, LockOK
<1> QED
  BY <1>1, <1>2, <1>4, <1>5

\* What leaves a resource alone leaves what is known about it.
LEMMA ElsewhereHand ==
  ASSUME Typed, HandInv, Changes, NEW r \in Resources,
         known'[r] = known[r], job'[r] = job[r]
  PROVE  KnownOK(r)' /\ Named(r)' /\ Watched(r)'
<1>1. KnownOK(r)'
  BY DEF HandInv, KnownOK
<1>2. Named(r)'
  BY IdsOK, NameStays DEF HandInv, Named
<1>3. Watched(r)'
  BY WatchedStays DEF HandInv, Looking
<1> QED
  BY <1>1, <1>2, <1>3

\* A step of r that does not begin to look, and names nothing new.
LEMMA OwnHand ==
  ASSUME Typed, HandInv, Changes, NEW r \in Resources, KnownOK(r)', Looking(r)' => Looking(r),
         \/ known'[r].uuid \in {0, known[r].uuid, job[r].uuid}
         \/ known'[r].uuid \in Described(r),
         job'[r].uuid \in {0, known[r].uuid, job[r].uuid}
  PROVE  KnownOK(r)' /\ Named(r)' /\ Watched(r)'
<1>1. ASSUME NEW u \in {0, known[r].uuid, job[r].uuid}, u \in DOMAIN entries'
      PROVE  entries'[u].desc = Config[r].desc
  BY <1>1, IdsOK, NameStays DEF HandInv, Named
<1>2. ASSUME NEW u \in Described(r), u \in DOMAIN entries'
      PROVE  entries'[u].desc = Config[r].desc
  <2>1. u \in DOMAIN entries /\ u \in Nat /\ u < fresh /\ entries[u].desc = Config[r].desc
    BY DEF Described, Typed, EntriesOK
  <2> QED
    BY <1>2, <2>1, NameStays
<1>3. Named(r)'
  BY <1>1, <1>2 DEF Named
<1>4. Watched(r)'
  BY WatchedStays DEF HandInv
<1> QED
  BY <1>3, <1>4

LEMMA EndsAtIdle ==
  ASSUME LockOK, NEW r \in Resources, End(r)
  PROVE  job'[r] = Idle
  BY JobOK DEF End

LEMMA GoesOnTo ==
  ASSUME LockOK, NEW r \in Resources, NEW pc, Goto(r, pc)
  PROVE  /\ job'[r].pc = pc /\ job'[r].verb = job[r].verb /\ job'[r].uuid = job[r].uuid
         /\ job'[r].tries = job[r].tries
<1>1. job[r] \in JobTypes /\ job \in [Resources -> Jobs]
  BY DEF LockOK, Jobs
<1>2. job'[r] = [job[r] EXCEPT !.pc = pc]
  BY <1>1 DEF Goto
<1> QED
  BY <1>1, <1>2 DEF JobTypes

LEMMA RetriesAt ==
  ASSUME LockOK, NEW r \in Resources, RetryLost(r)
  PROVE  /\ job'[r].pc = job[r].pc /\ job'[r].verb = job[r].verb /\ job'[r].uuid = job[r].uuid
         /\ job'[r].tries = 1 /\ known' = known
<1>1. job[r] \in JobTypes /\ job \in [Resources -> Jobs]
  BY DEF LockOK, Jobs
<1>2. job'[r] = [job[r] EXCEPT !.tries = 1] /\ known' = known
  BY <1>1 DEF RetryLost
<1> QED
  BY <1>1, <1>2 DEF JobTypes

LEMMA ReadsBack ==
  ASSUME LockOK, NEW r \in Resources, NEW verb \in {"create", "update"}, NEW u \in Nat,
         job' = [job EXCEPT ![r] = ReadingBack(verb, u)]
  PROVE  job'[r].pc = "readback" /\ job'[r].verb = verb /\ job'[r].uuid = u
<1>1. job'[r] = ReadingBack(verb, u)
  BY JobOK
<1> QED
  BY <1>1, ReadingBackIsJob

\* The operation a step belongs to.
LEMMA FitsAt ==
  ASSUME LockOK, NEW r \in Resources
  PROVE  Fits(job[r])
  BY DEF LockOK, Jobs

\* The end of an operation: its state is what it was, is gone, or is an entry of the
\* description.
LEMMA EndHand ==
  ASSUME Typed, HandInv, Changes, NEW r \in Resources,
         \/ Fail(r) \/ Forget(r)
         \/ \E u \in Described(r) : Refreshed(r, u) /\ Looking(r)
         \/ \E u \in Described(r) : Record(r, u) /\ Looking(r)
  PROVE  KnownOK(r)' /\ Named(r)' /\ Watched(r)'
<1>0. EntriesOK /\ StatesOK /\ LockOK /\ Idle.pc = "idle" /\ Idle.verb = "none" /\ Idle.uuid = 0
  BY IdleIsJob DEF Typed, Idle
<1>1. CASE Fail(r)
  <2>1. job'[r] = Idle /\ known' = known
    BY <1>0, <1>1, EndsAtIdle DEF Fail
  <2> QED
    BY <1>0, <2>1, OwnHand DEF KnownOK, Looking
<1>2. CASE Forget(r)
  <2>1. job'[r] = Idle /\ known'[r] = None
    BY <1>0, <1>2, EndsAtIdle, ForgetTells DEF Forget
  <2>2. known'[r].uuid = 0
    BY <2>1, IdsOK
  <2> QED
    BY <1>0, <2>1, <2>2, OwnHand DEF KnownOK, Looking
<1>3. ASSUME NEW u \in Described(r), Refreshed(r, u), Looking(r)
      PROVE  KnownOK(r)' /\ Named(r)' /\ Watched(r)'
  <2> DEFINE verb == PlannedVerb(r, Parsed(u, known[r].http2, known[r].tainted))
  <2>1. known'[r].uuid = u /\ known'[r] # None
    BY <1>0, <1>3, RefreshedTells DEF Described
  <2>2. job'[r] = IF verb = "nothing" THEN Idle ELSE Queued(verb)
    BY <1>0, <1>3, JobOK DEF Refreshed
  <2>3. verb \in {"nothing", "update", "delete"}
    BY DEF PlannedVerb
  <2> HIDE DEF verb
  <2>4. job'[r].verb \in {"none", "update", "delete"} /\ job'[r].uuid = 0
    <3>1. verb # "nothing" => verb \in Verbs \ {"none"}
      BY <2>3 DEF Verbs
    <3> QED
      BY <1>0, <2>2, <2>3, <3>1, QueuedIsJob
  <2>5. KnownOK(r)'
    BY <2>1, <2>4 DEF KnownOK
  <2> QED
    BY <1>3, <2>1, <2>4, <2>5, OwnHand
<1>4. ASSUME NEW u \in Described(r), Record(r, u), Looking(r)
      PROVE  KnownOK(r)' /\ Named(r)' /\ Watched(r)'
  <2>1. known'[r].uuid = u /\ known'[r] # None
    BY <1>0, <1>4, RecordTells DEF Described
  <2>2. job'[r] = Idle
    BY <1>0, <1>4, EndsAtIdle DEF Record
  <2>3. KnownOK(r)'
    BY <1>0, <2>1, <2>2 DEF KnownOK
  <2> QED
    BY <1>0, <1>4, <2>1, <2>2, <2>3, OwnHand
<1> QED
  BY <1>1, <1>2, <1>3, <1>4

\* Another step of the same operation.
LEMMA GoOnHand ==
  ASSUME Typed, LockOK', HandInv, Changes, NEW r \in Resources, known' = known,
         job'[r].verb = job[r].verb, job'[r].uuid \in {0, known[r].uuid, job[r].uuid},
         job[r].verb # "none" \/ known[r] # None,
         Looking(r)' => Looking(r)
  PROVE  KnownOK(r)' /\ Named(r)' /\ Watched(r)'
<1>1. job'[r].verb = "create" => known'[r] = None
  BY DEF HandInv, KnownOK
<1>2. job'[r].verb \in {"update", "delete"} => known'[r] # None
  BY DEF HandInv, KnownOK
<1>3. ASSUME job'[r].pc \in {"read", "readByDescription"} PROVE known'[r] # None
  <2>1. Fits(job'[r])
    BY DEF LockOK, Jobs
  <2>2. job'[r].verb = "none"
    BY <1>3, <2>1 DEF Fits
  <2> QED
    BY <2>2
<1>4. KnownOK(r)'
  BY <1>1, <1>2, <1>3 DEF KnownOK
<1> QED
  BY <1>4, OwnHand

LEMMA OutsideHand ==
  ASSUME Typed, LockOK', HandInv, Changes, NEW r \in Resources,
         \/ Begin(r) \/ TakeReverseProxyMu(r) \/ Read(r) \/ ReadByDescription(r)
         \/ ProfileNotFound(r) \/ Refused(r)
  PROVE  KnownOK(r)' /\ Named(r)' /\ Watched(r)'
<1>0. LockOK /\ KnownOK(r) /\ Named(r) /\ Fits(job[r])
  BY FitsAt DEF Typed, HandInv
<1>1. CASE Begin(r)
  <2>1. UNCHANGED known /\ job[r].pc = "idle" /\ job[r].verb = "none"
    BY <1>0, <1>1 DEF Begin, At, Fits
  <2>2. CASE known[r] # None /\ job' = [job EXCEPT ![r] = [Idle EXCEPT !.pc = "read"]]
    <3>1. job'[r].pc = "read" /\ job'[r].verb = "none" /\ job'[r].uuid = 0
      BY <1>0, <2>2, JobOK DEF Idle, NoUUID
    <3> QED
      BY <2>1, <2>2, <3>1, GoOnHand DEF Looking
  <2>3. CASE known[r] = None /\ job' = [job EXCEPT ![r] = Queued("create")]
    <3>1. job'[r].pc = "queued" /\ job'[r].verb = "create" /\ job'[r].uuid = 0
      <4>1. "create" \in Verbs \ {"none"} /\ job'[r] = Queued("create")
        BY <1>0, <2>3, JobOK DEF Verbs
      <4> QED
        BY <4>1, QueuedIsJob
    <3> QED
      BY <2>1, <2>3, <3>1, OwnHand DEF KnownOK, Looking
  <2> QED
    BY <1>1, <2>2, <2>3 DEF Begin
<1>2. CASE TakeReverseProxyMu(r)
  <2>1. job' = [job EXCEPT ![r] = [@ EXCEPT !.pc = FirstStep(job[r].verb)]]
        /\ UNCHANGED known /\ job[r].pc = "queued" /\ job[r].verb # "none"
    BY <1>0, <1>2 DEF TakeReverseProxyMu, At, Fits
  <2>2. job'[r].pc = FirstStep(job[r].verb) /\ job'[r].verb = job[r].verb
        /\ job'[r].uuid = job[r].uuid
    <3>1. Goto(r, FirstStep(job[r].verb))
      BY <1>0, <2>1, JobOK DEF Goto
    <3> QED
      BY <1>0, <3>1, GoesOnTo
  <2>3. FirstStep(job[r].verb) \in {"check", "current", "exists"}
    <3>1. job[r].verb \in {"create", "update", "delete"}
      BY <1>0, <2>1, JobOK DEF Jobs, JobTypes, Verbs
    <3> QED
      BY <3>1 DEF FirstStep
  <2> QED
    BY <2>1, <2>2, <2>3, GoOnHand DEF Looking
<1>3. ASSUME job[r].pc \in {"read", "readByDescription"}, NEW u, Refreshed(r, u), u \in Described(r)
      PROVE  KnownOK(r)' /\ Named(r)' /\ Watched(r)'
  <2>1. Looking(r)
    BY <1>0, <1>3 DEF KnownOK, Looking
  <2> QED
    BY <1>3, <2>1, EndHand
<1>4. CASE Read(r)
  <2>1. job[r].pc = "read"
    BY <1>4 DEF Read, At
  <2>2. CASE known[r].uuid \in DOMAIN entries /\ Refreshed(r, known[r].uuid)
    <3>1. known[r].uuid \in Described(r)
      BY <1>0, <2>2 DEF Named, Described
    <3> QED
      BY <1>3, <2>1, <2>2, <3>1
  <2>3. CASE Goto(r, "readByDescription") /\ known' = known
    <3>1. job'[r].verb = job[r].verb /\ job'[r].uuid = job[r].uuid /\ known[r] # None
      BY <1>0, <2>1, <2>3, GoesOnTo DEF KnownOK
    <3> QED
      BY <2>3, <3>1, GoOnHand DEF Looking
  <2> QED
    BY <1>4, <2>2, <2>3, EndHand DEF Read
<1>5. CASE ReadByDescription(r)
  BY <1>3, <1>5, EndHand DEF ReadByDescription, At
<1>6. CASE ProfileNotFound(r) \/ Refused(r)
  BY <1>6, EndHand DEF ProfileNotFound, Refused
<1> QED
  BY <1>1, <1>2, <1>4, <1>5, <1>6

LEMMA CreateHand ==
  ASSUME Typed, LockOK', HandInv, Changes, NEW r \in Resources,
         Check(r) \/ Create(r) \/ AlreadyExists(r) \/ ReadBack(r)
  PROVE  KnownOK(r)' /\ Named(r)' /\ Watched(r)'
<1>0. LockOK /\ KnownOK(r) /\ Named(r) /\ Watched(r) /\ Fits(job[r])
  BY FitsAt DEF Typed, HandInv
<1>1. CASE Check(r)
  <2>1. CASE Described(r) = {} /\ Goto(r, "create") /\ known' = known
    <3>1. /\ job'[r].pc = "create" /\ job'[r].verb = job[r].verb
          /\ job'[r].uuid = job[r].uuid /\ job[r].verb = "create" /\ entries' = entries
      BY <1>0, <1>1, <2>1, GoesOnTo DEF Check, At, Fits
    <3>2. KnownOK(r)'
      BY <1>0, <2>1, <3>1 DEF KnownOK
    <3>3. Named(r)'
      BY <1>0, <2>1, <3>1 DEF Named
    <3>4. Watched(r)'
      BY <2>1, <3>1 DEF Watched, Described
    <3> QED
      BY <3>2, <3>3, <3>4
  <2> QED
    BY <1>1, <2>1, EndHand DEF Check
\* On to the read-back, with the UUID that DSM echoed, if it did.
<1>2. ASSUME job[r].pc = "create", known' = known, NEW u \in {0, fresh},
             u \in DOMAIN entries' => entries'[u].desc = Config[r].desc,
             job' = [job EXCEPT ![r] = ReadingBack("create", u)]
      PROVE  KnownOK(r)' /\ Named(r)' /\ Watched(r)'
  <2>1. job'[r].pc = "readback" /\ job'[r].verb = "create" /\ job'[r].uuid = u
    <3>1. u \in Nat
      BY DEF Typed, EntriesOK
    <3> QED
      BY <1>0, <1>2, <3>1, ReadsBack
  <2>2. job[r].verb = "create" /\ known[r] = None
    BY <1>0, <1>2 DEF Fits, KnownOK
  <2>3. KnownOK(r)'
    BY <1>2, <2>1, <2>2 DEF KnownOK
  <2>4. Named(r)'
    BY <1>0, <1>2, <2>1, IdsOK, NameStays DEF Named
  <2>5. Watched(r)'
    BY <1>0, <1>2, <2>1, WatchedStays DEF Looking
  <2> QED
    BY <2>3, <2>4, <2>5
<1>3. CASE Create(r)
  <2>1. job[r].pc = "create" /\ Adds(NewEntry(r)) /\ NewEntry(r).desc = Config[r].desc
    BY <1>3, CreateAdds DEF Create, At
  <2>2. \/ Fail(r) \/ RetryLost(r)
        \/ /\ \E u \in {NoUUID, fresh} : job' = [job EXCEPT ![r] = ReadingBack("create", u)]
           /\ known' = known
    BY <1>3 DEF Create, LostForGood
  <2>3. ASSUME NEW u \in {NoUUID, fresh}, known' = known,
               job' = [job EXCEPT ![r] = ReadingBack("create", u)]
        PROVE  KnownOK(r)' /\ Named(r)' /\ Watched(r)'
    <3>1. u \in {0, fresh} /\ (u \in DOMAIN entries' => entries'[u].desc = Config[r].desc)
      BY <2>1, IdsOK DEF NoUUID, Adds
    <3> QED
      BY <1>2, <2>1, <2>3, <3>1
  <2>4. CASE RetryLost(r)
    <3>1. /\ job'[r].pc = "create" /\ job'[r].verb = job[r].verb /\ job[r].verb = "create"
          /\ job'[r].uuid = job[r].uuid /\ known' = known
      BY <1>0, <2>1, <2>4, RetriesAt DEF Fits
    <3> QED
      BY <2>1, <3>1, GoOnHand DEF Looking
  <2> QED
    BY <2>2, <2>3, <2>4, EndHand
<1>4. CASE AlreadyExists(r)
  <2>1. /\ job[r].pc = "create" /\ known' = known /\ entries' = entries
        /\ job' = [job EXCEPT ![r] = ReadingBack("create", 0)]
    BY <1>4 DEF AlreadyExists, At, NoUUID
  <2> QED
    BY <1>2, <2>1, IdsOK
<1>5. CASE ReadBack(r)
  <2>1. job[r].pc = "readback"
    BY <1>5 DEF ReadBack, At
  <2>2. ASSUME NEW u \in (IF job[r].uuid = NoUUID THEN Described(r)
                          ELSE {job[r].uuid} \intersect DOMAIN entries)
        PROVE  u \in Described(r)
    BY <1>0 DEF Named, Described
  <2>3. Fail(r) \/ \E u \in Described(r) : Record(r, u)
    BY <1>5, <2>2 DEF ReadBack
  <2> QED
    BY <2>1, <2>3, EndHand DEF Looking
<1> QED
  BY <1>1, <1>3, <1>4, <1>5

LEMMA ChangeHand ==
  ASSUME Typed, LockOK', HandInv, Changes, NEW r \in Resources,
         Current(r) \/ Update(r) \/ Exists(r) \/ Delete(r)
  PROVE  KnownOK(r)' /\ Named(r)' /\ Watched(r)'
<1>0. LockOK /\ KnownOK(r) /\ Fits(job[r])
  BY FitsAt DEF Typed, HandInv
<1>1. known[r] # None /\ job[r].verb \in {"update", "delete"} /\ Looking(r)
  BY <1>0 DEF Current, Update, Exists, Delete, At, Fits, KnownOK, Looking
\* The operation goes on.
<1>2. ASSUME known' = known, job'[r].verb = job[r].verb,
             job'[r].uuid \in {0, known[r].uuid, job[r].uuid}
      PROVE  KnownOK(r)' /\ Named(r)' /\ Watched(r)'
  BY <1>1, <1>2, GoOnHand
<1>3. CASE RetryLost(r)
  BY <1>0, <1>2, <1>3, RetriesAt
<1>4. CASE Current(r)
  <2>1. CASE /\ \E raw : job' = [job EXCEPT ![r] = [@ EXCEPT !.pc = "set", !.raw = raw]]
             /\ known' = known
    <3>1. job'[r].verb = job[r].verb /\ job'[r].uuid = job[r].uuid
      BY <1>0, <2>1, JobOK DEF Jobs, JobTypes
    <3> QED
      BY <1>2, <2>1, <3>1
  <2> QED
    BY <1>4, <2>1, EndHand DEF Current
<1>5. CASE Update(r)
  <2>1. CASE /\ job' = [job EXCEPT ![r] = ReadingBack("update", known[r].uuid)]
             /\ known' = known
    <3>1. job'[r].verb = "update" /\ job'[r].uuid = known[r].uuid
      BY <1>0, <2>1, IdsOK, ReadsBack
    <3>2. job[r].verb = "update"
      BY <1>0, <1>5 DEF Update, At, Fits
    <3> QED
      BY <1>2, <2>1, <3>1, <3>2
  <2>2. \/ Fail(r) \/ RetryLost(r)
        \/ /\ job' = [job EXCEPT ![r] = ReadingBack("update", known[r].uuid)]
           /\ known' = known
    BY <1>5 DEF Update, LostForGood
  <2> QED
    BY <1>3, <2>1, <2>2, EndHand
<1>6. CASE Exists(r)
  <2>1. CASE Goto(r, "remove") /\ known' = known
    BY <1>0, <1>2, <2>1, GoesOnTo
  <2> QED
    BY <1>6, <2>1, EndHand DEF Exists
<1>7. CASE Delete(r)
  BY <1>3, <1>7, EndHand DEF Delete, LostForGood
<1> QED
  BY <1>4, <1>5, <1>6, <1>7

\* A step of one resource is none of another's.
LEMMA OthersStay ==
  ASSUME Typed, NEW s \in Resources, Begin(s) \/ TakeReverseProxyMu(s) \/ Step(s)
  PROVE  \A r \in Resources : r # s => known'[r] = known[r] /\ job'[r] = job[r]
<1>0. EntriesOK /\ StatesOK /\ LockOK
  BY DEF Typed
<1>1. Tells(s)
  BY StepTells
<1>2. \E j : job' = [job EXCEPT ![s] = j]
  <2>1. CASE TakeReverseProxyMu(s)
    BY <1>0, <2>1, TakeLockOK
  <2>2. CASE Begin(s) \/ Step(s)
    <3>1. Moves(s)
      BY <1>0, <2>2, OutsideMoves, CreateMoves, ChangeMoves DEF Step
    <3> QED
      BY <3>1 DEF Moves
  <2> QED
    BY <2>1, <2>2
<1> QED
  BY <1>0, <1>1, <1>2, JobOK DEF Tells, StatesOK

LEMMA ImportHand ==
  ASSUME Typed, HandInv, Changes, NEW r \in Resources, Import(r)
  PROVE  KnownOK(r)' /\ Named(r)' /\ Watched(r)'
<1>0. LockOK /\ Fits(job[r]) /\ job[r].pc = "idle" /\ job' = job
  BY FitsAt DEF Typed, Import, At
<1>1. known'[r] # None /\ known'[r].uuid \in Described(r)
  BY ImportTells
<1>2. KnownOK(r)'
  BY <1>0, <1>1 DEF KnownOK, Fits
<1>3. Opens(r)
  BY ImportOpens
<1>4. Named(r)'
  <2>1. ASSUME NEW u \in Described(r) PROVE entries'[u].desc = Config[r].desc
    BY <1>3 DEF Opens, Described
  <2>2. job[r].uuid \in DOMAIN entries' => entries'[job[r].uuid].desc = Config[r].desc
    BY <1>3 DEF Opens, HandInv, Named
  <2> QED
    BY <1>0, <1>1, <2>1, <2>2 DEF Named
\* Whoever imports has looked at every entry of the description.
<1>5. Watched(r)'
  <2>1. ASSUME NEW u \in DOMAIN entries', entries'[u].desc = Config[r].desc
        PROVE  r \in entries'[u].open
    BY <1>3, <2>1 DEF Opens, Described
  <2> QED
    BY <2>1 DEF Watched, Described
<1> QED
  BY <1>2, <1>4, <1>5

LEMMA NextHandInv ==
  ASSUME Typed, HandInv, [Next]_vars
  PROVE  HandInv'
<1>0. Typed' /\ LockOK'
  BY NextTyped DEF Typed
<1>1. CASE UNCHANGED vars
  BY <1>1 DEF vars, HandInv, KnownOK, Named, Watched, Looking, Described
<1>2. CASE Next
  <2>0. Changes
    BY <1>2, NextChanges
  <2>1. ASSUME NEW r \in Resources, known'[r] = known[r], job'[r] = job[r]
        PROVE  KnownOK(r)' /\ Named(r)' /\ Watched(r)'
    BY <2>0, <2>1, ElsewhereHand
  <2>2. ASSUME NEW s \in Resources, Begin(s) \/ TakeReverseProxyMu(s) \/ Step(s),
               NEW r \in Resources
        PROVE  KnownOK(r)' /\ Named(r)' /\ Watched(r)'
    <3>1. CASE r # s
      BY <2>1, <2>2, <3>1, OthersStay
    <3>2. CASE r = s
      BY <1>0, <2>0, <2>2, <3>2, OutsideHand, CreateHand, ChangeHand DEF Step
    <3> QED
      BY <3>1, <3>2
  <2>3. ASSUME NEW s \in Resources, Import(s), NEW r \in Resources
        PROVE  KnownOK(r)' /\ Named(r)' /\ Watched(r)'
    <3>1. CASE r # s
      BY <2>1, <2>3, <3>1, ImportTells DEF Import
    <3>2. CASE r = s
      BY <2>0, <2>3, <3>2, ImportHand
    <3> QED
      BY <3>1, <3>2
  <2>4. CASE ByHand \/ \E s \in Resources : Reconfigure(s)
    BY <2>1, <2>4 DEF ByHand, Reconfigure, HandInv
  <2>5. ASSUME Restart, NEW r \in Resources PROVE KnownOK(r)' /\ Named(r)' /\ Watched(r)'
    <3>1. job'[r] = Idle /\ known' = known /\ Idle.pc = "idle"
      BY <2>5 DEF Restart, Idle
    <3> QED
      BY <2>0, <3>1, IdleIsJob, OwnHand DEF KnownOK, Looking
  <2> QED
    BY <1>2, <2>2, <2>3, <2>4, <2>5 DEF Next, HandInv
<1> QED
  BY <1>1, <1>2

LEMMA InitHandInv == Init => HandInv
<1> SUFFICES ASSUME Init, NEW r \in Resources PROVE KnownOK(r) /\ Named(r) /\ Watched(r)
  BY DEF HandInv
<1>1. known[r] = None /\ job[r] = Idle /\ DOMAIN entries = {}
  BY DEF Init
<1> QED
  BY <1>1, IdleIsJob DEF KnownOK, Named, Watched, Described, Idle

\* An entry made by hand is only taken over where the code looks for one: its maker
\* made it, or it was imported, while the resource stood for one of that description
\* or was between its check and its read-back.
THEOREM HandsStayOff == Spec => []HandsOff
<1>1. Init => Typed /\ HandInv
  BY InitTyped, InitHandInv
<1>2. Typed /\ HandInv /\ [Next]_vars => (Typed /\ HandInv)'
  BY NextTyped, NextHandInv
<1> QED
  BY <1>1, <1>2, HandImplied, PTL DEF Spec

----------------------------------------------------------------------------
(***************************************************************************)
(* No entry is left behind silently.                                       *)
(***************************************************************************)
Own(r) == {u \in DOMAIN entries : entries[u].by = r}

\* A create that may have been performed.
Pending(r) == At(r, "create") \/ (At(r, "readback") /\ job[r].verb = "create")

OneEntry(r) == \A u, w \in Own(r) : u = w
OwnNamed(r) == \A u \in Own(r) : entries[u].desc = Config[r].desc
Kept(r) == r \notin stranded => \A u \in Own(r) : known[r].uuid = u \/ Pending(r)

\* While the lock is held nobody touches the listener of what was just created, so a
\* second attempt is refused with 4154.
Creating(r) ==
    At(r, "create") =>
        /\ \A u \in Own(r) : entries[u].front = Config[r].front
        /\ job[r].tries = 0 => Own(r) = {}

\* What is read back by its UUID is all there is.
OwnReadBack(r) ==
    At(r, "readback") /\ job[r].verb = "create" /\ job[r].uuid # NoUUID =>
        Own(r) \subseteq {job[r].uuid}

Vanished(r) == At(r, "readByDescription") => known[r].uuid \notin DOMAIN entries

KeptInv(r) ==
    OneEntry(r) /\ OwnNamed(r) /\ Kept(r) /\ Creating(r) /\ OwnReadBack(r) /\ Vanished(r)

BehindInv == \A r \in Resources : KeptInv(r)

LEMMA BehindImplied == Typed /\ BehindInv => NothingLeftBehind
<1> SUFFICES ASSUME Typed, BehindInv, NEW u \in DOMAIN entries,
                    entries[u].by # Hand, entries[u].by \notin stranded
             PROVE  LET r == entries[u].by
                    IN  \/ known[r] # None /\ known[r].uuid = u
                        \/ job[r].pc \in {"create", "readback"}
  BY DEF NothingLeftBehind
<1> DEFINE r == entries[u].by
<1>1. r \in Resources /\ u \in Own(r)
  BY DEF Typed, EntriesOK, Entries, Own
<1>2. known[r].uuid = u \/ Pending(r)
  BY <1>1 DEF BehindInv, KeptInv, Kept
<1>3. known[r].uuid = u => known[r] # None
  BY <1>1, IdsOK
<1> QED
  BY <1>2, <1>3 DEF Pending, At

\* What r has made may go, but nothing is added, and its listeners stay while r creates.
OwnStays(r) ==
    /\ Own(r)' \subseteq Own(r)
    /\ \A u \in Own(r)' : /\ entries'[u].desc = entries[u].desc
                          /\ At(r, "create") => entries'[u].front = entries[u].front

LEMMA StaysIfKept ==
  ASSUME Typed, Changes, NEW r \in Resources,
         ~(\E e : Adds(e) /\ e.by = r),
         At(r, "create") => ~(\E u : Edits(u) /\ entries'[u].front # entries[u].front)
  PROVE  OwnStays(r)
<1>1. ASSUME NEW u \in Own(r)'
      PROVE  u \in Own(r) /\ entries'[u].desc = entries[u].desc
             /\ (At(r, "create") => entries'[u].front = entries[u].front)
  <2>0. u \in DOMAIN entries' /\ entries'[u].by = r
    BY DEF Own
  <2>1. ASSUME NEW e, Adds(e)
        PROVE  u \in DOMAIN entries /\ entries'[u] = entries[u]
    BY <2>0, <2>1 DEF Adds
  <2>2. ASSUME Drops \/ entries' = entries PROVE u \in DOMAIN entries /\ entries'[u] = entries[u]
    BY <2>0, <2>2 DEF Drops
  <2>3. ASSUME NEW w, Edits(w)
        PROVE  /\ u \in DOMAIN entries
               /\ entries'[u].desc = entries[u].desc /\ entries'[u].by = entries[u].by
               /\ At(r, "create") => entries'[u].front = entries[u].front
    BY <2>0, <2>3 DEF Edits
  <2>4. ASSUME NEW s \in Resources, Opens(s)
        PROVE  /\ u \in DOMAIN entries
               /\ entries'[u].desc = entries[u].desc /\ entries'[u].by = entries[u].by
               /\ entries'[u].front = entries[u].front
    BY <2>0, <2>4 DEF Opens
  <2> QED
    BY <2>0, <2>1, <2>2, <2>3, <2>4 DEF Changes, Own
<1> QED
  BY <1>1 DEF OwnStays

\* What leaves a resource alone leaves its entries with it.
LEMMA ElsewhereKept ==
  ASSUME Typed, Changes, NEW r \in Resources, KeptInv(r), OwnStays(r),
         known'[r] = known[r], job'[r] = job[r], r \in stranded => r \in stranded'
  PROVE  KeptInv(r)'
<1>1. OneEntry(r)' /\ OwnNamed(r)'
  BY DEF KeptInv, OneEntry, OwnNamed, OwnStays
<1>2. Kept(r)'
  BY DEF KeptInv, Kept, Pending, At, OwnStays
<1>3. Creating(r)'
  BY DEF KeptInv, Creating, At, OwnStays
<1>4. OwnReadBack(r)'
  BY DEF KeptInv, OwnReadBack, At, OwnStays
<1>5. Vanished(r)'
  <2>1. known[r].uuid # fresh
    BY IdsOK DEF Typed, EntriesOK
  <2> QED
    BY <2>1, EntriesKeep DEF KeptInv, Vanished, At
<1> QED
  BY <1>1, <1>2, <1>3, <1>4, <1>5 DEF KeptInv

\* A step of r to where nothing is being created.
LEMMA RestsKept ==
  ASSUME NEW r \in Resources, KeptInv(r), OwnStays(r),
         ~Pending(r)', ~At(r, "readByDescription")',
         r \notin stranded' => \A u \in Own(r)' : known'[r].uuid = u
  PROVE  KeptInv(r)'
<1>1. OneEntry(r)' /\ OwnNamed(r)'
  BY DEF KeptInv, OneEntry, OwnNamed, OwnStays
<1>2. Kept(r)' /\ Creating(r)' /\ OwnReadBack(r)' /\ Vanished(r)'
  BY DEF Kept, Creating, OwnReadBack, Vanished, Pending
<1> QED
  BY <1>1, <1>2 DEF KeptInv

\* Out of an operation that creates nothing the state is what it was, or its entry is gone.
LEMMA FailKept ==
  ASSUME Typed, NEW r \in Resources, KeptInv(r), OwnStays(r), Fail(r),
         ~Pending(r) \/ Own(r)' = {} \/ r \in stranded', r \in stranded => r \in stranded'
  PROVE  KeptInv(r)'
<1>1. job'[r] = Idle /\ known' = known /\ Idle.pc = "idle"
  BY EndsAtIdle DEF Typed, Fail, Idle
<1>2. ~Pending(r)' /\ ~At(r, "readByDescription")'
  BY <1>1 DEF Pending, At
<1>3. r \notin stranded' => \A u \in Own(r)' : known'[r].uuid = u
  BY <1>1 DEF KeptInv, Kept, OwnStays
<1> QED
  BY <1>2, <1>3, RestsKept

LEMMA ForgetKept ==
  ASSUME Typed, NEW r \in Resources, KeptInv(r), OwnStays(r), Forget(r),
         r \notin stranded' => Own(r)' = {}
  PROVE  KeptInv(r)'
<1>1. job'[r] = Idle /\ Idle.pc = "idle"
  BY EndsAtIdle DEF Typed, Forget, Idle
<1>2. ~Pending(r)' /\ ~At(r, "readByDescription")'
  BY <1>1 DEF Pending, At
<1> QED
  BY <1>2, RestsKept

\* The operation goes on, and nothing was pending.
LEMMA GoOnKept ==
  ASSUME Typed, NEW r \in Resources, KeptInv(r), OwnStays(r), ~Pending(r), known' = known,
         ~Pending(r)', ~At(r, "readByDescription")', r \in stranded => r \in stranded'
  PROVE  KeptInv(r)'
<1>1. r \notin stranded' => \A u \in Own(r)' : known'[r].uuid = u
  BY DEF KeptInv, Kept, OwnStays
<1> QED
  BY <1>1, RestsKept

LEMMA StepOwnStays ==
  ASSUME Typed, NEW s \in Resources, Begin(s) \/ TakeReverseProxyMu(s) \/ Step(s),
         NEW r \in Resources, r # s \/ ~Create(s)
  PROVE  OwnStays(r)
<1>0. fresh \in Nat /\ LockOK
  BY DEF Typed, EntriesOK
<1>1. Changes
  BY NextChanges DEF Next
<1>2. ASSUME NEW e, Adds(e) PROVE e.by # r
  <2>1. Create(s) /\ e = NewEntry(s)
    BY <1>0, <1>2, StepEntries DEF Adds, Edits, Drops
  <2> QED
    BY <2>1, CreateAdds
\* Only the holder of the lock edits an entry.
<1>3. At(r, "create") => ~(\E u : Edits(u) /\ entries'[u].front # entries[u].front)
  <2>1. ASSUME At(r, "create"), NEW u, Edits(u), entries'[u] # entries[u] PROVE FALSE
    <3>1. Update(s)
      BY <1>0, <2>1, StepEntries DEF Adds, Edits, Drops
    <3>2. job[s].pc \in Locked /\ job[r].pc \in Locked /\ s # r
      BY <2>1, <3>1 DEF Update, At, Locked
    <3> QED
      BY <1>0, <3>2 DEF LockOK
  <2> QED
    BY <2>1
<1> QED
  BY <1>1, <1>2, <1>3, StaysIfKept

LEMMA OutsideKept ==
  ASSUME Typed, HandInv, NEW r \in Resources, KeptInv(r), OwnStays(r),
         \/ Begin(r) \/ TakeReverseProxyMu(r) \/ Read(r) \/ ReadByDescription(r)
         \/ ProfileNotFound(r) \/ Refused(r)
  PROVE  KeptInv(r)'
<1>0. EntriesOK /\ StatesOK /\ LockOK /\ Fits(job[r])
  BY FitsAt DEF Typed
<1>1. CASE Begin(r)
  <2>1. UNCHANGED <<known, stranded>> /\ ~Pending(r)
    BY <1>1 DEF Begin, At, Pending
  <2>2. job'[r].pc \in {"read", "queued"}
    <3>1. CASE job' = [job EXCEPT ![r] = [Idle EXCEPT !.pc = "read"]]
      BY <1>0, <3>1, JobOK DEF Idle
    <3>2. CASE job' = [job EXCEPT ![r] = Queued("create")]
      BY <1>0, <3>2, JobOK, QueuedIsJob DEF Verbs
    <3> QED
      BY <1>1, <3>1, <3>2 DEF Begin
  <2> QED
    BY <2>1, <2>2, GoOnKept DEF Pending, At
<1>2. CASE TakeReverseProxyMu(r)
  <2>1. /\ job' = [job EXCEPT ![r] = [@ EXCEPT !.pc = FirstStep(job[r].verb)]]
        /\ UNCHANGED <<known, stranded>> /\ job[r].pc = "queued" /\ job[r].verb # "none"
    BY <1>0, <1>2 DEF TakeReverseProxyMu, At, Fits
  <2>2. job'[r].pc = FirstStep(job[r].verb)
    BY <1>0, <2>1, JobOK DEF Jobs, JobTypes
  <2>3. FirstStep(job[r].verb) \in {"check", "current", "exists"}
    <3>1. job[r].verb \in {"create", "update", "delete"}
      BY <1>0, <2>1, JobOK DEF Jobs, JobTypes, Verbs
    <3> QED
      BY <3>1 DEF FirstStep
  <2> QED
    BY <2>1, <2>2, <2>3, GoOnKept DEF Pending, At
<1>3. ASSUME NEW u \in DOMAIN entries, Refreshed(r, u), stranded' = stranded,
             ~Pending(r), r \notin stranded => \A w \in Own(r)' : w = u
      PROVE  KeptInv(r)'
  <2> DEFINE verb == PlannedVerb(r, Parsed(u, known[r].http2, known[r].tainted))
  <2>1. known'[r].uuid = u
    BY <1>0, <1>3, RefreshedTells
  <2>2. job'[r] = IF verb = "nothing" THEN Idle ELSE Queued(verb)
    BY <1>0, <1>3, JobOK DEF Refreshed
  <2>3. verb # "nothing" => verb \in Verbs \ {"none"}
    BY DEF PlannedVerb, Verbs
  <2> HIDE DEF verb
  <2>4. job'[r].pc \in {"idle", "queued"}
    BY <2>2, <2>3, QueuedIsJob DEF Idle
  <2> QED
    BY <1>3, <2>1, <2>4, RestsKept DEF Pending, At
<1>4. CASE Read(r)
  <2>1. job[r].pc = "read" /\ ~Pending(r) /\ UNCHANGED <<entries, stranded>>
    BY <1>4 DEF Read, At, Pending
  <2>2. r \notin stranded => \A w \in Own(r)' : w = known[r].uuid
    BY <2>1 DEF KeptInv, Kept, OwnStays
  <2>3. CASE Goto(r, "readByDescription") /\ known' = known /\ known[r].uuid \notin DOMAIN entries
    <3>1. job'[r].pc = "readByDescription"
      BY <1>0, <2>3, GoesOnTo
    <3>2. OneEntry(r)' /\ OwnNamed(r)' /\ Kept(r)'
      BY <2>1, <2>2, <2>3 DEF KeptInv, OneEntry, OwnNamed, OwnStays, Kept
    <3>3. Creating(r)' /\ OwnReadBack(r)' /\ Vanished(r)'
      BY <2>1, <2>3, <3>1 DEF Creating, OwnReadBack, Vanished, At
    <3> QED
      BY <3>2, <3>3 DEF KeptInv
  <2> QED
    BY <1>3, <1>4, <2>1, <2>2, <2>3, FailKept DEF Read
\* The entry of the state is gone: what the resource made is, too.
<1>5. CASE ReadByDescription(r)
  <2>1. /\ job[r].pc = "readByDescription" /\ ~Pending(r) /\ UNCHANGED <<entries, stranded>>
        /\ known[r].uuid \notin DOMAIN entries
    BY <1>5 DEF ReadByDescription, At, Pending, KeptInv, Vanished
  <2>2. r \notin stranded => Own(r)' = {}
    BY <2>1 DEF KeptInv, Kept, OwnStays, Own
  <2>3. (\E u \in DOMAIN entries : Refreshed(r, u)) \/ Forget(r) \/ Fail(r)
    BY <1>5 DEF ReadByDescription, Described
  <2> QED
    BY <1>3, <2>1, <2>2, <2>3, FailKept, ForgetKept
<1>6. CASE ProfileNotFound(r)
  BY <1>6, FailKept DEF ProfileNotFound, Pending, At
<1>7. CASE Refused(r)
  <2>1. Fail(r) /\ (r \in stranded => r \in stranded') /\ entries' = entries
        /\ job[r].pc \in {"create", "set", "remove"}
    BY <1>7 DEF Refused
  <2>2. ASSUME At(r, "create"), r \notin stranded' PROVE Own(r)' = {}
    <3>1. job[r].tries = 0
      BY <1>0, <1>7, <2>2, JobOK DEF Refused, Jobs, JobTypes, Tries
    <3> QED
      BY <2>1, <2>2, <3>1 DEF KeptInv, Creating, Own
  <2> QED
    BY <2>1, <2>2, FailKept DEF Pending, At
<1> QED
  BY <1>1, <1>2, <1>4, <1>5, <1>6, <1>7

LEMMA CreateKept ==
  ASSUME Typed, NEW r \in Resources, KeptInv(r), Create(r)
  PROVE  KeptInv(r)'
<1>0. LockOK /\ Fits(job[r]) /\ job[r].pc = "create" /\ job[r].verb = "create"
  BY FitsAt DEF Typed, Create, At, Fits
<1>1. Adds(NewEntry(r)) /\ NewEntry(r).by = r /\ NewEntry(r).desc = Config[r].desc
      /\ NewEntry(r).front = Config[r].front
  BY CreateAdds
\* What it had made has the listener, and then DSM would have refused.
<1>2. Own(r) = {}
  <2>1. ASSUME NEW u \in Own(r) PROVE FALSE
    <3>1. entries[u].front = Config[r].front /\ u \in DOMAIN entries \ {NoUUID}
      BY <1>0, <2>1, IdsOK DEF KeptInv, Creating, At, Own, NoUUID
    <3> QED
      BY <3>1 DEF Create, FrontTaken
  <2> QED
    BY <2>1
<1>3. Own(r)' = {fresh}
  BY <1>1, <1>2 DEF Own, Adds
<1>4. OneEntry(r)' /\ OwnNamed(r)' /\ \A u \in Own(r)' : entries'[u].front = Config[r].front
  BY <1>1, <1>3 DEF OneEntry, OwnNamed, Adds
<1>5. ASSUME NEW u \in {NoUUID, fresh}, job' = [job EXCEPT ![r] = ReadingBack("create", u)]
      PROVE  KeptInv(r)'
  <2>1. job'[r].pc = "readback" /\ job'[r].verb = "create" /\ job'[r].uuid = u
    <3>1. u \in Nat
      BY DEF NoUUID, Typed, EntriesOK
    <3> QED
      BY <1>0, <1>5, <3>1, ReadsBack
  <2> QED
    BY <1>3, <1>4, <1>5, <2>1 DEF KeptInv, Kept, Pending, Creating, OwnReadBack, Vanished, At
<1>6. CASE RetryLost(r)
  <2>1. job'[r].pc = "create" /\ job'[r].tries = 1
    BY <1>0, <1>6, RetriesAt
  <2> QED
    BY <1>4, <2>1 DEF KeptInv, Kept, Pending, Creating, OwnReadBack, Vanished, At
<1>7. CASE LostForGood(r) /\ stranded' = stranded \union {r}
  <2>1. job'[r] = Idle /\ Idle.pc = "idle"
    BY <1>0, <1>7, EndsAtIdle DEF LostForGood, Fail, Idle
  <2> QED
    BY <1>4, <1>7, <2>1 DEF KeptInv, Kept, Pending, Creating, OwnReadBack, Vanished, At
<1> QED
  BY <1>5, <1>6, <1>7 DEF Create

LEMMA CheckKept ==
  ASSUME Typed, NEW r \in Resources, KeptInv(r), OwnStays(r), Check(r) \/ AlreadyExists(r)
  PROVE  KeptInv(r)'
<1>0. LockOK /\ Fits(job[r]) /\ UNCHANGED <<entries, stranded>>
  BY FitsAt DEF Typed, Check, AlreadyExists
<1>1. CASE Check(r)
  <2>1. CASE Goto(r, "create") /\ Described(r) = {}
    <3>1. job'[r].pc = "create"
      BY <1>0, <2>1, GoesOnTo
    <3>2. Own(r)' = {}
      BY <1>0, <2>1 DEF KeptInv, OwnNamed, Own, Described
    <3> QED
      BY <3>1, <3>2 DEF KeptInv, OneEntry, OwnNamed, Kept, Creating, OwnReadBack, Vanished, At
  <2>2. ~Pending(r)
    BY <1>1 DEF Check, At, Pending
  <2> QED
    BY <1>0, <1>1, <2>1, <2>2, FailKept DEF Check
\* Whatever was made stays pending until it is read back.
<1>2. CASE AlreadyExists(r)
  <2>1. job' = [job EXCEPT ![r] = ReadingBack("create", 0)]
    BY <1>2 DEF AlreadyExists, NoUUID
  <2>2. job'[r].pc = "readback" /\ job'[r].verb = "create" /\ job'[r].uuid = 0
    BY <1>0, <2>1, ReadsBack
  <2>3. OneEntry(r)' /\ OwnNamed(r)' /\ Kept(r)'
    BY <2>2 DEF KeptInv, OneEntry, OwnNamed, Kept, OwnStays, Pending, At
  <2>4. Creating(r)' /\ OwnReadBack(r)' /\ Vanished(r)'
    BY <2>2 DEF Creating, OwnReadBack, Vanished, At, NoUUID
  <2> QED
    BY <2>3, <2>4 DEF KeptInv
<1> QED
  BY <1>1, <1>2

LEMMA ReadBackKept ==
  ASSUME Typed, NEW r \in Resources, KeptInv(r), OwnStays(r), ReadBack(r)
  PROVE  KeptInv(r)'
<1> DEFINE found == IF job[r].uuid = NoUUID THEN Described(r)
                    ELSE {job[r].uuid} \intersect DOMAIN entries
<1>0. /\ EntriesOK /\ StatesOK /\ LockOK /\ job[r].pc = "readback" /\ entries' = entries
      /\ Own(r)' = Own(r)
  BY DEF Typed, ReadBack, At, Own
<1>1. /\ \/ \E u \in found :
               /\ Record(r, u)
               /\ stranded' = IF Own(r) \subseteq {u} THEN stranded ELSE stranded \union {r}
         \/ found = {} /\ Fail(r) /\ stranded' = stranded
         \/ /\ Fail(r)
            /\ stranded' = IF job[r].verb = "create" /\ Own(r) # {}
                           THEN stranded \union {r} ELSE stranded
  BY DEF ReadBack, Own
<1>2. ASSUME NEW u \in found, Record(r, u),
             stranded' = IF Own(r) \subseteq {u} THEN stranded ELSE stranded \union {r}
      PROVE  KeptInv(r)'
  <2>1. u \in DOMAIN entries
    BY <1>2 DEF Described
  <2>2. known'[r].uuid = u /\ job'[r] = Idle /\ Idle.pc = "idle"
    BY <1>0, <1>2, <2>1, RecordTells, EndsAtIdle DEF Record, Idle
  <2>3. r \notin stranded' => \A w \in Own(r)' : known'[r].uuid = w
    BY <1>0, <1>2, <2>2
  <2> QED
    BY <2>2, <2>3, RestsKept DEF Pending, At
\* Nothing of this description, or nothing of this UUID: then the resource has made
\* nothing that is still there.
<1>3. ASSUME found = {}, Fail(r), stranded' = stranded PROVE KeptInv(r)'
  <2>1. ~Pending(r) \/ Own(r)' = {}
    BY <1>0, <1>3 DEF KeptInv, OwnNamed, OwnReadBack, Own, Described, Pending, At
  <2> QED
    BY <1>3, <2>1, FailKept
<1>4. ASSUME Fail(r), stranded' = IF job[r].verb = "create" /\ Own(r) # {}
                                  THEN stranded \union {r} ELSE stranded
      PROVE  KeptInv(r)'
  <2>1. r \in stranded' \/ ~Pending(r) \/ Own(r)' = {}
    BY <1>0, <1>4 DEF Pending, At
  <2>2. r \in stranded => r \in stranded'
    BY <1>4
  <2> QED
    BY <1>4, <2>1, <2>2, FailKept
<1> QED
  BY <1>1, <1>2, <1>3, <1>4

LEMMA ChangeKept ==
  ASSUME Typed, NEW r \in Resources, KeptInv(r), OwnStays(r),
         Current(r) \/ Update(r) \/ Exists(r) \/ Delete(r)
  PROVE  KeptInv(r)'
<1>0. LockOK /\ ~Pending(r) /\ stranded' = stranded
  BY DEF Typed, Current, Update, Exists, Delete, Pending, At
<1>1. r \notin stranded => \A u \in Own(r) : known[r].uuid = u
  BY <1>0 DEF KeptInv, Kept
<1>2. ASSUME known' = known, ~Pending(r)', ~At(r, "readByDescription")' PROVE KeptInv(r)'
  BY <1>0, <1>2, GoOnKept
<1>3. CASE RetryLost(r)
  <2>1. job'[r].pc = job[r].pc /\ job'[r].verb = job[r].verb /\ known' = known
    BY <1>0, <1>3, RetriesAt
  <2>2. job[r].pc # "readByDescription"
    BY DEF Current, Update, Exists, Delete, At
  <2> QED
    BY <1>0, <1>2, <2>1, <2>2 DEF Pending, At
<1>4. CASE Current(r)
  <2>1. CASE /\ \E raw : job' = [job EXCEPT ![r] = [@ EXCEPT !.pc = "set", !.raw = raw]]
             /\ known' = known
    <3>1. job'[r].pc = "set"
      BY <1>0, <2>1, JobOK DEF Jobs, JobTypes
    <3> QED
      BY <1>2, <2>1, <3>1 DEF Pending, At
  <2> QED
    BY <1>0, <1>4, <2>1, FailKept DEF Current
<1>5. CASE Update(r)
  <2>1. CASE /\ job' = [job EXCEPT ![r] = ReadingBack("update", known[r].uuid)]
             /\ known' = known
    <3>1. job'[r].pc = "readback" /\ job'[r].verb = "update"
      BY <1>0, <2>1, IdsOK, ReadsBack
    <3> QED
      BY <1>2, <2>1, <3>1 DEF Pending, At
  <2>2. \/ Fail(r) \/ RetryLost(r)
        \/ /\ job' = [job EXCEPT ![r] = ReadingBack("update", known[r].uuid)]
           /\ known' = known
    BY <1>5 DEF Update, LostForGood
  <2> QED
    BY <1>0, <1>3, <2>1, <2>2, FailKept
<1>6. CASE Exists(r)
  <2>1. CASE Goto(r, "remove") /\ known' = known
    <3>1. job'[r].pc = "remove"
      BY <1>0, <2>1, GoesOnTo
    <3> QED
      BY <1>2, <2>1, <3>1 DEF Pending, At
  <2>2. CASE known[r].uuid \notin DOMAIN entries /\ Forget(r)
    <3>1. r \notin stranded' => Own(r)' = {}
      BY <1>0, <1>1, <2>2 DEF OwnStays, Own
    <3> QED
      BY <2>2, <3>1, ForgetKept
  <2> QED
    BY <1>0, <1>6, <2>1, <2>2, FailKept DEF Exists
<1>7. CASE Delete(r)
  <2>1. CASE entries' = Drop(entries, known[r].uuid) /\ Forget(r)
    <3>1. known[r].uuid \notin DOMAIN entries'
      BY <2>1 DEF Drop
    <3>2. r \notin stranded' => Own(r)' = {}
      BY <1>0, <1>1, <3>1 DEF OwnStays, Own
    <3> QED
      BY <2>1, <3>2, ForgetKept
  <2> QED
    BY <1>0, <1>3, <1>7, <2>1, FailKept DEF Delete, LostForGood
<1> QED
  BY <1>4, <1>5, <1>6, <1>7

LEMMA ImportKept ==
  ASSUME Typed, NEW r \in Resources, KeptInv(r), OwnStays(r), Import(r)
  PROVE  KeptInv(r)'
<1>0. LockOK /\ job' = job /\ job[r].pc = "idle" /\ ~Pending(r) /\ known[r] = None
  BY DEF Typed, Import, At, Pending
\* What the resource made is stranded, if it made anything.
<1>1. r \in stranded \/ Own(r) = {}
  BY <1>0, IdsOK DEF KeptInv, Kept, Own
<1>2. PICK u \in Described(r) :
        /\ known' = [known EXCEPT ![r] = Parsed(u, FALSE, FALSE)]
        /\ stranded' = IF entries[u].by = r THEN stranded \ {r} ELSE stranded
  BY DEF Import
<1>3. known'[r].uuid = u
  BY <1>2 DEF Typed, StatesOK, Parsed
<1>4. r \notin stranded' => \A w \in Own(r)' : known'[r].uuid = w
  <2>1. CASE entries[u].by = r
    <3>1. \A w \in Own(r) : w = u
      BY <2>1 DEF KeptInv, OneEntry, Own, Described
    <3> QED
      BY <1>3, <3>1 DEF OwnStays
  <2>2. CASE entries[u].by # r
    BY <1>1, <1>2, <2>2 DEF OwnStays
  <2> QED
    BY <2>1, <2>2
<1> QED
  BY <1>0, <1>4, RestsKept DEF Pending, At

LEMMA RestartKept ==
  ASSUME Typed, HandInv, NEW r \in Resources, KeptInv(r), OwnStays(r), Restart
  PROVE  KeptInv(r)'
<1>1. job'[r] = Idle /\ Idle.pc = "idle" /\ UNCHANGED <<entries, known>>
      /\ stranded' = stranded \union
           {s \in Resources : /\ known[s] = None /\ job[s].pc \in {"create", "readback"}
                              /\ \E u \in DOMAIN entries : entries[u].by = s}
  BY DEF Restart, Idle
<1>2. Pending(r) => known[r] = None
  <2>1. Fits(job[r])
    BY FitsAt DEF Typed
  <2> QED
    BY <2>1 DEF Pending, At, Fits, HandInv, KnownOK
<1>3. r \notin stranded' => \A u \in Own(r)' : known'[r].uuid = u
  <2>1. ASSUME Pending(r), NEW u \in Own(r) PROVE r \in stranded'
    BY <1>1, <1>2, <2>1 DEF Pending, At, Own
  <2> QED
    BY <1>1, <2>1 DEF KeptInv, Kept, OwnStays
<1> QED
  BY <1>1, <1>3, RestsKept DEF Pending, At

LEMMA NextBehindInv ==
  ASSUME Typed, HandInv, BehindInv, [Next]_vars
  PROVE  BehindInv'
<1>1. CASE UNCHANGED vars
  BY <1>1 DEF vars, BehindInv, KeptInv, OneEntry, OwnNamed, Kept, Creating, OwnReadBack,
     Vanished, Own, Pending, At
<1>2. CASE Next
  <2>0. Changes
    BY <1>2, NextChanges
  <2>1. ASSUME NEW s \in Resources, Begin(s) \/ TakeReverseProxyMu(s) \/ Step(s),
               NEW r \in Resources
        PROVE  KeptInv(r)'
    <3>1. KeptInv(r) /\ (r # s \/ ~Create(s) => OwnStays(r))
      BY <2>1, StepOwnStays DEF BehindInv
    <3>2. CASE r # s
      <4>1. r \in stranded => r \in stranded'
        BY <2>1, StepBookkeeping DEF Typed
      <4> QED
        BY <2>0, <2>1, <3>1, <3>2, <4>1, OthersStay, ElsewhereKept
    <3>3. CASE r = s /\ Create(s)
      BY <3>1, <3>3, CreateKept
    <3>4. CASE r = s /\ ~Create(s)
      BY <2>1, <3>1, <3>4, OutsideKept, CheckKept, ReadBackKept, ChangeKept DEF Step
    <3> QED
      BY <3>2, <3>3, <3>4
  \* Nothing else adds an entry of a resource or gives one another listener.
  <2>2. ASSUME ByHand \/ Restart \/ (\E s \in Resources : Reconfigure(s) \/ Import(s)),
               NEW r \in Resources
        PROVE  OwnStays(r)
    <3>1. ASSUME NEW e, Adds(e) PROVE e.by # r
      <4>1. fresh' # fresh
        BY <3>1 DEF Adds, Typed, EntriesOK
      <4>2. ByHand
        BY <2>2, <4>1 DEF Restart, Reconfigure, Import
      <4>3. \E f : Made(f) /\ Adds(f)
        BY <4>1, <4>2, ByHandEntries DEF Drops, Edits
      <4> QED
        BY <3>1, <4>3, ResourcesAssumption DEF Made, Adds
    <3>2. ASSUME NEW u, Edits(u), entries'[u].front # entries[u].front PROVE FALSE
      <4>1. entries' # entries /\ u \in DOMAIN entries /\ u \in DOMAIN entries'
            /\ fresh' = fresh
        BY <3>2 DEF Edits
      <4>2. CASE ByHand
        <5>1. ASSUME NEW w, Edits(w), entries'[w].front = entries[w].front PROVE FALSE
          BY <3>2, <4>1, <5>1 DEF Edits
        <5>2. ~Drops
          BY <3>2, <4>1 DEF Drops
        <5>3. ~(\E e : Adds(e))
          BY <4>1 DEF Adds, Typed, EntriesOK
        <5> QED
          BY <4>2, <5>1, <5>2, <5>3, ByHandEntries
      <4>3. ASSUME NEW s \in Resources, Import(s) PROVE FALSE
        BY <3>2, <4>1, <4>3, ImportOpens DEF Opens
      <4> QED
        BY <2>2, <4>1, <4>2, <4>3 DEF Restart, Reconfigure
    <3> QED
      BY <2>0, <3>1, <3>2, StaysIfKept
  <2>3. ASSUME ByHand \/ (\E s \in Resources : Reconfigure(s)), NEW r \in Resources
        PROVE  KeptInv(r)'
    <3>1. UNCHANGED <<known, job, stranded>>
      BY <2>3 DEF ByHand, Reconfigure
    <3> QED
      BY <2>0, <2>2, <2>3, <3>1, ElsewhereKept DEF BehindInv
  <2>4. ASSUME Restart, NEW r \in Resources PROVE KeptInv(r)'
    BY <2>2, <2>4, RestartKept DEF BehindInv
  <2>5. ASSUME NEW s \in Resources, Import(s), NEW r \in Resources PROVE KeptInv(r)'
    <3>1. KeptInv(r) /\ OwnStays(r)
      BY <2>2, <2>5 DEF BehindInv
    <3>2. CASE r = s
      BY <2>5, <3>1, <3>2, ImportKept
    <3>3. CASE r # s
      <4>1. job' = job /\ known'[r] = known[r] /\ (r \in stranded => r \in stranded')
        BY <2>5, <3>3, ImportTells DEF Import
      <4> QED
        BY <2>0, <3>1, <4>1, ElsewhereKept
    <3> QED
      BY <3>2, <3>3
  <2> QED
    BY <1>2, <2>1, <2>3, <2>4, <2>5 DEF Next, BehindInv
<1> QED
  BY <1>1, <1>2

LEMMA InitBehindInv == Init => BehindInv
<1> SUFFICES ASSUME Init, NEW r \in Resources PROVE KeptInv(r)
  BY DEF BehindInv
<1>1. job[r] = Idle /\ Idle.pc = "idle" /\ Own(r) = {}
  BY DEF Init, Idle, Own
<1> QED
  BY <1>1 DEF KeptInv, OneEntry, OwnNamed, Kept, Creating, OwnReadBack, Vanished, At

\* No entry is left behind silently: whatever a resource created is in its state, or
\* its create is still going on, or has reported an error or found another entry.
THEOREM NeverLeftBehind == Spec => []NothingLeftBehind
<1>1. Init => Typed /\ HandInv /\ BehindInv
  BY InitTyped, InitHandInv, InitBehindInv
<1>2. Typed /\ HandInv /\ BehindInv /\ [Next]_vars => (Typed /\ HandInv /\ BehindInv)'
  BY NextTyped, NextHandInv, NextBehindInv
<1> QED
  BY <1>1, <1>2, BehindImplied, PTL DEF Spec
=============================================================================
