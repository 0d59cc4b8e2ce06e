-------------------------- MODULE Packages_proofs --------------------------
(***************************************************************************)
(* For any packages, dependencies, plans and faults: packageMu has one     *)
(* holder, nothing is installed that is already there, and what is         *)
(* recorded of a package that was read at rest, and that nothing has       *)
(* unsettled since, is true.                                               *)
(***************************************************************************)
EXTENDS Packages, TLAPS

Pcs == {"idle", "queued", "get"} \union Locked
Tries == 0 .. 1
Jobs == [pc : Pcs, verb : Verbs, queue : SUBSET Packages, tries : Tries]

\* Whoever waits for the lock knows what for.
Asked(j) == j.pc = "queued" => j.verb # "none"
States == [now : TransientStatuses \union Resting, next : Resting]
Budgets == [faults : 0 .. MaxFaults, hand : 0 .. MaxHand]

\* An operation goes on where it was, inside the lock or outside, or leaves the lock.
Moves(r) ==
    \E j \in Jobs :
        /\ job' = [job EXCEPT ![r] = j] /\ Asked(j)
        /\ \/ mu' = mu /\ (j.pc \in Locked <=> job[r].pc \in Locked)
           \/ mu' = (IF mu = r THEN NoOne ELSE mu) /\ j.pc \notin Locked

\* TypeOK without the job and the lock.
DataOK ==
    /\ dsm \in [Packages -> States]
    /\ known \in [Resources -> Wishes]
    /\ stage \in [Resources -> Nat] /\ \A r \in Resources : stage[r] \in DOMAIN Plans[r]
    /\ handled \subseteq Packages /\ unsettled \subseteq Resources
    /\ budget \in Budgets

LockOK ==
    /\ mu \in Resources \union {NoOne}
    /\ job \in [Resources -> Jobs]
    /\ \A r \in Resources : mu = r <=> job[r].pc \in Locked
    /\ \A r \in Resources : Asked(job[r])

LEMMA Split == DataOK /\ LockOK => TypeOK
  BY DEF TypeOK, DataOK, LockOK, Jobs, Tries, Pcs, States, Budgets

LEMMA TriesOK == 0 \in Tries /\ 1 \in Tries
  BY DEF Tries

----------------------------------------------------------------------------
(***************************************************************************)
(* packageMu has one holder.                                               *)
(***************************************************************************)
LEMMA MovesLockOK ==
  ASSUME NEW r \in Resources, LockOK, Moves(r)
  PROVE  LockOK'
<1>1. PICK j \in Jobs :
        /\ job' = [job EXCEPT ![r] = j] /\ Asked(j)
        /\ \/ mu' = mu /\ (j.pc \in Locked <=> job[r].pc \in Locked)
           \/ mu' = (IF mu = r THEN NoOne ELSE mu) /\ j.pc \notin Locked
  BY DEF Moves
<1>2. job' \in [Resources -> Jobs]
  BY <1>1 DEF LockOK
<1>3. job'[r] = j /\ \A s \in Resources : s # r => job'[s] = job[s]
  BY <1>1 DEF LockOK
<1>4. mu' \in Resources \union {NoOne}
  BY <1>1 DEF LockOK
<1>5. ASSUME NEW s \in Resources PROVE mu' = s <=> job'[s].pc \in Locked
  <2>1. NoOne # s /\ NoOne # r
    BY ResourcesAssumption
  <2> HIDE DEF LockOK
  <2>2. (mu = s <=> job[s].pc \in Locked) /\ (mu = r <=> job[r].pc \in Locked)
    BY DEF LockOK
  <2> QED
    BY <1>1, <1>3, <2>1, <2>2
<1>6. \A s \in Resources : Asked(job'[s])
  BY <1>1, <1>3 DEF LockOK
<1> QED
  BY <1>2, <1>4, <1>5, <1>6 DEF LockOK

LEMMA IdleIsJob == Idle \in Jobs /\ Idle.pc \notin Locked /\ Asked(Idle)
  BY TriesOK DEF Idle, Jobs, Pcs, Verbs, Locked, Asked

LEMMA LockedIsAsked == \A j : j.pc \in Locked => Asked(j)
  BY DEF Locked, Asked

LEMMA EndMoves ==
  ASSUME NEW r \in Resources, End(r)
  PROVE  Moves(r)
  BY IdleIsJob DEF End, Moves

LEMMA FailMoves ==
  ASSUME NEW r \in Resources, Fail(r) \/ FailBegun(r) \/ Forget(r)
                              \/ \E status : Record(r, status)
  PROVE  Moves(r)
  BY EndMoves DEF Fail, FailBegun, Forget, Record

LEMMA AskForMoves ==
  ASSUME NEW r \in Resources, NEW verb \in Verbs \ {"none"}, AskFor(r, verb)
  PROVE  Moves(r)
<1> DEFINE j == [Idle EXCEPT !.pc = "queued", !.verb = verb]
<1>1. j \in Jobs /\ j.pc \notin Locked /\ Asked(j)
  BY IdleIsJob DEF Idle, Jobs, Pcs, Locked, Asked
<1> HIDE DEF j
<1>2. job' = [job EXCEPT ![r] = j]
  BY DEF AskFor, j
<1> QED
  BY <1>1, <1>2 DEF AskFor, Moves

LEMMA HasItMoves ==
  ASSUME NEW r \in Resources, NEW status, HasIt(r, status)
  PROVE  Moves(r)
  BY FailMoves, AskForMoves DEF HasIt, Verbs

\* On to the next step under the lock.
LEMMA GoesOnMoves ==
  ASSUME NEW r \in Resources, LockOK, job[r].pc \in Locked, mu' = mu,
         \/ \E pc \in Locked : Goto(r, pc)
         \/ RetryLost(r)
         \/ \E pc \in Locked : \E queue \in SUBSET Packages :
               job' = [job EXCEPT ![r].pc = pc, ![r].queue = queue]
         \/ \E pc \in Locked : \E queue \in SUBSET Packages :
               job' = [job EXCEPT ![r].pc = pc, ![r].queue = queue, ![r].tries = 0]
  PROVE  Moves(r)
<1>0. job[r] \in Jobs /\ job \in [Resources -> Jobs]
  BY DEF LockOK
<1>1. ASSUME NEW pc \in Locked, Goto(r, pc) PROVE Moves(r)
  <2> DEFINE j == [job[r] EXCEPT !.pc = pc]
  <2>1. j \in Jobs /\ j.pc = pc
    BY <1>0, TriesOK DEF Jobs, Pcs
  <2>2. job' = [job EXCEPT ![r] = j]
    BY <1>0, <1>1 DEF Goto
  <2> HIDE DEF j
  <2> QED
    BY <2>1, <2>2, LockedIsAsked DEF Moves
<1>2. CASE RetryLost(r)
  <2> DEFINE j == [job[r] EXCEPT !.tries = 1]
  <2>1. j \in Jobs /\ j.pc = job[r].pc
    BY <1>0, TriesOK DEF Jobs
  <2>2. job' = [job EXCEPT ![r] = j]
    BY <1>0, <1>2 DEF RetryLost
  <2> HIDE DEF j
  <2> QED
    BY <2>1, <2>2, LockedIsAsked DEF Moves
<1>3. ASSUME NEW pc \in Locked, NEW queue \in SUBSET Packages,
             job' = [job EXCEPT ![r].pc = pc, ![r].queue = queue]
      PROVE  Moves(r)
  <2> DEFINE j == [job[r] EXCEPT !.pc = pc, !.queue = queue]
  <2>1. j \in Jobs /\ j.pc = pc
    BY <1>0, TriesOK DEF Jobs, Pcs
  <2>2. job' = [job EXCEPT ![r] = j]
    BY <1>0, <1>3
  <2> HIDE DEF j
  <2> QED
    BY <2>1, <2>2, LockedIsAsked DEF Moves
<1>4. ASSUME NEW pc \in Locked, NEW queue \in SUBSET Packages,
             job' = [job EXCEPT ![r].pc = pc, ![r].queue = queue, ![r].tries = 0]
      PROVE  Moves(r)
  <2> DEFINE j == [job[r] EXCEPT !.pc = pc, !.queue = queue, !.tries = 0]
  <2>1. j \in Jobs /\ j.pc = pc
    BY <1>0, TriesOK DEF Jobs, Pcs
  <2>2. job' = [job EXCEPT ![r] = j]
    BY <1>0, <1>4
  <2> HIDE DEF j
  <2> QED
    BY <2>1, <2>2, LockedIsAsked DEF Moves
<1> QED
  BY <1>1, <1>2, <1>3, <1>4

LEMMA OutsideMoves ==
  ASSUME NEW r \in Resources, LockOK, Create(r) \/ Read(r) \/ Get(r)
  PROVE  Moves(r)
<1>1. CASE Create(r)
  BY <1>1, AskForMoves, HasItMoves, FailMoves DEF Create, Verbs
<1>2. CASE Read(r)
  <2>1. CASE Forget(r) \/ Fail(r)
    BY <2>1, FailMoves
  <2>2. CASE /\ \E running : job' = [job EXCEPT ![r] = Planned(r, running)]
             /\ mu' = mu
    <3>1. PICK running : job' = [job EXCEPT ![r] = Planned(r, running)]
      BY <2>2
    <3>2. /\ Planned(r, running) \in Jobs /\ Planned(r, running).pc \notin Locked
          /\ Asked(Planned(r, running))
      BY TriesOK DEF Planned, Idle, Jobs, Pcs, Verbs, Locked, Asked
    <3>3. job[r].pc \notin Locked
      BY <1>2 DEF Read, At, Locked
    <3> HIDE DEF Planned
    <3> QED
      BY <2>2, <3>1, <3>2, <3>3 DEF Moves
  <2>3. Forget(r) \/ Fail(r) \/ ((\E running : job' = [job EXCEPT ![r] = Planned(r, running)]) /\ mu' = mu)
    BY <1>2 DEF Read
  <2> QED
    BY <2>1, <2>2, <2>3
<1>3. CASE Get(r)
  BY <1>3, FailMoves DEF Get
<1> QED
  BY <1>1, <1>2, <1>3

LEMMA InstallMoves ==
  ASSUME NEW r \in Resources, LockOK,
         FindFirst(r) \/ Check(r) \/ ResolveQueue(r) \/ StartInstall(r) \/ WaitInstalled(r)
  PROVE  Moves(r)
<1>1. CASE FindFirst(r)
  <2>1. job[r].pc \in Locked
    BY <1>1 DEF FindFirst, At, Locked
  <2>2. (Goto(r, "check") /\ mu' = mu) \/ (\E status : HasIt(r, status)) \/ Fail(r)
    BY <1>1 DEF FindFirst
  <2>3. "check" \in Locked
    BY DEF Locked
  <2> QED
    BY <2>1, <2>2, <2>3, GoesOnMoves, HasItMoves, FailMoves
<1>2. CASE Check(r)
  <2>1. job[r].pc \in Locked
    BY <1>2 DEF Check, At, Locked
  <2>2. (Goto(r, "queue") /\ mu' = mu) \/ Fail(r)
    BY <1>2 DEF Check
  <2>3. "queue" \in Locked
    BY DEF Locked
  <2> QED
    BY <2>1, <2>2, <2>3, GoesOnMoves, FailMoves
<1>3. CASE ResolveQueue(r)
  <2>1. job[r].pc \in Locked
    BY <1>3 DEF ResolveQueue, At, Locked
  <2>2. CASE Fail(r)
    BY <2>2, FailMoves
  <2>3. CASE ~Fail(r)
    <3> DEFINE missing == {p \in Needs[r] \union {r} : dsm[p].now = "absent"}
               queue == IF missing = {} THEN {r} ELSE missing
    <3>1. job' = [job EXCEPT ![r].pc = "start", ![r].queue = queue] /\ mu' = mu
      BY <1>3, <2>3 DEF ResolveQueue
    <3>2. queue \in SUBSET Packages /\ "start" \in Locked
      BY NeedsAssumption, ResourcesAssumption DEF Locked
    <3> HIDE DEF queue
    <3> QED
      BY <2>1, <3>1, <3>2, GoesOnMoves
  <2> QED
    BY <2>2, <2>3
<1>4. CASE StartInstall(r)
  <2>1. job[r].pc \in Locked
    BY <1>4 DEF StartInstall, At, Locked
  <2>2. CASE Fail(r) \/ FailBegun(r)
    BY <2>2, FailMoves
  <2>3. CASE RetryLost(r)
    BY <2>1, <2>3, GoesOnMoves DEF RetryLost
  <2>4. CASE ~(Fail(r) \/ FailBegun(r) \/ RetryLost(r))
    <3> DEFINE queue == job[r].queue \ {First(job[r].queue)}
               pc == IF queue = {} THEN "installed" ELSE "start"
    <3>1. job' = [job EXCEPT ![r].pc = pc, ![r].queue = queue, ![r].tries = 0] /\ mu' = mu
      BY <1>4, <2>4 DEF StartInstall
    <3>2. queue \in SUBSET Packages /\ pc \in Locked
      BY DEF Locked, LockOK, Jobs
    <3> HIDE DEF queue, pc
    <3> QED
      BY <2>1, <3>1, <3>2, GoesOnMoves
  <2> QED
    BY <2>2, <2>3, <2>4
<1>5. CASE WaitInstalled(r)
  BY <1>5, HasItMoves, FailMoves DEF WaitInstalled
<1> QED
  BY <1>1, <1>2, <1>3, <1>4, <1>5

LEMMA ChangeMoves ==
  ASSUME NEW r \in Resources, LockOK,
         Set(r) \/ WaitReached(r) \/ Exists(r) \/ Uninstall(r) \/ WaitGone(r) \/ Deadline(r)
  PROVE  Moves(r)
<1>1. CASE Set(r)
  <2>1. job[r].pc \in Locked /\ "reached" \in Locked
    BY <1>1 DEF Set, At, Locked
  <2>2. (Goto(r, "reached") /\ mu' = mu) \/ (RetryLost(r) /\ mu' = mu) \/ FailBegun(r)
    BY <1>1 DEF Set, RetryLost
  <2> QED
    BY <2>1, <2>2, GoesOnMoves, FailMoves
<1>2. CASE WaitReached(r)
  BY <1>2, FailMoves DEF WaitReached
<1>3. CASE Exists(r)
  <2>1. job[r].pc \in Locked /\ "remove" \in Locked
    BY <1>3 DEF Exists, At, Locked
  <2>2. (Goto(r, "remove") /\ mu' = mu) \/ Fail(r) \/ Forget(r)
    BY <1>3 DEF Exists
  <2> QED
    BY <2>1, <2>2, GoesOnMoves, FailMoves
<1>4. CASE Uninstall(r)
  <2>1. job[r].pc \in Locked /\ "gone" \in Locked
    BY <1>4 DEF Uninstall, At, Locked
  <2>2. (Goto(r, "gone") /\ mu' = mu) \/ (RetryLost(r) /\ mu' = mu) \/ FailBegun(r)
    BY <1>4 DEF Uninstall, RetryLost
  <2> QED
    BY <2>1, <2>2, GoesOnMoves, FailMoves
<1>5. CASE WaitGone(r)
  BY <1>5, FailMoves DEF WaitGone
<1>6. CASE Deadline(r)
  BY <1>6, FailMoves DEF Deadline
<1> QED
  BY <1>1, <1>2, <1>3, <1>4, <1>5, <1>6

LEMMA TakeLockOK ==
  ASSUME NEW r \in Resources, LockOK, TakePackageMu(r)
  PROVE  LockOK'
<1> DEFINE pc == FirstStep(job[r].verb)
           j == [job[r] EXCEPT !.pc = pc]
<1>1. job[r] \in Jobs /\ job \in [Resources -> Jobs]
  BY DEF LockOK
<1>2. pc \in Locked
  <2>1. job[r].verb \in Verbs \ {"none"}
    BY <1>1 DEF LockOK, Asked, TakePackageMu, At, Jobs
  <2> QED
    BY <2>1 DEF FirstStep, Verbs, Locked
<1> HIDE DEF pc
<1>3. j \in Jobs /\ j.pc \in Locked
  BY <1>1, <1>2 DEF Jobs, Pcs
<1>4. job' = [job EXCEPT ![r] = j] /\ mu = NoOne /\ mu' = r
  BY <1>1 DEF TakePackageMu, pc
<1> HIDE DEF j
<1>5. job' \in [Resources -> Jobs]
  BY <1>1, <1>3, <1>4
<1>6. job'[r] = j /\ \A s \in Resources : s # r => job'[s] = job[s]
  BY <1>1, <1>4
<1>7. \A s \in Resources : mu' = s <=> job'[s].pc \in Locked
  BY <1>3, <1>4, <1>6, ResourcesAssumption DEF LockOK
<1>8. \A s \in Resources : Asked(job'[s])
  BY <1>3, <1>6, LockedIsAsked DEF LockOK
<1> QED
  BY <1>4, <1>5, <1>7, <1>8 DEF LockOK

LEMMA NextLockOK ==
  ASSUME LockOK, [Next]_vars
  PROVE  LockOK'
<1>1. ASSUME NEW r \in Resources, Begin(r) \/ Step(r) PROVE LockOK'
  BY <1>1, OutsideMoves, InstallMoves, ChangeMoves, MovesLockOK DEF Begin, Step
<1>2. ASSUME NEW r \in Resources, Reconfigure(r) PROVE LockOK'
  BY <1>2 DEF LockOK, Reconfigure
<1>3. ASSUME NEW p \in Packages, Settle(p) PROVE LockOK'
  <2>1. UNCHANGED <<mu, job>>
    BY <1>3 DEF Settle
  <2> QED
    BY <2>1 DEF LockOK
<1>4. CASE ByHand
  <2>1. UNCHANGED <<mu, job>>
    BY <1>4 DEF ByHand
  <2> QED
    BY <2>1 DEF LockOK
<1>5. CASE Restart
  <2>1. mu' = NoOne /\ job' = [r \in Resources |-> Idle]
    BY <1>5 DEF Restart
  <2> QED
    BY <2>1, IdleIsJob, ResourcesAssumption DEF LockOK
<1>6. CASE UNCHANGED vars
  BY <1>6 DEF vars, LockOK
<1> QED
  BY <1>1, <1>2, <1>3, <1>4, <1>5, <1>6, TakeLockOK DEF Next

----------------------------------------------------------------------------
(***************************************************************************)
(* The types of the rest.                                                  *)
(***************************************************************************)
\* What a step of a resource may do to the state, its bookkeeping and the bounds.
Bookkeeping ==
    known' \in [Resources -> Wishes] /\ unsettled' \subseteq Resources /\ budget' \in Budgets

LEMMA FaultOK ==
  ASSUME DataOK, NEW kind, Fault(kind)
  PROVE  budget' \in Budgets
<1>1. budget.faults > 0 /\ budget' = [budget EXCEPT !.faults = @ - 1]
  BY DEF Fault
<1>2. budget.faults \in 0 .. MaxFaults /\ budget.hand \in 0 .. MaxHand
  BY DEF DataOK, Budgets
<1>3. budget.faults - 1 \in 0 .. MaxFaults
  BY <1>1, <1>2, BoundsAssumption
<1>4. budget \in Budgets
  BY DEF DataOK
<1> QED
  BY <1>1, <1>3, <1>4 DEF Budgets

LEMMA AnsweredOK ==
  ASSUME DataOK, NEW p, NEW status, Answered(p, status)
  PROVE  budget' \in Budgets
  BY FaultOK DEF Answered, DataOK

LEMMA WantOK ==
  ASSUME DataOK, NEW r \in Resources
  PROVE  Want(r) \in Wishes
<1>1. Plans[r] \in Seq(Wishes) /\ stage[r] \in DOMAIN Plans[r]
  BY PlansAssumption DEF DataOK
<1>2. DOMAIN Plans[r] = 1 .. Len(Plans[r])
  BY <1>1
<1> QED
  BY <1>1, <1>2 DEF Want

LEMMA OutcomeOK ==
  ASSUME DataOK, NEW r \in Resources,
         \/ Fail(r) \/ FailBegun(r) \/ Forget(r) \/ UNCHANGED <<known, unsettled>>
         \/ \E status : Record(r, status) /\ (Glimpsed(r, status) \/ Awaited(r, status))
         \/ \E status : HasIt(r, status)
  PROVE  known' \in [Resources -> Wishes] /\ unsettled' \subseteq Resources
<1>0. known \in [Resources -> Wishes] /\ unsettled \subseteq Resources
  BY DEF DataOK
<1>1. CASE Fail(r) \/ FailBegun(r) \/ UNCHANGED <<known, unsettled>>
  BY <1>0, <1>1 DEF Fail, FailBegun
<1>2. CASE Forget(r)
  BY <1>0, <1>2 DEF Forget, None, Gone, Wishes
<1>3. ASSUME NEW status, Record(r, status), Glimpsed(r, status) \/ Awaited(r, status)
      PROVE  known' \in [Resources -> Wishes] /\ unsettled' \subseteq Resources
  <2>1. [running |-> status = "running", uninstall |-> Want(r).uninstall, there |-> TRUE]
          \in Wishes
    <3>1. Want(r).uninstall \in BOOLEAN
      BY WantOK DEF Wishes
    <3> QED
      BY <3>1 DEF Wishes
  <2>2. unsettled' \subseteq Resources
    BY <1>0, <1>3 DEF Glimpsed, Awaited
  <2> QED
    BY <1>0, <1>3, <2>1, <2>2 DEF Record
<1>4. ASSUME NEW status, HasIt(r, status)
      PROVE  known' \in [Resources -> Wishes] /\ unsettled' \subseteq Resources
  BY <1>0, <1>3, <1>4 DEF HasIt
<1> QED
  BY <1>1, <1>2, <1>3, <1>4

LEMMA OutsideData ==
  ASSUME DataOK, NEW r \in Resources, Create(r) \/ Read(r) \/ Get(r)
  PROVE  Bookkeeping
<1>0. known \in [Resources -> Wishes] /\ unsettled \subseteq Resources /\ budget \in Budgets
  BY DEF DataOK
<1>1. budget' \in Budgets
  BY <1>0, FaultOK, AnsweredOK DEF Create, Read, Get
<1>2. CASE Create(r) \/ Get(r)
  BY <1>1, <1>2, OutcomeOK DEF Create, Get, Bookkeeping
<1>3. CASE Read(r)
  <2>1. CASE Forget(r) \/ Fail(r)
    BY <1>1, <2>1, OutcomeOK DEF Bookkeeping
  <2>2. CASE \E status : /\ known' = [known EXCEPT ![r].running = (status = "running")]
                         /\ Glimpsed(r, status)
    <3>1. PICK status : /\ known' = [known EXCEPT ![r].running = (status = "running")]
                        /\ Glimpsed(r, status)
      BY <2>2
    <3>2. known' \in [Resources -> Wishes]
      BY <1>0, <3>1 DEF Wishes
    <3>3. unsettled' \subseteq Resources
      BY <1>0, <3>1 DEF Glimpsed
    <3> QED
      BY <1>1, <3>2, <3>3 DEF Bookkeeping
  <2> QED
    BY <1>3, <2>1, <2>2 DEF Read
<1> QED
  BY <1>2, <1>3

LEMMA LockedData ==
  ASSUME DataOK, NEW r \in Resources, Step(r)
  PROVE  Bookkeeping
<1>0. budget \in Budgets
  BY DEF DataOK
<1>1. CASE Get(r)
  BY <1>1, OutsideData
<1>2. CASE FindFirst(r) \/ Check(r) \/ ResolveQueue(r) \/ WaitInstalled(r)
  <2>1. budget' \in Budgets
    BY <1>0, <1>2, FaultOK, AnsweredOK DEF FindFirst, Check, ResolveQueue, WaitInstalled
  <2> QED
    BY <1>2, <2>1, OutcomeOK
    DEF FindFirst, Check, ResolveQueue, WaitInstalled, Bookkeeping
<1>3. CASE StartInstall(r) \/ Set(r) \/ Uninstall(r)
  <2>1. budget' \in Budgets
    BY <1>0, <1>3, FaultOK DEF StartInstall, Set, Uninstall, RetryLost
  <2>2. Fail(r) \/ FailBegun(r) \/ UNCHANGED <<known, unsettled>>
    BY <1>3 DEF StartInstall, Set, Uninstall, RetryLost
  <2> QED
    BY <2>1, <2>2, OutcomeOK DEF Bookkeeping
<1>4. CASE WaitReached(r) \/ Exists(r) \/ WaitGone(r) \/ Deadline(r)
  <2>1. budget' \in Budgets
    BY <1>0, <1>4, FaultOK, AnsweredOK DEF WaitReached, Exists, WaitGone, Deadline
  <2> QED
    BY <1>4, <2>1, OutcomeOK DEF WaitReached, Exists, WaitGone, Deadline, Bookkeeping
<1> QED
  BY <1>1, <1>2, <1>3, <1>4 DEF Step

LEMMA DsmOK ==
  ASSUME DataOK, NEW r \in Resources, StartInstall(r) \/ Set(r) \/ Uninstall(r)
  PROVE  dsm' \in [Packages -> States]
<1>0. dsm \in [Packages -> States] /\ r \in Packages
  BY ResourcesAssumption DEF DataOK
<1>1. CASE StartInstall(r)
  <2>1. PICK p, run : dsm' \in {dsm, [dsm EXCEPT ![p] =
                [now |-> "installing", next |-> IF run THEN "running" ELSE "stop"]]}
    BY <1>1 DEF StartInstall
  <2>2. [now |-> "installing", next |-> IF run THEN "running" ELSE "stop"] \in States
    BY DEF States, TransientStatuses, Resting
  <2> QED
    BY <1>0, <2>1, <2>2
<1>2. CASE Set(r)
  <2>1. dsm' \in {dsm, [dsm EXCEPT ![r] = Started(r)]}
    BY <1>2 DEF Set
  <2>2. dsm[r] \in States
    BY <1>0
  <2>3. Started(r) \in States
    BY <2>2 DEF Started, Rests, States, TransientStatuses, Resting
  <2> QED
    BY <1>0, <2>1, <2>3
<1>3. CASE Uninstall(r)
  <2>1. dsm' \in {dsm, [dsm EXCEPT ![r] = [now |-> "uninstalling", next |-> "absent"]]}
    BY <1>3 DEF Uninstall
  <2>2. [now |-> "uninstalling", next |-> "absent"] \in States
    BY DEF States, TransientStatuses, Resting
  <2> QED
    BY <1>0, <2>1, <2>2
<1> QED
  BY <1>1, <1>2, <1>3

\* DSM's own steps, and a person's.
LEMMA ElsewhereDsmOK ==
  ASSUME DataOK, (\E p \in Packages : Settle(p)) \/ ByHand
  PROVE  dsm' \in [Packages -> States] /\ budget' \in Budgets
<1>0. dsm \in [Packages -> States] /\ budget \in Budgets
  BY DEF DataOK
<1>1. ASSUME NEW p \in Packages, Settle(p)
      PROVE  dsm' \in [Packages -> States] /\ budget' \in Budgets
  <2>1. budget' \in Budgets
    BY <1>0, <1>1, FaultOK DEF Settle
  <2>2. \E status \in {dsm[p].next, "absent", "broken", "stop", "running"} :
           dsm' = [dsm EXCEPT ![p] = AtRest(status)]
    BY <1>1 DEF Settle
  <2>3. \A status \in {dsm[p].next, "absent", "broken", "stop", "running"} :
           AtRest(status) \in States
    BY <1>0 DEF AtRest, States, Resting
  <2> QED
    BY <1>0, <2>1, <2>2, <2>3
<1>2. CASE ByHand
  <2>1. budget' \in Budgets
    <3>1. budget.hand > 0 /\ budget' = [budget EXCEPT !.hand = @ - 1]
      BY <1>2 DEF ByHand
    <3>2. budget.hand \in 0 .. MaxHand
      BY <1>0 DEF Budgets
    <3>3. budget.hand - 1 \in 0 .. MaxHand
      BY <3>1, <3>2, BoundsAssumption
    <3> QED
      BY <1>0, <3>1, <3>3 DEF Budgets
  <2>2. PICK p \in Packages : \E to \in States : dsm' = [dsm EXCEPT ![p] = to]
    BY <1>2 DEF ByHand, States, TransientStatuses, Resting
  <2> QED
    BY <1>0, <2>1, <2>2
<1> QED
  BY <1>1, <1>2

LEMMA NextDataOK ==
  ASSUME DataOK, [Next]_vars
  PROVE  DataOK'
<1>0. dsm \in [Packages -> States]
  BY DEF DataOK
<1>1. ASSUME NEW r \in Resources, Begin(r) \/ Step(r) PROVE DataOK'
  <2>1. Bookkeeping
    BY <1>1, OutsideData, LockedData DEF Begin
  <2>2. dsm' \in [Packages -> States]
    BY <1>0, <1>1, DsmOK DEF Begin, Step, Create, Read, Get, FindFirst, Check, ResolveQueue,
       WaitInstalled, WaitReached, Exists, WaitGone, Deadline
  <2>3. UNCHANGED <<stage, handled>>
    BY <1>1 DEF Begin, Step, Create, Read, Get, FindFirst, Check, ResolveQueue, StartInstall,
       WaitInstalled, Set, WaitReached, Exists, Uninstall, WaitGone, Deadline
  <2> QED
    BY <2>1, <2>2, <2>3 DEF DataOK, Bookkeeping
<1>2. ASSUME NEW r \in Resources, TakePackageMu(r) PROVE DataOK'
  BY <1>2 DEF TakePackageMu, DataOK
<1>3. ASSUME NEW r \in Resources, Reconfigure(r) PROVE DataOK'
  <2>1. stage[r] \in Nat /\ Plans[r] \in Seq(Wishes) /\ stage[r] < Len(Plans[r])
    BY <1>3, PlansAssumption DEF DataOK, Reconfigure
  <2>2. stage[r] + 1 \in Nat /\ stage[r] + 1 \in DOMAIN Plans[r]
    BY <2>1
  <2>3. /\ stage' \in [Resources -> Nat]
        /\ \A s \in Resources : stage'[s] \in DOMAIN Plans[s]
    BY <1>3, <2>2 DEF DataOK, Reconfigure
  <2> QED
    BY <1>3, <2>3 DEF DataOK, Reconfigure
<1>4. ASSUME NEW p \in Packages, Settle(p) PROVE DataOK'
  <2>1. dsm' \in [Packages -> States] /\ budget' \in Budgets
    BY <1>4, ElsewhereDsmOK
  <2>2. UNCHANGED <<known, stage, handled, unsettled>>
    BY <1>4 DEF Settle
  <2> QED
    BY <2>1, <2>2 DEF DataOK
<1>5. CASE ByHand
  <2>1. dsm' \in [Packages -> States] /\ budget' \in Budgets
    BY <1>5, ElsewhereDsmOK
  <2>2. /\ UNCHANGED <<known, stage>>
        /\ \E p \in Packages : /\ handled' = handled \union {p}
                               /\ unsettled' = unsettled \union ({p} \intersect Resources)
    BY <1>5 DEF ByHand
  <2> QED
    BY <2>1, <2>2 DEF DataOK
<1>6. CASE Restart
  <2>1. budget' \in Budgets
    BY <1>6, FaultOK DEF Restart
  <2>2. UNCHANGED <<dsm, known, stage, handled>> /\ unsettled' \subseteq unsettled \union Resources
    BY <1>6 DEF Restart
  <2> QED
    BY <2>1, <2>2 DEF DataOK
<1>7. CASE UNCHANGED vars
  BY <1>7 DEF vars, DataOK
<1> QED
  BY <1>1, <1>2, <1>3, <1>4, <1>5, <1>6, <1>7 DEF Next

LEMMA InitOK == Init => DataOK /\ LockOK
<1> SUFFICES ASSUME Init PROVE DataOK /\ LockOK
  OBVIOUS
<1>1. /\ dsm \in [Packages -> States] /\ known \in [Resources -> Wishes]
      /\ handled \subseteq Packages /\ unsettled \subseteq Resources
  BY DEF Init, AtRest, States, Resting, None, Gone, Wishes
<1>2. stage \in [Resources -> Nat] /\ \A r \in Resources : stage[r] \in DOMAIN Plans[r]
  BY PlansAssumption DEF Init
<1>3. budget \in Budgets
  BY BoundsAssumption DEF Init, Budgets
<1>4. LockOK
  BY IdleIsJob, ResourcesAssumption DEF Init, LockOK
<1> QED
  BY <1>1, <1>2, <1>3, <1>4 DEF DataOK

\* packageMu has one holder, who is under the lock, and every variable its type.
THEOREM TypeCorrect == Spec => []TypeOK
<1>1. DataOK /\ LockOK /\ [Next]_vars => (DataOK /\ LockOK)'
  BY NextDataOK, NextLockOK
<1> QED
  BY <1>1, InitOK, Split, PTL DEF Spec

----------------------------------------------------------------------------
(***************************************************************************)
(* Nothing is installed that is already there.                             *)
(***************************************************************************)
Missing(p) == dsm[p].now = "absent" \/ p \in handled

\* What an installation knows at each step: the package, then its whole queue, is missing,
\* but for the first of the queue once a request for it has lost its answer.
NothingThere(r) ==
    /\ job[r].pc \in {"check", "queue"} => Missing(r)
    /\ At(r, "start") =>
          \A p \in job[r].queue : Missing(p) \/ (job[r].tries = 1 /\ p = First(job[r].queue))

CollisionInv == \A r \in Resources : NothingThere(r)

LEMMA CollisionImplied == CollisionInv => NoCollision
  BY DEF CollisionInv, NothingThere, NoCollision, At, Missing

\* Only an installation makes a missing package appear.
LEMMA MissingStays ==
  ASSUME DataOK, [Next]_vars, ~\E r \in Resources : StartInstall(r)
  PROVE  \A p \in Packages : Missing(p) => Missing(p)'
<1>0. dsm \in [Packages -> States] /\ Resources \subseteq Packages
  BY ResourcesAssumption DEF DataOK
<1>1. CASE UNCHANGED <<dsm, handled>>
  BY <1>1 DEF Missing
<1>2. ASSUME NEW r \in Resources, Set(r)
      PROVE  \A p \in Packages : Missing(p) => Missing(p)'
  <2>1. /\ dsm' = dsm \/ (dsm[r].now # "absent" /\ dsm' = [dsm EXCEPT ![r] = Started(r)])
        /\ handled' = handled
    BY <1>2 DEF Set
  <2> QED
    BY <1>0, <2>1 DEF Missing
<1>3. ASSUME NEW r \in Resources, Uninstall(r)
      PROVE  \A p \in Packages : Missing(p) => Missing(p)'
  <2>1. /\ \/ dsm' = dsm
           \/ /\ dsm[r].now # "absent"
              /\ dsm' = [dsm EXCEPT ![r] = [now |-> "uninstalling", next |-> "absent"]]
        /\ handled' = handled
    BY <1>3 DEF Uninstall
  <2> QED
    BY <1>0, <2>1 DEF Missing
<1>4. ASSUME NEW q \in Packages, Settle(q)
      PROVE  \A p \in Packages : Missing(p) => Missing(p)'
  <2>1. dsm[q].now # "absent" /\ handled' = handled
    BY <1>4 DEF Settle, Transient, TransientStatuses
  <2>2. \E status : dsm' = [dsm EXCEPT ![q] = AtRest(status)]
    BY <1>4 DEF Settle
  <2> QED
    BY <1>0, <2>1, <2>2 DEF Missing
<1>5. CASE ByHand
  <2>1. PICK q \in Packages : /\ \E to : dsm' = [dsm EXCEPT ![q] = to]
                              /\ handled' = handled \union {q}
    BY <1>5 DEF ByHand
  <2> QED
    BY <1>0, <2>1 DEF Missing
<1> QED
  BY <1>1, <1>2, <1>3, <1>4, <1>5 DEF Next, Begin, Step, Create, Read, Get, TakePackageMu,
     FindFirst, Check, ResolveQueue, WaitInstalled, WaitReached, Exists, WaitGone, Deadline,
     Reconfigure, Restart, vars

\* A step that does not lead into an installation leaves no claim, or the one there was.
LEMMA ClaimStays ==
  ASSUME DataOK, LockOK, NEW r \in Resources, NothingThere(r),
         \A p \in Packages : Missing(p) => Missing(p)',
         job'[r] = job[r] \/ job'[r].pc \notin {"check", "queue", "start"}
  PROVE  NothingThere(r)'
<1>1. job[r].queue \subseteq Packages /\ r \in Packages
  BY ResourcesAssumption DEF LockOK, Jobs
<1>2. CASE job'[r].pc \notin {"check", "queue", "start"}
  BY <1>2 DEF NothingThere, At
<1>3. CASE job'[r] = job[r]
  BY <1>1, <1>3 DEF NothingThere, At
<1> QED
  BY <1>2, <1>3

\* Operations that end or wait for the lock make no claim.
LEMMA EndsClaim ==
  ASSUME LockOK, NEW r \in Resources,
         \/ Fail(r) \/ FailBegun(r) \/ Forget(r)
         \/ \E status : Record(r, status) \/ HasIt(r, status)
         \/ \E verb : AskFor(r, verb)
         \/ \E running : job' = [job EXCEPT ![r] = Planned(r, running)]
  PROVE  /\ job'[r].pc \notin {"check", "queue", "start"}
         /\ \A s \in Resources \ {r} : job'[s] = job[s]
<1>1. \E j : job' = [job EXCEPT ![r] = j] /\ j.pc \notin {"check", "queue", "start"}
  <2>1. Idle.pc = "idle"
    BY DEF Idle
  <2>2. CASE End(r)
    BY <2>1, <2>2 DEF End
  <2>3. ASSUME NEW verb, AskFor(r, verb)
        PROVE  \E j : job' = [job EXCEPT ![r] = j] /\ j.pc \notin {"check", "queue", "start"}
    <3>1. [Idle EXCEPT !.pc = "queued", !.verb = verb].pc = "queued"
      BY DEF Idle
    <3> QED
      BY <2>3, <3>1 DEF AskFor
  <2>4. ASSUME NEW running, job' = [job EXCEPT ![r] = Planned(r, running)]
        PROVE  \E j : job' = [job EXCEPT ![r] = j] /\ j.pc \notin {"check", "queue", "start"}
    <3>1. Planned(r, running).pc \in {"idle", "queued", "get"}
      BY DEF Planned, Idle
    <3> QED
      BY <2>4, <3>1
  <2> QED
    BY <2>2, <2>3, <2>4 DEF Fail, FailBegun, Forget, Record, HasIt
<1> QED
  BY <1>1 DEF LockOK

\* Steps of the installation up to its queue.
LEMMA FindNothing ==
  ASSUME DataOK, LockOK, CollisionInv, NEW r \in Resources,
         FindFirst(r) \/ Check(r) \/ ResolveQueue(r)
  PROVE  CollisionInv'
<1>0. job \in [Resources -> Jobs] /\ r \in Packages
  BY ResourcesAssumption DEF LockOK
<1>1. \A p \in Packages : Missing(p) => Missing(p)'
  BY DEF FindFirst, Check, ResolveQueue, Missing
<1>2. \A s \in Resources \ {r} : job'[s] = job[s]
  BY <1>0, EndsClaim DEF FindFirst, Check, ResolveQueue, Goto
<1>3. NothingThere(r)'
  <2>1. CASE Fail(r) \/ \E status : HasIt(r, status)
    BY <1>1, <2>1, EndsClaim, ClaimStays DEF CollisionInv
  <2>2. CASE FindFirst(r) /\ Goto(r, "check")
    <3>1. dsm'[r].now = "absent" \/ Fail(r) \/ \E status : HasIt(r, status)
      BY <2>2 DEF FindFirst
    <3>2. job'[r].pc = "check"
      BY <1>0, <2>2 DEF Goto
    <3> QED
      BY <2>1, <3>1, <3>2 DEF NothingThere, Missing, At
  <2>3. CASE Check(r) /\ Goto(r, "queue")
    <3>1. Missing(r)
      BY <2>3 DEF Check, At, CollisionInv, NothingThere
    <3>2. job'[r].pc = "queue"
      BY <1>0, <2>3 DEF Goto
    <3> QED
      BY <1>0, <1>1, <3>1, <3>2 DEF NothingThere, At
  <2>4. CASE ResolveQueue(r) /\ ~Fail(r)
    <3> DEFINE missing == {p \in Needs[r] \union {r} : dsm[p].now = "absent"}
               queue == IF missing = {} THEN {r} ELSE missing
    <3>1. job'[r].pc = "start" /\ job'[r].queue = queue /\ UNCHANGED <<dsm, handled>>
      <4>1. /\ job' = [job EXCEPT ![r].pc = "start", ![r].queue = queue]
            /\ UNCHANGED <<dsm, handled>>
        BY <2>4 DEF ResolveQueue
      <4> HIDE DEF queue
      <4> QED
        BY <1>0, <4>1 DEF Jobs
    <3>2. Missing(r)
      BY <2>4 DEF ResolveQueue, At, CollisionInv, NothingThere
    <3>3. \A p \in queue : Missing(p)
      BY <3>2 DEF Missing
    <3> HIDE DEF queue
    <3> QED
      BY <3>1, <3>3 DEF NothingThere, At, Missing
  <2> QED
    BY <2>1, <2>2, <2>3, <2>4 DEF FindFirst, Check, ResolveQueue
<1>4. ASSUME NEW s \in Resources, s # r PROVE NothingThere(s)'
  BY <1>1, <1>2, <1>4, ClaimStays DEF CollisionInv
<1> QED
  BY <1>3, <1>4 DEF CollisionInv

\* The installation itself: whatever of its queue is left is still missing, and nobody
\* else is installing.
LEMMA StartNothing ==
  ASSUME DataOK, LockOK, CollisionInv, NEW r \in Resources, StartInstall(r)
  PROVE  CollisionInv'
<1> DEFINE p == First(job[r].queue)
           rest == job[r].queue \ {p}
<1> HIDE DEF p
<1>0. /\ job \in [Resources -> Jobs] /\ dsm \in [Packages -> States]
      /\ job[r].queue \subseteq Packages
  BY DEF LockOK, DataOK, Jobs
<1>1. job[r].pc = "start" /\ mu = r
  BY DEF StartInstall, At, LockOK, Locked
<1>2. \A q \in Packages : q # p /\ Missing(q) => Missing(q)'
  <2>1. (dsm' = dsm \/ \E to : dsm' = [dsm EXCEPT ![p] = to]) /\ handled' = handled
    BY DEF StartInstall, p
  <2> QED
    BY <1>0, <2>1 DEF Missing
<1>3. \A q \in rest : Missing(q)
  BY <1>1 DEF CollisionInv, NothingThere, At, p
<1>4. NothingThere(r)'
  <2>1. CASE Fail(r) \/ FailBegun(r)
    BY <2>1, EndsClaim DEF NothingThere, At
  <2>2. CASE RetryLost(r)
    <3>1. job'[r].pc = "start" /\ job'[r].queue = job[r].queue /\ job'[r].tries = 1
      BY <1>0, <1>1, <2>2 DEF RetryLost, Jobs
    <3> QED
      BY <1>0, <1>2, <1>3, <3>1 DEF NothingThere, At, p
  <2>3. CASE ~(Fail(r) \/ FailBegun(r) \/ RetryLost(r))
    <3>1. job' = [job EXCEPT ![r].pc = IF rest = {} THEN "installed" ELSE "start",
                             ![r].queue = rest, ![r].tries = 0]
      BY <2>3 DEF StartInstall, p
    <3>2. job'[r].queue = rest /\ job'[r].pc \in {"installed", "start"}
      BY <1>0, <3>1 DEF Jobs
    <3> QED
      BY <1>0, <1>2, <1>3, <3>2 DEF NothingThere, At
  <2> QED
    BY <2>1, <2>2, <2>3
<1>5. ASSUME NEW s \in Resources, s # r PROVE NothingThere(s)'
  <2>1. job[s].pc \notin Locked
    BY <1>1, <1>5 DEF LockOK
  <2>2. job'[s] = job[s]
    BY <1>0, <1>5, EndsClaim DEF StartInstall, RetryLost
  <2> QED
    BY <2>1, <2>2 DEF NothingThere, At, Locked
<1> QED
  BY <1>4, <1>5 DEF CollisionInv

\* The other steps of a resource make no claim.
LEMMA OthersClaimNothing ==
  ASSUME DataOK, LockOK, CollisionInv, NEW r \in Resources, [Next]_vars,
         ~\E s \in Resources : StartInstall(s),
         \/ Begin(r) \/ TakePackageMu(r) \/ Get(r) \/ WaitInstalled(r) \/ Set(r)
         \/ WaitReached(r) \/ Exists(r) \/ Uninstall(r) \/ WaitGone(r) \/ Deadline(r)
  PROVE  CollisionInv'
<1>0. job \in [Resources -> Jobs]
  BY DEF LockOK
<1>1. \A p \in Packages : Missing(p) => Missing(p)'
  BY MissingStays
<1>2. CASE \/ Fail(r) \/ FailBegun(r) \/ Forget(r)
           \/ \E status : Record(r, status) \/ HasIt(r, status)
           \/ \E verb : AskFor(r, verb)
           \/ \E running : job' = [job EXCEPT ![r] = Planned(r, running)]
  <2>1. /\ job'[r].pc \notin {"check", "queue", "start"}
        /\ \A s \in Resources \ {r} : job'[s] = job[s]
    BY <1>2, EndsClaim
  <2> QED
    BY <1>1, <2>1, ClaimStays DEF CollisionInv
<1>3. CASE /\ \/ TakePackageMu(r) \/ Goto(r, "reached") \/ Goto(r, "remove") \/ Goto(r, "gone")
              \/ (RetryLost(r) /\ (At(r, "set") \/ At(r, "remove")))
  <2>1. /\ job'[r].pc \notin {"check", "queue", "start"}
        /\ \A s \in Resources \ {r} : job'[s] = job[s]
    <3>1. CASE TakePackageMu(r)
      <4>1. job[r].verb \in Verbs \ {"none"}
        BY <3>1 DEF LockOK, Asked, TakePackageMu, At, Jobs
      <4>2. FirstStep(job[r].verb) \notin {"check", "queue", "start"}
        BY <4>1 DEF FirstStep, Verbs
      <4>3. job' = [job EXCEPT ![r].pc = FirstStep(job[r].verb)]
        BY <3>1 DEF TakePackageMu
      <4>4. job'[r].pc = FirstStep(job[r].verb) /\ \A s \in Resources \ {r} : job'[s] = job[s]
        BY <1>0, <4>3 DEF Jobs
      <4> QED
        BY <4>2, <4>4
    <3>2. CASE Goto(r, "reached") \/ Goto(r, "remove") \/ Goto(r, "gone")
      <4>1. PICK pc \in {"reached", "remove", "gone"} : job' = [job EXCEPT ![r].pc = pc]
        BY <3>2 DEF Goto
      <4>2. job'[r].pc = pc
        BY <1>0, <4>1 DEF Jobs
      <4> QED
        BY <1>0, <4>1, <4>2
    <3>3. CASE RetryLost(r) /\ (At(r, "set") \/ At(r, "remove"))
      BY <1>0, <3>3 DEF RetryLost, At
    <3> QED
      BY <1>3, <3>1, <3>2, <3>3
  <2> QED
    BY <1>1, <2>1, ClaimStays DEF CollisionInv
<1> QED
  BY <1>2, <1>3 DEF Begin, Create, Read, Get, WaitInstalled, Set, WaitReached, Exists, Uninstall,
     WaitGone, Deadline

LEMMA NextCollision ==
  ASSUME DataOK, LockOK, CollisionInv, [Next]_vars
  PROVE  CollisionInv'
<1>1. ASSUME NEW r \in Resources, StartInstall(r) PROVE CollisionInv'
  BY <1>1, StartNothing
<1>2. ASSUME NEW r \in Resources, FindFirst(r) \/ Check(r) \/ ResolveQueue(r)
      PROVE  CollisionInv'
  BY <1>2, FindNothing
<1>3. CASE \E s \in Resources : StartInstall(s)
  BY <1>1, <1>3
<1>4. CASE ~\E s \in Resources : StartInstall(s)
  <2>1. CASE \/ UNCHANGED job
             \/ Restart
    <3>1. \A r \in Resources : job'[r] = job[r] \/ job'[r].pc \notin {"check", "queue", "start"}
      BY <2>1 DEF Restart, Idle
    <3>2. \A p \in Packages : Missing(p) => Missing(p)'
      BY <1>4, MissingStays
    <3> QED
      BY <3>1, <3>2, ClaimStays DEF CollisionInv
  <2>2. ASSUME NEW r \in Resources, Begin(r) \/ TakePackageMu(r) \/ Step(r)
        PROVE  CollisionInv'
    BY <1>2, <1>4, <2>2, OthersClaimNothing DEF Step
  <2> QED
    BY <2>1, <2>2 DEF Next, Reconfigure, Settle, ByHand, vars
<1> QED
  BY <1>3, <1>4

\* Two resources never install the same package at the same time.
THEOREM NeverTwice == Spec => []NoCollision
<1>1. Init => DataOK /\ LockOK /\ CollisionInv
  BY InitOK DEF Init, CollisionInv, NothingThere, At, Idle
<1>2. DataOK /\ LockOK /\ CollisionInv /\ [Next]_vars => (DataOK /\ LockOK /\ CollisionInv)'
  BY NextDataOK, NextLockOK, NextCollision
<1> QED
  BY <1>1, <1>2, CollisionImplied, PTL DEF Spec

----------------------------------------------------------------------------
(***************************************************************************)
(* What is recorded of a package at rest is true.                          *)
(***************************************************************************)
\* Nobody is at work on the package, and the state knows whether it runs.
AtPeace(r) ==
    /\ dsm[r].now \in {"running", "stop", "broken"} /\ dsm[r].next = dsm[r].now
    /\ known[r].running <=> dsm[r].now = "running"

\* It is being started or stopped, or that is over; a broken one was broken before.
InChange(r) ==
    \/ dsm[r].now \in {"starting", "stopping"} /\ dsm[r].next \in {"running", "stop"}
    \/ dsm[r].now \in {"running", "stop"} /\ dsm[r].next = dsm[r].now
    \/ dsm[r].now = "broken" /\ dsm[r].next = "broken" /\ ~known[r].running

\* DSM may have been asked to start or stop it, or to remove it.
Changing(r) == At(r, "reached") \/ (At(r, "set") /\ job[r].tries = 1)
Leaving(r) == job[r].pc \in {"remove", "gone"}

Truthful(r) ==
    r \notin unsettled /\ known[r] # None /\ ~Leaving(r) =>
        IF Changing(r) THEN InChange(r) ELSE AtPeace(r)

Sound == \A p \in Packages : ~Transient(dsm[p].now) => dsm[p].next = dsm[p].now

TruthInv == Sound /\ \A r \in Resources : Truthful(r)

LEMMA TruthImplied == TruthInv => RecordedIsTrue
  BY DEF TruthInv, Truthful, Changing, Leaving, AtPeace, RecordedIsTrue, At

LEMMA PeaceAllowsChange ==
  ASSUME NEW r \in Resources, AtPeace(r)
  PROVE  InChange(r)
  BY DEF AtPeace, InChange

LEMMA NextSound ==
  ASSUME DataOK, Sound, [Next]_vars
  PROVE  Sound'
<1>0. dsm \in [Packages -> States] /\ Resources \subseteq Packages
  BY ResourcesAssumption DEF DataOK
<1>1. CASE UNCHANGED dsm
  BY <1>1 DEF Sound
<1>2. ASSUME NEW q, NEW to, dsm' = [dsm EXCEPT ![q] = to],
             Transient(to.now) \/ to.next = to.now
      PROVE  Sound'
  BY <1>0, <1>2 DEF Sound
<1>3. ASSUME NEW r \in Resources, StartInstall(r) PROVE Sound'
  <2>1. \/ UNCHANGED dsm
        \/ \E q, run : dsm' = [dsm EXCEPT ![q] =
              [now |-> "installing", next |-> IF run THEN "running" ELSE "stop"]]
    BY <1>3 DEF StartInstall
  <2>2. \A run : Transient([now |-> "installing",
                            next |-> IF run THEN "running" ELSE "stop"].now)
    BY DEF Transient, TransientStatuses
  <2> QED
    BY <1>1, <1>2, <2>1, <2>2
<1>4. ASSUME NEW r \in Resources, Set(r) PROVE Sound'
  <2>1. dsm' = dsm \/ dsm' = [dsm EXCEPT ![r] = Started(r)]
    BY <1>4 DEF Set
  <2>2. Transient(dsm[r].now) \/ dsm[r].next = dsm[r].now
    BY <1>0 DEF Sound
  <2>3. Transient(Started(r).now) \/ Started(r).next = Started(r).now
    <3>1. dsm[r] \in States
      BY <1>0
    <3> QED
      BY <2>2, <3>1 DEF Started, Rests, Transient, TransientStatuses, States
  <2> QED
    BY <1>1, <1>2, <2>1, <2>3
<1>5. ASSUME NEW r \in Resources, Uninstall(r) PROVE Sound'
  <2>1. dsm' = dsm \/ dsm' = [dsm EXCEPT ![r] = [now |-> "uninstalling", next |-> "absent"]]
    BY <1>5 DEF Uninstall
  <2>2. Transient([now |-> "uninstalling", next |-> "absent"].now)
    BY DEF Transient, TransientStatuses
  <2> QED
    BY <1>1, <1>2, <2>1, <2>2
<1>6. ASSUME NEW q \in Packages, Settle(q) PROVE Sound'
  <2>1. \E status : dsm' = [dsm EXCEPT ![q] = AtRest(status)]
    BY <1>6 DEF Settle
  <2> QED
    BY <1>2, <2>1 DEF AtRest
<1>7. CASE ByHand
  <2>1. PICK q \in Packages :
          \E to \in [now : TransientStatuses, next : Resting] : dsm' = [dsm EXCEPT ![q] = to]
    BY <1>7 DEF ByHand, TransientStatuses, Resting
  <2> QED
    BY <1>2, <2>1 DEF Transient
<1> QED
  BY <1>1, <1>3, <1>4, <1>5, <1>6, <1>7 DEF Next, Begin, Step, Create, Read, Get, TakePackageMu,
     FindFirst, Check, ResolveQueue, WaitInstalled, WaitReached, Exists, WaitGone, Deadline,
     Reconfigure, Restart, vars

\* Nothing about the package happens, and the operation does not come back from a change.
LEMMA Lasts ==
  ASSUME NEW r \in Resources, Truthful(r), dsm'[r] = dsm[r], known'[r] = known[r],
         r \in unsettled => r \in unsettled',
         Leaving(r)' \/ (~Leaving(r) /\ (Changing(r) => Changing(r)'))
  PROVE  Truthful(r)'
  BY PeaceAllowsChange DEF Truthful, AtPeace, InChange

\* What is recorded was read from the package at rest, or is marked.
LEMMA RecordsTruth ==
  ASSUME DataOK, Sound, NEW r \in Resources, dsm' = dsm, dsm[r].now # "absent",
         NEW status \in Statuses(r), known'[r].running = (status = "running"),
         \/ Glimpsed(r, status)
         \/ Awaited(r, status) /\ ~Transient(status),
         job'[r].pc \in {"idle", "queued", "get"}
  PROVE  Truthful(r)'
<1>1. CASE r \in unsettled'
  BY <1>1 DEF Truthful
<1>2. CASE r \notin unsettled'
  <2>1. status = dsm[r].now /\ ~Transient(dsm[r].now)
    BY <1>2 DEF Glimpsed, Awaited, Statuses
  <2>2. dsm[r] \in States /\ r \in Packages
    BY ResourcesAssumption DEF DataOK
  <2>3. dsm[r].now \in {"running", "stop", "broken"} /\ dsm[r].next = dsm[r].now
    BY <2>1, <2>2 DEF Sound, States, Transient, TransientStatuses, Resting
  <2>4. AtPeace(r)'
    BY <2>1, <2>3 DEF AtPeace
  <2> QED
    BY <2>4 DEF Truthful, Changing, At
<1> QED
  BY <1>1, <1>2

LEMMA EndsAtIdle ==
  ASSUME LockOK, NEW r \in Resources, End(r) \/ \E verb : AskFor(r, verb)
  PROVE  /\ job'[r].pc \in {"idle", "queued"} /\ ~Leaving(r)' /\ ~Changing(r)'
         /\ \A s \in Resources \ {r} : job'[s] = job[s]
<1>1. \E j : job' = [job EXCEPT ![r] = j] /\ j.pc \in {"idle", "queued"}
  <2>1. Idle.pc = "idle" /\ \A verb : [Idle EXCEPT !.pc = "queued", !.verb = verb].pc = "queued"
    BY DEF Idle
  <2> QED
    BY <2>1 DEF End, AskFor
<1> QED
  BY <1>1 DEF LockOK, Leaving, Changing, At

\* An operation that fails when nothing has begun, and one that forgets or marks.
LEMMA FailTruth ==
  ASSUME DataOK, LockOK, NEW r \in Resources, Truthful(r),
         \/ Fail(r) /\ dsm'[r] = dsm[r] /\ ~Changing(r) /\ ~Leaving(r)
         \/ FailBegun(r) \/ Forget(r)
  PROVE  Truthful(r)'
<1>1. CASE FailBegun(r) \/ Forget(r)
  BY <1>1 DEF FailBegun, Forget, Truthful, DataOK
<1>2. CASE Fail(r) /\ dsm'[r] = dsm[r] /\ ~Changing(r) /\ ~Leaving(r)
  BY <1>2, EndsAtIdle, Lasts DEF Fail
<1> QED
  BY <1>1, <1>2

LEMMA HasItTruth ==
  ASSUME DataOK, LockOK, Sound, NEW r \in Resources, Truthful(r), ~Changing(r), ~Leaving(r),
         dsm' = dsm, dsm[r].now # "absent", NEW status \in Statuses(r),
         HasIt(r, status) \/ (Record(r, status) /\ Glimpsed(r, status))
  PROVE  Truthful(r)'
<1>1. CASE Record(r, status) /\ Glimpsed(r, status)
  <2>1. known'[r].running = (status = "running") /\ End(r)
    BY <1>1 DEF Record, DataOK
  <2> QED
    BY <1>1, <2>1, EndsAtIdle, RecordsTruth
<1>2. CASE (\E verb : AskFor(r, verb)) /\ UNCHANGED <<known, unsettled>>
  BY <1>2, EndsAtIdle, Lasts
<1> QED
  BY <1>1, <1>2 DEF HasIt

LEMMA BeginTruth ==
  ASSUME DataOK, LockOK, TruthInv, NEW r \in Resources, Create(r) \/ Read(r) \/ Get(r)
  PROVE  Truthful(r)'
<1>0. Sound /\ Truthful(r) /\ ~Changing(r) /\ ~Leaving(r) /\ dsm' = dsm
  BY DEF TruthInv, Create, Read, Get, Changing, Leaving, At
<1>1. CASE Create(r)
  <2>1. CASE Fail(r)
    BY <1>0, <2>1, FailTruth
  <2>2. CASE \E status \in Statuses(r) : dsm[r].now # "absent" /\ HasIt(r, status)
    BY <1>0, <2>2, HasItTruth
  <2>3. CASE AskFor(r, "install") /\ UNCHANGED <<known, unsettled>>
    BY <1>0, <2>3, EndsAtIdle, Lasts
  <2> QED
    BY <1>1, <2>1, <2>2, <2>3 DEF Create
<1>2. CASE Read(r)
  <2>1. CASE Fail(r) \/ Forget(r)
    BY <1>0, <2>1, FailTruth
  <2>2. ASSUME NEW status \in Statuses(r), dsm[r].now # "absent",
               known' = [known EXCEPT ![r].running = (status = "running")],
               Glimpsed(r, status),
               job' = [job EXCEPT ![r] = Planned(r, status = "running")]
        PROVE  Truthful(r)'
    <3>1. known'[r].running = (status = "running")
      <4>1. known \in [Resources -> Wishes]
        BY DEF DataOK
      <4> QED
        BY <2>2, <4>1 DEF Wishes
    <3>2. job'[r].pc \in {"idle", "queued", "get"}
      <4>1. Planned(r, status = "running").pc \in {"idle", "queued", "get"}
        BY DEF Planned, Idle
      <4> QED
        BY <2>2, <4>1 DEF LockOK
    <3> QED
      BY <1>0, <2>2, <3>1, <3>2, RecordsTruth
  <2> QED
    BY <1>2, <2>1, <2>2 DEF Read
<1>3. CASE Get(r)
  BY <1>0, <1>3, FailTruth, HasItTruth DEF Get
<1> QED
  BY <1>1, <1>2, <1>3

\* The next step, a second request, and the queue of an installation.
LEMMA GoesOnTo ==
  ASSUME LockOK, NEW r \in Resources, NEW pc,
         \/ Goto(r, pc)
         \/ \E queue : job' = [job EXCEPT ![r].pc = pc, ![r].queue = queue]
         \/ \E queue : job' = [job EXCEPT ![r].pc = pc, ![r].queue = queue, ![r].tries = 0]
         \/ RetryLost(r) /\ pc = job[r].pc
  PROVE  /\ job'[r].pc = pc
         /\ \A s \in Resources \ {r} : job'[s] = job[s]
         /\ RetryLost(r) => job'[r].tries = 1
<1>1. job \in [Resources -> Jobs]
  BY DEF LockOK
<1>2. CASE Goto(r, pc) /\ ~RetryLost(r)
  BY <1>1, <1>2 DEF Goto, Jobs
<1>3. CASE RetryLost(r) /\ pc = job[r].pc
  BY <1>1, <1>3 DEF RetryLost, Jobs
<1>4. ASSUME NEW queue, job' = [job EXCEPT ![r].pc = pc, ![r].queue = queue], ~RetryLost(r)
      PROVE  job'[r].pc = pc /\ \A s \in Resources \ {r} : job'[s] = job[s]
  BY <1>1, <1>4 DEF Jobs
<1>5. ASSUME NEW queue, ~RetryLost(r),
             job' = [job EXCEPT ![r].pc = pc, ![r].queue = queue, ![r].tries = 0]
      PROVE  job'[r].pc = pc /\ \A s \in Resources \ {r} : job'[s] = job[s]
  BY <1>1, <1>5 DEF Jobs
<1>6. CASE RetryLost(r) /\ pc # job[r].pc
  <2>1. job'[r] = [job[r] EXCEPT !.tries = 1] /\ job[r] \in Jobs
    BY <1>1, <1>6 DEF RetryLost
  <2>2. job'[r].pc = job[r].pc
    BY <2>1 DEF Jobs
  <2>3. job'[r].pc = pc
    BY <1>1, <1>6 DEF Goto, Jobs
  <2> QED
    BY <1>6, <2>2, <2>3
<1> QED
  BY <1>2, <1>3, <1>4, <1>5, <1>6

LEMMA InstallTruth ==
  ASSUME DataOK, LockOK, TruthInv, NEW r \in Resources,
         FindFirst(r) \/ Check(r) \/ ResolveQueue(r) \/ StartInstall(r) \/ WaitInstalled(r)
  PROVE  Truthful(r)'
<1>0. /\ Sound /\ Truthful(r) /\ ~Changing(r) /\ ~Leaving(r)
      /\ dsm \in [Packages -> States] /\ r \in Packages
  BY ResourcesAssumption DEF TruthInv, FindFirst, Check, ResolveQueue, StartInstall,
     WaitInstalled, Changing, Leaving, At, DataOK
\* The operation goes on to another step of the installation.
<1>1. ASSUME NEW pc \in {"check", "queue", "start", "installed"}, dsm'[r] = dsm[r],
             UNCHANGED <<known, unsettled>>, job'[r].pc = pc
      PROVE  Truthful(r)'
  <2>1. ~Changing(r)' /\ ~Leaving(r)'
    BY <1>1 DEF Changing, Leaving, At
  <2> QED
    BY <1>0, <1>1, <2>1, Lasts
<1>2. CASE FindFirst(r)
  <2>1. Goto(r, "check") => job'[r].pc = "check"
    BY GoesOnTo
  <2> QED
    BY <1>0, <1>1, <1>2, <2>1, FailTruth, HasItTruth DEF FindFirst
<1>3. CASE Check(r)
  <2>1. Goto(r, "queue") => job'[r].pc = "queue"
    BY GoesOnTo
  <2> QED
    BY <1>0, <1>1, <1>3, <2>1, FailTruth DEF Check
<1>4. CASE ResolveQueue(r)
  <2>1. Fail(r) \/ (job'[r].pc = "start" /\ UNCHANGED <<known, unsettled>>)
    <3> DEFINE missing == {p \in Needs[r] \union {r} : dsm[p].now = "absent"}
               queue == IF missing = {} THEN {r} ELSE missing
    <3>1. \/ Fail(r)
          \/ /\ job' = [job EXCEPT ![r].pc = "start", ![r].queue = queue]
             /\ UNCHANGED <<known, unsettled>>
      BY <1>4 DEF ResolveQueue
    <3> HIDE DEF queue
    <3> QED
      BY <3>1, GoesOnTo
  <2>2. dsm' = dsm
    BY <1>4 DEF ResolveQueue
  <2> QED
    BY <1>0, <1>1, <2>1, <2>2, FailTruth
<1>5. CASE StartInstall(r)
  <2>1. CASE FailBegun(r)
    BY <1>0, <2>1, FailTruth
  <2>2. CASE Fail(r) /\ dsm' = dsm
    BY <1>0, <2>2, FailTruth
  <2>3. CASE ~FailBegun(r) /\ ~(Fail(r) /\ dsm' = dsm)
    <3>1. /\ job'[r].pc \in {"start", "installed"}
          /\ UNCHANGED <<known, unsettled>>
      <4> DEFINE queue == job[r].queue \ {First(job[r].queue)}
                 pc == IF queue = {} THEN "installed" ELSE "start"
      <4>1. /\ \/ RetryLost(r)
               \/ job' = [job EXCEPT ![r].pc = pc, ![r].queue = queue, ![r].tries = 0]
            /\ UNCHANGED <<known, unsettled>> /\ job[r].pc = "start"
        BY <1>5, <2>3 DEF StartInstall, RetryLost, At
      <4>2. pc \in {"start", "installed"}
        OBVIOUS
      <4> HIDE DEF queue, pc
      <4> QED
        BY <4>1, <4>2, GoesOnTo
    <3>2. PICK q, to : dsm[q].now = "absent" /\ dsm' = [dsm EXCEPT ![q] = to]
      BY <1>5, <2>3 DEF StartInstall
    <3>3. CASE dsm[r].now = "absent"
      <4>1. r \in unsettled' \/ known'[r] = None
        BY <1>0, <3>1, <3>3 DEF Truthful, AtPeace
      <4> QED
        BY <4>1 DEF Truthful
    <3>4. CASE dsm[r].now # "absent"
      BY <1>0, <1>1, <3>1, <3>2, <3>4
    <3> QED
      BY <3>3, <3>4
  <2> QED
    BY <2>1, <2>2, <2>3
<1>6. CASE WaitInstalled(r)
  BY <1>0, <1>6, FailTruth, HasItTruth DEF WaitInstalled
<1> QED
  BY <1>2, <1>3, <1>4, <1>5, <1>6

LEMMA SetTruth ==
  ASSUME DataOK, LockOK, TruthInv, NEW r \in Resources, Set(r)
  PROVE  Truthful(r)'
<1>0. /\ Truthful(r) /\ ~Leaving(r) /\ job[r].pc = "set"
      /\ dsm \in [Packages -> States] /\ r \in Packages
  BY ResourcesAssumption DEF TruthInv, Set, Leaving, At, DataOK
<1>1. CASE FailBegun(r)
  BY <1>0, <1>1, FailTruth
<1>2. CASE ~FailBegun(r)
  <2>1. /\ dsm[r].now \notin {"absent", "uninstalling"}
        /\ dsm' = [dsm EXCEPT ![r] = Started(r)]
        /\ Goto(r, "reached") \/ RetryLost(r)
        /\ UNCHANGED <<known, unsettled>>
    BY <1>2 DEF Set, RetryLost
  <2>2. Changing(r)'
    <3>1. CASE Goto(r, "reached")
      BY <3>1, GoesOnTo DEF Changing, At
    <3>2. CASE RetryLost(r)
      BY <1>0, <3>2, GoesOnTo DEF Changing, At
    <3> QED
      BY <2>1, <3>1, <3>2
  <2>3. CASE r \notin unsettled /\ known[r] # None
    <3>1. InChange(r)
      BY <1>0, <2>3, PeaceAllowsChange DEF Truthful
    <3>2. dsm'[r] = Started(r) /\ known'[r] = known[r]
      BY <1>0, <2>1
    <3>3. /\ Rests(Want(r).running) \in {"running", "stop"}
          /\ dsm[r] \in States
      BY <1>0 DEF Rests
    <3>4. ASSUME dsm[r].now \in {Rests(Want(r).running), "broken"} PROVE InChange(r)'
      <4>1. ~Transient(dsm[r].now)
        BY <3>3, <3>4 DEF Transient, TransientStatuses
      <4>2. Started(r) = dsm[r]
        BY <3>4, <4>1 DEF Started
      <4> QED
        BY <3>1, <3>2, <4>2 DEF InChange
    <3>5. ASSUME dsm[r].now \notin {Rests(Want(r).running), "broken"}, Transient(dsm[r].now)
          PROVE  InChange(r)'
      <4>1. Started(r) = [dsm[r] EXCEPT !.next = Rests(Want(r).running)]
        BY <3>5 DEF Started
      <4>2. dsm[r].now \in {"starting", "stopping"}
        BY <3>1, <3>5 DEF InChange, Transient, TransientStatuses
      <4>3. Started(r).now = dsm[r].now /\ Started(r).next = Rests(Want(r).running)
        BY <3>3, <4>1 DEF States
      <4> QED
        BY <3>2, <3>3, <4>2, <4>3 DEF InChange
    <3>6. ASSUME dsm[r].now \notin {Rests(Want(r).running), "broken"}, ~Transient(dsm[r].now)
          PROVE  InChange(r)'
      <4>1. Started(r) = [now |-> IF Want(r).running THEN "starting" ELSE "stopping",
                          next |-> Rests(Want(r).running)]
        BY <3>6 DEF Started
      <4> QED
        BY <3>2, <3>3, <4>1 DEF InChange
    <3>7. InChange(r)'
      BY <3>4, <3>5, <3>6
    <3> QED
      BY <2>2, <3>7 DEF Truthful
  <2>4. CASE ~(r \notin unsettled /\ known[r] # None)
    BY <2>1, <2>4 DEF Truthful
  <2> QED
    BY <2>3, <2>4
<1> QED
  BY <1>1, <1>2

LEMMA ChangeTruth ==
  ASSUME DataOK, LockOK, TruthInv, NEW r \in Resources,
         TakePackageMu(r) \/ WaitReached(r) \/ Exists(r) \/ Uninstall(r) \/ WaitGone(r)
           \/ Deadline(r)
  PROVE  Truthful(r)'
<1>0. /\ Sound /\ Truthful(r) /\ dsm \in [Packages -> States] /\ r \in Packages
  BY ResourcesAssumption DEF TruthInv, DataOK
<1>1. CASE TakePackageMu(r)
  <2>1. ~Leaving(r) /\ ~Changing(r) /\ UNCHANGED <<dsm, known, unsettled>>
    BY <1>1 DEF TakePackageMu, Leaving, Changing, At
  <2>2. job'[r].pc = FirstStep(job[r].verb)
    <3>1. job' = [job EXCEPT ![r].pc = FirstStep(job[r].verb)]
      BY <1>1 DEF TakePackageMu
    <3> QED
      BY <3>1, GoesOnTo DEF Goto
  <2> QED
    BY <1>0, <2>1, Lasts
<1>2. CASE WaitReached(r)
  <2>1. At(r, "reached") /\ Changing(r) /\ ~Leaving(r) /\ dsm' = dsm /\ dsm[r].now # "absent"
    BY <1>2 DEF WaitReached, Changing, Leaving, At
  <2>2. CASE FailBegun(r)
    BY <1>0, <2>2, FailTruth
  <2>3. CASE dsm[r].now = "broken" /\ Fail(r)
    <3>1. UNCHANGED <<known, unsettled>> /\ ~Leaving(r)' /\ ~Changing(r)'
      BY <2>3, EndsAtIdle DEF Fail
    <3>2. r \notin unsettled /\ known[r] # None => AtPeace(r)
      BY <1>0, <2>1, <2>3 DEF Truthful, InChange, AtPeace
    <3> QED
      BY <2>1, <3>1, <3>2 DEF Truthful, AtPeace
  <2>4. ASSUME NEW status \in Statuses(r), Ready(r, status), Record(r, status),
               Awaited(r, status)
        PROVE  Truthful(r)'
    <3>1. known'[r].running = (status = "running") /\ End(r)
      BY <2>4 DEF Record, DataOK
    <3>2. ~Transient(status)
      BY <2>4 DEF Ready
    <3> QED
      BY <1>0, <2>1, <2>4, <3>1, <3>2, EndsAtIdle, RecordsTruth
  <2> QED
    BY <1>2, <2>2, <2>3, <2>4 DEF WaitReached
<1>3. CASE Exists(r)
  <2>1. ~Leaving(r) /\ ~Changing(r) /\ dsm' = dsm
    BY <1>3 DEF Exists, Leaving, Changing, At
  <2>2. CASE Fail(r) \/ Forget(r)
    BY <1>0, <2>1, <2>2, FailTruth
  <2>3. CASE Goto(r, "remove")
    BY <2>3, GoesOnTo DEF Leaving, Truthful
  <2> QED
    BY <1>3, <2>2, <2>3 DEF Exists
<1>4. CASE Uninstall(r)
  <2>1. CASE FailBegun(r)
    BY <1>0, <2>1, FailTruth
  <2>2. CASE Goto(r, "gone")
    BY <2>2, GoesOnTo DEF Leaving, Truthful
  <2>3. CASE RetryLost(r) /\ At(r, "remove")
    BY <2>3, GoesOnTo DEF Leaving, Truthful, At
  <2> QED
    BY <1>4, <2>1, <2>2, <2>3 DEF Uninstall
<1>5. CASE WaitGone(r) \/ Deadline(r)
  BY <1>0, <1>5, FailTruth DEF WaitGone, Deadline
<1> QED
  BY <1>1, <1>2, <1>3, <1>4, <1>5

\* A step of one resource leaves the truth about another one alone.
LEMMA OthersTruth ==
  ASSUME DataOK, LockOK, TruthInv, NEW s \in Resources, NEW r \in Resources, r # s,
         Begin(s) \/ TakePackageMu(s) \/ Step(s)
  PROVE  Truthful(r)'
<1>0. Truthful(r) /\ r \in Packages /\ dsm \in [Packages -> States]
  BY ResourcesAssumption DEF TruthInv, DataOK
<1>1. job'[r] = job[r]
  <2>1. ASSUME \E j : job' = [job EXCEPT ![s] = j] PROVE job'[r] = job[r]
    BY <2>1 DEF LockOK
  <2>2. CASE TakePackageMu(s)
    <3>1. job' = [job EXCEPT ![s].pc = FirstStep(job[s].verb)]
      BY <2>2 DEF TakePackageMu
    <3> QED
      BY <3>1, GoesOnTo DEF Goto
  <2>3. CASE Moves(s)
    BY <2>1, <2>3 DEF Moves
  <2> QED
    BY <2>2, <2>3, OutsideMoves, InstallMoves, ChangeMoves DEF Begin, Step
<1>2. known'[r] = known[r] /\ (r \in unsettled => r \in unsettled')
  <2>1. CASE \/ Fail(s) \/ FailBegun(s) \/ Forget(s) \/ UNCHANGED <<known, unsettled>>
             \/ \E status : HasIt(s, status)
             \/ \E status : Record(s, status) /\ (Glimpsed(s, status) \/ Awaited(s, status))
    BY <2>1 DEF Fail, FailBegun, Forget, HasIt, Record, Glimpsed, Awaited, DataOK
  <2>2. CASE \E status : /\ known' = [known EXCEPT ![s].running = (status = "running")]
                         /\ Glimpsed(s, status)
    BY <2>2 DEF Glimpsed, DataOK
  <2>3. CASE Read(s)
    BY <2>1, <2>2, <2>3 DEF Read
  <2>4. CASE Create(s) \/ Get(s) \/ TakePackageMu(s) \/ FindFirst(s) \/ Check(s)
               \/ ResolveQueue(s) \/ WaitInstalled(s) \/ WaitReached(s) \/ Exists(s)
               \/ WaitGone(s) \/ Deadline(s)
    BY <2>1, <2>4 DEF Create, Get, TakePackageMu, FindFirst, Check, ResolveQueue, WaitInstalled,
       WaitReached, Exists, WaitGone, Deadline
  <2>5. CASE StartInstall(s) \/ Set(s) \/ Uninstall(s)
    BY <2>1, <2>5 DEF StartInstall, Set, Uninstall, RetryLost
  <2> QED
    BY <2>3, <2>4, <2>5 DEF Begin, Step
<1>3. CASE dsm'[r] = dsm[r]
  BY <1>0, <1>1, <1>2, <1>3, Lasts DEF Leaving, Changing, At
<1>4. CASE dsm'[r] # dsm[r]
  <2>1. CASE UNCHANGED dsm
    BY <1>4, <2>1
  <2>2. CASE Set(s) \/ Uninstall(s)
    <3>1. \E to : dsm' = dsm \/ dsm' = [dsm EXCEPT ![s] = to]
      BY <2>2 DEF Set, Uninstall
    <3> QED
      BY <1>0, <1>4, <3>1
  <2>3. CASE StartInstall(s)
    <3>1. dsm[r].now = "absent"
      <4>1. \E q, to : dsm' = dsm \/ (dsm[q].now = "absent" /\ dsm' = [dsm EXCEPT ![q] = to])
        BY <2>3 DEF StartInstall
      <4> QED
        BY <1>0, <1>4, <4>1
    <3>2. r \in unsettled \/ known[r] = None \/ Leaving(r)
      BY <1>0, <3>1 DEF Truthful, AtPeace, InChange
    <3> QED
      BY <1>1, <1>2, <3>2 DEF Truthful, Leaving
  <2> QED
    BY <2>1, <2>2, <2>3 DEF Begin, Step, Create, Read, Get, TakePackageMu, FindFirst, Check,
       ResolveQueue, WaitInstalled, WaitReached, Exists, WaitGone, Deadline
<1> QED
  BY <1>3, <1>4

\* DSM ends what it has begun, and a person marks what he touches.
LEMMA ElsewhereTruth ==
  ASSUME DataOK, LockOK, TruthInv, NEW r \in Resources,
         (\E p \in Packages : Settle(p)) \/ ByHand \/ Restart
           \/ (\E s \in Resources : Reconfigure(s)) \/ UNCHANGED vars
  PROVE  Truthful(r)'
<1>0. Truthful(r) /\ r \in Packages /\ dsm \in [Packages -> States]
  BY ResourcesAssumption DEF TruthInv, DataOK
<1>1. ASSUME NEW p \in Packages, Settle(p) PROVE Truthful(r)'
  <2>1. /\ Transient(dsm[p].now) /\ UNCHANGED <<known, job, unsettled>>
        /\ \E status : dsm' = [dsm EXCEPT ![p] = AtRest(status)]
    BY <1>1 DEF Settle
  <2>2. CASE p # r
    <3>1. dsm'[r] = dsm[r]
      BY <1>0, <2>1, <2>2
    <3> QED
      BY <1>0, <2>1, <3>1, Lasts DEF Leaving, Changing, At
  <2>3. CASE p = r /\ r \notin unsettled /\ known[r] # None /\ ~Leaving(r)
    <3>1. Changing(r) /\ InChange(r)
      BY <1>0, <2>1, <2>3 DEF Truthful, AtPeace, Transient, TransientStatuses
    <3>2. dsm[r].now \in {"starting", "stopping"} /\ dsm[r].next \in {"running", "stop"}
      BY <2>1, <2>3, <3>1 DEF InChange, Transient, TransientStatuses
    <3>3. \E status \in {"running", "stop"} : dsm' = [dsm EXCEPT ![r] = AtRest(status)]
      BY <1>1, <2>3, <3>2 DEF Settle
    <3>4. InChange(r)'
      BY <1>0, <3>3 DEF InChange, AtRest
    <3> QED
      BY <2>1, <3>1, <3>4 DEF Truthful, Changing, At
  <2>4. CASE p = r /\ ~(r \notin unsettled /\ known[r] # None /\ ~Leaving(r))
    BY <2>1, <2>4 DEF Truthful, Leaving
  <2> QED
    BY <2>2, <2>3, <2>4
<1>2. CASE ByHand
  <2>1. PICK q \in Packages : /\ \E to : dsm' = [dsm EXCEPT ![q] = to]
                              /\ unsettled' = unsettled \union ({q} \intersect Resources)
                              /\ UNCHANGED <<known, job>>
    BY <1>2 DEF ByHand
  <2>2. CASE q = r
    BY <2>1, <2>2 DEF Truthful
  <2>3. CASE q # r
    <3>1. dsm'[r] = dsm[r]
      BY <1>0, <2>1, <2>3
    <3> QED
      BY <1>0, <2>1, <3>1, Lasts DEF Leaving, Changing, At
  <2> QED
    BY <2>2, <2>3
<1>3. CASE Restart
  <2>1. /\ UNCHANGED <<dsm, known>> /\ job'[r].pc = "idle"
        /\ unsettled' = unsettled \union {s \in Resources : ~At(s, "idle")}
    BY <1>3 DEF Restart, Idle
  <2>2. CASE At(r, "idle")
    <3>1. ~Leaving(r) /\ ~Leaving(r)' /\ ~Changing(r) /\ ~Changing(r)'
      BY <2>1, <2>2 DEF Leaving, Changing, At
    <3> QED
      BY <1>0, <2>1, <3>1, Lasts
  <2>3. CASE ~At(r, "idle")
    BY <2>1, <2>3 DEF Truthful
  <2> QED
    BY <2>2, <2>3
<1>4. CASE (\E s \in Resources : Reconfigure(s)) \/ UNCHANGED vars
  <2>1. UNCHANGED <<dsm, known, job, unsettled>>
    BY <1>4 DEF Reconfigure, vars
  <2> QED
    BY <1>0, <2>1, Lasts DEF Leaving, Changing, At
<1> QED
  BY <1>1, <1>2, <1>3, <1>4

LEMMA NextTruth ==
  ASSUME DataOK, LockOK, TruthInv, [Next]_vars
  PROVE  TruthInv'
<1>1. Sound'
  BY NextSound DEF TruthInv
<1>2. ASSUME NEW r \in Resources PROVE Truthful(r)'
  <2>1. ASSUME NEW s \in Resources, Begin(s) \/ TakePackageMu(s) \/ Step(s)
        PROVE  Truthful(r)'
    <3>1. CASE s # r
      BY <2>1, <3>1, OthersTruth
    <3>2. CASE s = r
      BY <2>1, <3>2, BeginTruth, InstallTruth, SetTruth, ChangeTruth DEF Begin, Step
    <3> QED
      BY <3>1, <3>2
  <2> QED
    BY <2>1, ElsewhereTruth DEF Next
<1> QED
  BY <1>1, <1>2 DEF TruthInv

\* The state says whether a package runs, unless that was not read from a package at rest,
\* its operation failed after DSM had begun, or a person has intervened.
THEOREM RecordsAreTrue == Spec => []RecordedIsTrue
<1>1. Init => DataOK /\ LockOK /\ TruthInv
  <2>1. Init => TruthInv
    BY ResourcesAssumption DEF Init, TruthInv, Sound, Truthful, AtRest
  <2> QED
    BY <2>1, InitOK
<1>2. DataOK /\ LockOK /\ TruthInv /\ [Next]_vars => (DataOK /\ LockOK /\ TruthInv)'
  BY NextDataOK, NextLockOK, NextTruth
<1> QED
  BY <1>1, <1>2, TruthImplied, PTL DEF Spec
=============================================================================
