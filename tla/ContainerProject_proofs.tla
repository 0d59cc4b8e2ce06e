----------------------- MODULE ContainerProject_proofs -----------------------
(***************************************************************************)
(* For any configurations, documents and faults: every variable keeps its  *)
(* type, an apply that wrote the document reports success only when the    *)
(* containers were built from it, and an empty plan means that there is    *)
(* nothing to do.                                                          *)
(***************************************************************************)
EXTENDS ContainerProject, TLAPS

Statuses == Transient \cup {"ABSENT", "STOPPED", "RUNNING", "WARNING", "FAILED"}

Places == {"register", "update", "setRunning", "write", "build", "start", "stop",
           "delete", "stopped", "settle", "final", "gone"}

Jobs == [pc : Places, op : {"register", "update", "setRunning", "delete"},
         write : BOOLEAN, doc : Docs, running : BOOLEAN, foreign : 0 .. MaxForeign]

\* What has been written stays written, and what has been built stays built, as long
\* as only this apply touches the project.
Built ==
    job # Idle /\ job.write /\ Undisturbed /\ Exists =>
        /\ job.pc = "build" => nas.doc = job.doc
        /\ job.pc \in {"settle", "start", "final"} => nas.deployed = job.doc

NasType == nas \in [doc : Docs, deployed : Docs, status : Statuses]

StateType ==
    /\ state \in [managed : BOOLEAN, doc : Docs, version : Nat, running : BOOLEAN, checksum : Docs]
    /\ state.version > 0 => state.doc = NoDoc
    /\ lastWritten \in Docs

JobType ==
    /\ job = Idle \/ job \in Jobs
    /\ job # Idle => budget.foreign <= job.foreign

BudgetType ==
    budget \in [faults : 0 .. MaxFaults, edits : 0 .. MaxEdits, foreign : 0 .. MaxForeign]

\* The inductive invariant.
IInv ==
    /\ NasType /\ config \in Configs /\ StateType /\ JobType /\ BudgetType
    /\ Built

----------------------------------------------------------------------------
LEMMA InitIInv == Init => IInv
<1> SUFFICES ASSUME Init PROVE IInv
  OBVIOUS
<1>1. NasType
  BY DEF Init, NasType, NoProject, Docs, Statuses
<1>2. StateType
  BY DEF Init, StateType, NotManaged, Docs
<1>3. JobType /\ Built
  BY DEF Init, JobType, Built
<1>4. BudgetType
  BY BoundsAssumption DEF Init, BudgetType
<1> QED
  BY <1>1, <1>2, <1>3, <1>4, ConfigsAssumption DEF Init, IInv

\* What an idle job is told apart by.
LEMMA IdlePc == Idle.pc = "idle" /\ \A j \in Jobs : j.pc # "idle" /\ j # Idle
<1>1. Idle.pc = "idle"
  BY DEF Idle
<1> QED
  BY <1>1 DEF Jobs, Places

\* A fault only takes from the faults.
LEMMA FaultBudget ==
  ASSUME NEW kind, BudgetType, Fault(kind) \/ UNCHANGED budget
  PROVE  BudgetType' /\ budget'.foreign = budget.foreign
  BY BoundsAssumption DEF BudgetType, Fault

\* What is recorded of the project has the type of a record.
LEMMA RecordedType ==
  ASSUME NasType, NEW version \in Nat
  PROVE  /\ Recorded(version) \in
                [managed : BOOLEAN, doc : Docs, version : Nat, running : BOOLEAN, checksum : Docs]
         /\ Recorded(version).version > 0 => Recorded(version).doc = NoDoc
<1>1. Shown(nas.doc, version) \in Docs /\ (version > 0 => Shown(nas.doc, version) = NoDoc)
  BY DEF Shown, NasType, Docs
<1>2. Running(nas.status) \in BOOLEAN
  BY DEF Running
<1> QED
  BY <1>1, <1>2 DEF Recorded, NasType

\* A new operation is a job at its first step.
LEMMA OperationType ==
  ASSUME config \in Configs, BudgetType, NEW write \in BOOLEAN,
         NEW pc \in {"register", "update", "setRunning", "delete"}
  PROVE  /\ Operation(pc, write) \in Jobs
         /\ Operation(pc, write).pc = pc
         /\ Operation(pc, write).foreign = budget.foreign
<1>1. config.doc \in Docs /\ config.running \in BOOLEAN
  BY ConfigsAssumption DEF Docs
<1> QED
  BY <1>1 DEF Operation, Jobs, Places, BudgetType

\* A job that has just begun, or none at all, has nothing built to vouch for.
LEMMA FreshJob ==
  ASSUME NEW pc \in {"register", "update", "setRunning", "delete"}, NEW write \in BOOLEAN,
         IInv, budget'.foreign = budget.foreign, job' = Operation(pc, write)
  PROVE  JobType' /\ Built'
<1>1. job' \in Jobs /\ job'.pc = pc /\ job'.foreign = budget.foreign
  BY OperationType DEF IInv
<1> QED
  BY <1>1 DEF IInv, JobType, Built, BudgetType, Jobs, Docs

LEMMA NoJob ==
  ASSUME job' = Idle
  PROVE  JobType' /\ Built'
  BY DEF JobType, Built

----------------------------------------------------------------------------
LEMMA RefreshIInv == ASSUME IInv, Refresh PROVE IInv'
<1>1. CASE /\ Exists
           /\ state' = Recorded(state.version)
           /\ lastWritten' = IF lastWritten = NoDoc THEN nas.doc ELSE lastWritten
           /\ job' = Planned(state', lastWritten')
           /\ UNCHANGED budget
  <2>1. StateType'
    <3>1. state.version \in Nat
      BY DEF IInv, StateType
    <3> QED
      BY <1>1, <3>1, RecordedType DEF IInv, StateType, NasType
  <2>2. \/ job' = Idle
        \/ job' = Operation("update", TRUE)
        \/ job' = Operation("setRunning", FALSE)
    BY <1>1 DEF Planned, Operation, Refresh
  <2>3. JobType' /\ Built'
    BY <1>1, <2>2, NoJob, FreshJob
  <2> QED
    BY <1>1, <2>1, <2>3 DEF IInv, Refresh, NasType, BudgetType
<1>2. CASE ~Exists /\ state' = NotManaged /\ lastWritten' = NoDoc /\ UNCHANGED <<job, budget>>
  BY <1>2 DEF IInv, Refresh, NasType, StateType, NotManaged, JobType, BudgetType, Built, Docs,
              Undisturbed, Exists
<1>3. CASE Fault("read") /\ UNCHANGED <<state, lastWritten, job>>
  BY <1>3, FaultBudget
  DEF IInv, Refresh, NasType, StateType, JobType, Built, Undisturbed, Exists
<1> QED
  BY <1>1, <1>2, <1>3 DEF Refresh

LEMMA BeginIInv == ASSUME IInv, BeginCreate \/ Import \/ Destroy PROVE IInv'
<1>1. CASE BeginCreate
  <2>1. JobType' /\ Built'
    BY <1>1, FreshJob DEF BeginCreate
  <2> QED
    BY <1>1, <2>1 DEF IInv, BeginCreate, NasType, StateType, BudgetType
<1>2. CASE Import
  <2>1. StateType'
    BY <1>2, RecordedType DEF IInv, Import, StateType, NasType
  <2> QED
    BY <1>2, <2>1 DEF IInv, Import, NasType, JobType, BudgetType, Built, Undisturbed, Exists
<1>3. CASE Destroy
  <2>1. BudgetType' /\ budget'.foreign = budget.foreign
    BY <1>3, BoundsAssumption DEF Destroy, IInv, BudgetType
  <2>2. CASE state' = NotManaged /\ lastWritten' = NoDoc /\ UNCHANGED job
    BY <1>3, <2>1, <2>2
    DEF IInv, Destroy, NasType, StateType, NotManaged, JobType, Built, Docs, Undisturbed, Exists
  <2>3. CASE job' = Operation("delete", FALSE) /\ UNCHANGED <<state, lastWritten>>
    <3>1. JobType' /\ Built'
      BY <2>1, <2>3, FreshJob
    <3> QED
      BY <1>3, <2>1, <2>3, <3>1 DEF IInv, Destroy, NasType, StateType
  <2> QED
    BY <1>3, <2>2, <2>3 DEF Destroy
<1> QED
  BY <1>1, <1>2, <1>3

----------------------------------------------------------------------------
\* A job that moves on keeps everything but its place.
LEMMA MovedJob ==
  ASSUME NEW pc \in Places, IInv, job # Idle, job' = [job EXCEPT !.pc = pc],
         budget'.foreign = budget.foreign
  PROVE  /\ JobType' /\ job' # Idle
         /\ job'.pc = pc /\ job'.doc = job.doc /\ job'.write = job.write
         /\ job'.foreign = job.foreign /\ job'.running = job.running /\ job'.op = job.op
<1>1. job \in Jobs /\ budget.foreign <= job.foreign
  BY DEF IInv, JobType
<1>2. job' \in Jobs /\ job'.pc = pc
  BY <1>1 DEF Jobs
<1> QED
  BY <1>1, <1>2, IdlePc DEF JobType, Jobs

\* A job at a named place is none of the idle one.
LEMMA AtWork ==
  ASSUME NEW pc \in Places, job.pc = pc
  PROVE  job # Idle
<1>1. Idle.pc = "idle" /\ pc # "idle"
  BY IdlePc DEF Places
<1> QED
  BY <1>1

\* The write of the document is what the build has to find.
LEMMA WriteIInv == ASSUME IInv, Register \/ WriteCompose PROVE IInv'
<1>1. job \in Jobs /\ job # Idle
  BY AtWork DEF Register, WriteCompose, At, IInv, JobType, Places
<1>2. BudgetType' /\ budget'.foreign = budget.foreign
  BY FaultBudget DEF Register, WriteCompose, Call, IInv
<1>3. StateType' /\ config' \in Configs
  BY DEF Register, WriteCompose, Call, IInv, StateType
<1>4. NasType'
  <2>1. job.doc \in Docs /\ Empty \in Docs /\ NoDoc \in Docs
    BY <1>1 DEF Jobs, Docs
  <2>2. \/ nas' = nas \/ nas' = [nas EXCEPT !.doc = job.doc]
        \/ nas' = [doc |-> Empty, deployed |-> NoDoc, status |-> "STOPPED"]
    BY DEF Register, WriteCompose, Call
  <2> QED
    BY <2>1, <2>2 DEF IInv, NasType, Statuses
<1>5. JobType' /\ Built'
  <2>1. CASE job' = Idle
    BY <2>1, NoJob
  <2>2. CASE Register /\ job' = [job EXCEPT !.pc = "write"]
    <3>1. "write" \in Places
      BY DEF Places
    <3> QED
      BY <1>1, <1>2, <2>2, <3>1, MovedJob DEF Built
  <2>3. CASE WriteCompose /\ job' = [job EXCEPT !.pc = "build"]
    <3>1. "build" \in Places
      BY DEF Places
    <3>2. nas' = [nas EXCEPT !.doc = job.doc]
      <4>1. job'.pc = "build"
        BY <1>1, <1>2, <2>3, <3>1, MovedJob
      <4> QED
        BY <2>3, <4>1, IdlePc DEF WriteCompose, Call
    <3>3. nas'.doc = job.doc
      BY <3>2 DEF IInv, NasType
    <3> QED
      BY <1>1, <1>2, <2>3, <3>1, <3>3, MovedJob DEF Built
  <2> QED
    BY <2>1, <2>2, <2>3 DEF Register, WriteCompose, Call, AfterWrite
<1> QED
  BY <1>2, <1>3, <1>4, <1>5 DEF IInv

\* A lifecycle call leaves the operation over, or at its next step.
LEMMA LifecycleIInv ==
  ASSUME IInv, job # Idle, NEW effect, NEW next \in Places, Lifecycle(effect, next),
         effect \in [doc : Docs, deployed : Docs, status : Statuses],
         \* what the call makes of the project and of what is known of it
         nas' = effect /\ job' = [job EXCEPT !.pc = next] => Built'
  PROVE  IInv'
<1>1. BudgetType' /\ budget'.foreign = budget.foreign
  BY FaultBudget DEF Lifecycle, IInv
<1>2. StateType' /\ config' \in Configs /\ NasType'
  BY DEF Lifecycle, IInv, StateType, NasType
<1>3. CASE job' = Idle
  BY <1>1, <1>2, <1>3, NoJob DEF IInv
<1>4. CASE nas' = effect /\ job' = [job EXCEPT !.pc = next]
  <2>1. JobType'
    BY <1>1, <1>4, MovedJob
  <2> QED
    BY <1>1, <1>2, <1>4, <2>1 DEF IInv
<1> QED
  BY <1>3, <1>4 DEF Lifecycle, Goto

LEMMA BuildIInv == ASSUME IInv, Build PROVE IInv'
<1> DEFINE effect == [nas EXCEPT !.deployed = nas.doc, !.status = "BUILDING"]
<1>1. job # Idle /\ job.pc = "build" /\ "settle" \in Places /\ Exists
  BY AtWork DEF Build, At, Places, Lifecycle
<1>2. effect \in [doc : Docs, deployed : Docs, status : Statuses] /\ effect.deployed = nas.doc
  BY DEF IInv, NasType, Statuses, Transient
<1>3. ASSUME nas' = effect, job' = [job EXCEPT !.pc = "settle"], budget'.foreign = budget.foreign
      PROVE  Built'
  <2>1. job'.pc = "settle" /\ job'.doc = job.doc /\ job'.write = job.write
        /\ job'.foreign = job.foreign
    BY <1>1, <1>3, MovedJob
  <2> QED
    BY <1>1, <1>2, <1>3, <2>1 DEF IInv, Built, Undisturbed
<1>4. budget'.foreign = budget.foreign
  BY FaultBudget DEF Build, Lifecycle, IInv
<1> QED
  BY <1>1, <1>2, <1>3, <1>4, LifecycleIInv DEF Build

LEMMA StartIInv == ASSUME IInv, Start PROVE IInv'
<1> DEFINE effect == [nas EXCEPT !.status = "STARTING"]
<1>1. job # Idle /\ job.pc = "start" /\ "final" \in Places /\ Exists
  BY AtWork DEF Start, At, Places, Lifecycle
<1>2. effect \in [doc : Docs, deployed : Docs, status : Statuses]
      /\ effect.deployed = nas.deployed
  BY DEF IInv, NasType, Statuses, Transient
<1>3. ASSUME nas' = effect, job' = [job EXCEPT !.pc = "final"], budget'.foreign = budget.foreign
      PROVE  Built'
  <2>1. job'.pc = "final" /\ job'.doc = job.doc /\ job'.write = job.write
        /\ job'.foreign = job.foreign
    BY <1>1, <1>3, MovedJob
  <2> QED
    BY <1>1, <1>2, <1>3, <2>1 DEF IInv, Built, Undisturbed
<1>4. budget'.foreign = budget.foreign
  BY FaultBudget DEF Start, Lifecycle, IInv
<1> QED
  BY <1>1, <1>2, <1>3, <1>4, LifecycleIInv DEF Start

\* A stop for a rebuild comes before the write, any other has nothing written to
\* vouch for.
LEMMA StopIInv == ASSUME IInv, Stop \/ Delete PROVE IInv'
<1>1. job # Idle
  BY AtWork DEF Stop, Delete, At, Places
<1>2. budget'.foreign = budget.foreign
  BY FaultBudget DEF Stop, Delete, Lifecycle, IInv
<1>3. ASSUME NEW pc \in {"stopped", "final", "gone"}, pc = "final" => ~job.write,
             job' = [job EXCEPT !.pc = pc]
      PROVE  Built'
  <2>1. job'.pc = pc /\ job'.write = job.write
    BY <1>1, <1>2, <1>3, MovedJob DEF Places
  <2> QED
    BY <1>3, <2>1 DEF Built
<1>4. CASE Stop
  <2> DEFINE effect == [nas EXCEPT !.status = "STOPPING"]
             next == IF job.write THEN "stopped" ELSE "final"
  <2>1. effect \in [doc : Docs, deployed : Docs, status : Statuses]
    BY DEF IInv, NasType, Statuses, Transient
  <2>2. next \in {"stopped", "final"} /\ next \in Places /\ (next = "final" => ~job.write)
    BY DEF Places
  <2>3. Lifecycle(effect, next)
    BY <1>4 DEF Stop
  <2> HIDE DEF effect, next
  <2> QED
    BY <1>1, <1>3, <2>1, <2>2, <2>3, LifecycleIInv
<1>5. CASE Delete
  <2> DEFINE effect == [nas EXCEPT !.status = "DELETING"]
  <2>1. effect \in [doc : Docs, deployed : Docs, status : Statuses]
    BY DEF IInv, NasType, Statuses, Transient
  <2>2. "gone" \in Places
    BY DEF Places
  <2>3. Lifecycle(effect, "gone")
    BY <1>5 DEF Delete
  <2> HIDE DEF effect
  <2> QED
    BY <1>1, <1>3, <2>1, <2>2, <2>3, LifecycleIInv
<1> QED
  BY <1>4, <1>5

\* Only a job that is going to write says so from here on.
LEMMA DecideIInv == ASSUME IInv, Decide PROVE IInv'
<1>1. BudgetType' /\ budget'.foreign = budget.foreign
  BY FaultBudget DEF Decide, IInv
<1>2. NasType' /\ StateType' /\ config' \in Configs
  BY DEF Decide, IInv, NasType, StateType
<1>3. CASE job' = Idle
  BY <1>1, <1>2, <1>3, NoJob DEF IInv
<1>4. CASE job' # Idle
  <2>1. job \in Jobs /\ budget.foreign <= job.foreign
    <3>1. job # Idle
      BY AtWork DEF Decide, Places
    <3> QED
      BY <3>1 DEF IInv, JobType
  <2>2. PICK write \in BOOLEAN, pc \in Places :
            /\ job' = [job EXCEPT !.write = write, !.pc = pc]
            /\ write => pc \in {"write", "stop"}
    <3> DEFINE rewrite == job.write /\ nas.doc # job.doc
               up == Running(nas.status)
               pc == CASE rewrite /\ ~up -> "write"
                       [] up /\ (rewrite \/ ~job.running) -> "stop"
                       [] ~rewrite /\ ~up /\ job.running -> "start"
                       [] OTHER -> "final"
    <3>1. job' = [job EXCEPT !.write = rewrite, !.pc = pc]
      BY <1>4 DEF Decide
    <3>2. rewrite \in BOOLEAN /\ up \in BOOLEAN
      BY <2>1 DEF Jobs, Running
    <3>3. pc \in Places /\ (rewrite => pc \in {"write", "stop"})
      BY <2>1, <3>2 DEF Jobs, Places
    <3> HIDE DEF rewrite, up, pc
    <3> QED
      BY <3>1, <3>2, <3>3
  <2>3. job' \in Jobs /\ job'.foreign = job.foreign /\ job'.pc = pc /\ job'.write = write
    BY <2>1, <2>2 DEF Jobs
  <2>4. JobType' /\ Built'
    BY <1>1, <2>1, <2>2, <2>3 DEF JobType, Built
  <2> QED
    BY <1>1, <1>2, <2>4 DEF IInv
<1> QED
  BY <1>3, <1>4

----------------------------------------------------------------------------
LEMMA ArrivesIInv == ASSUME IInv, Arrives PROVE IInv'
<1>1. job # Idle /\ job.pc \in {"stopped", "settle"}
  BY AtWork DEF Arrives, Places
<1> DEFINE pc == IF job.pc = "stopped" THEN "write" ELSE IF job.running THEN "start" ELSE "final"
<1>2. pc \in Places /\ (pc # "write" => job.pc = "settle")
  BY <1>1 DEF Places
<1>3. job' = [job EXCEPT !.pc = pc] /\ budget' = budget /\ nas' = nas
  BY DEF Arrives, Goto
<1> HIDE DEF pc
<1>4. /\ JobType' /\ job'.pc = pc /\ job'.doc = job.doc /\ job'.write = job.write
      /\ job'.foreign = job.foreign
  BY <1>1, <1>2, <1>3, MovedJob
<1>5. pc \in {"write", "start", "final"}
  BY DEF pc
<1>6. Built'
  BY <1>1, <1>2, <1>3, <1>4, <1>5 DEF IInv, Built, Undisturbed, Exists
<1> QED
  BY <1>3, <1>4, <1>6 DEF IInv, Arrives, NasType, StateType, BudgetType

LEMMA EndIInv == ASSUME IInv, Deleted \/ Vanished \/ Succeed \/ GivesUp PROVE IInv'
<1>1. job' = Idle /\ UNCHANGED <<nas, config>>
  BY DEF Deleted, Vanished, Succeed, GivesUp, Fail
<1>2. BudgetType'
  BY FaultBudget DEF IInv, BudgetType, Deleted, Vanished, Succeed, GivesUp
<1>3. StateType'
  <2>1. CASE Deleted
    BY <2>1 DEF Deleted, StateType, NotManaged, Docs
  <2>2. CASE Vanished \/ GivesUp
    BY <2>2 DEF IInv, Vanished, GivesUp, Fail, StateType
  <2>3. CASE Succeed
    <3>1. config.version \in Nat
      BY ConfigsAssumption DEF IInv
    <3>2. Reference \in Docs
      BY DEF Reference, IInv, StateType, NasType
    <3> QED
      BY <2>3, <3>1, <3>2, RecordedType DEF Succeed, StateType, IInv
  <2> QED
    BY <2>1, <2>2, <2>3
<1> QED
  BY <1>1, <1>2, <1>3, NoJob DEF IInv, NasType

\* DSM comes to rest with what it had built, or without the project.
LEMMA SettleIInv == ASSUME IInv, Settle PROVE IInv'
<1>1. BudgetType' /\ budget'.foreign = budget.foreign
  BY FaultBudget DEF Settle, IInv
<1>2. \/ nas' = NoProject
      \/ \E status \in Statuses : nas' = [nas EXCEPT !.status = status]
  BY DEF Settle, AtRest, Statuses
<1>3. NasType' /\ (Exists' => nas'.doc = nas.doc /\ nas'.deployed = nas.deployed)
  BY <1>2 DEF IInv, NasType, NoProject, Docs, Statuses, Exists
<1>4. Exists
  BY DEF Settle, Exists, Transient
<1>5. JobType' /\ Built'
  BY <1>1, <1>3, <1>4 DEF IInv, Settle, JobType, Built, Undisturbed
<1> QED
  BY <1>1, <1>3, <1>5 DEF IInv, Settle, StateType

\* Whatever the interface does is not this apply's doing.
LEMMA ForeignIInv == ASSUME IInv, Foreign PROVE IInv'
<1>1. BudgetType' /\ budget'.foreign < budget.foreign
  BY BoundsAssumption DEF Foreign, IInv, BudgetType
<1>2. NasType'
  BY DEF Foreign, IInv, NasType, NoProject, Docs, Statuses
<1>3. JobType' /\ (job # Idle => ~Undisturbed')
  BY <1>1 DEF Foreign, IInv, JobType, Jobs, BudgetType, Undisturbed
<1> QED
  BY <1>1, <1>2, <1>3 DEF Foreign, IInv, StateType, Built

LEMMA EditIInv == ASSUME IInv, EditConfig PROVE IInv'
  BY BoundsAssumption
  DEF EditConfig, IInv, NasType, StateType, JobType, BudgetType, Built, Undisturbed, Exists

----------------------------------------------------------------------------
\* The inductive step, one case per action.
THEOREM NextIInv == IInv /\ [Next]_vars => IInv'
<1> SUFFICES ASSUME IInv, [Next]_vars PROVE IInv'
  OBVIOUS
<1>1. CASE Work
  BY <1>1, WriteIInv, BuildIInv, StartIInv, StopIInv, DecideIInv, ArrivesIInv, EndIInv DEF Work
<1>2. CASE UNCHANGED vars
  BY <1>2 DEF vars, IInv, NasType, StateType, JobType, BudgetType, Built, Undisturbed, Exists
<1> QED
  BY <1>1, <1>2, RefreshIInv, BeginIInv, SettleIInv, ForeignIInv, EditIInv DEF Next

\* Types, and that a record made in write-only mode never holds a document.
THEOREM TypeCorrect == Spec => []TypeOK
<1>1. IInv => TypeOK
  BY DEF IInv, TypeOK, NasType, StateType, JobType, BudgetType, Jobs, Places, Statuses
<1> QED
  BY InitIInv, NextIInv, <1>1, PTL DEF Spec

\* A compose document that an apply wrote and reported as applied is the one the
\* containers were built from.
THEOREM BuiltAsWritten == Spec => WrittenIsBuilt
<1>1. IInv /\ [Next]_vars =>
          [Succeed /\ job.write /\ Undisturbed => nas.deployed = job.doc]_vars
  <2> SUFFICES ASSUME IInv, Succeed, job.write, Undisturbed PROVE nas.deployed = job.doc
    OBVIOUS
  <2>1. job # Idle /\ Exists /\ job.pc = "final"
    BY AtWork DEF Succeed, Polling, Places
  <2> QED
    BY <2>1 DEF IInv, Built
<1> QED
  BY InitIInv, NextIInv, <1>1, PTL DEF Spec, WrittenIsBuilt

----------------------------------------------------------------------------
(***************************************************************************)
(* Plans.                                                                  *)
(***************************************************************************)
\* Which steps belong to which operation.
Sequenced ==
    job # Idle =>
        /\ job.op = "delete" <=> job.pc \in {"delete", "gone"}
        /\ job.op = "setRunning" =>
               job.pc \in {"setRunning", "start", "stop", "final"} /\ ~job.write
        /\ job.pc \in {"register", "update"} => job.write

\* The configuration does not change under an apply.
AsPlanned ==
    job # Idle => job.doc = config.doc /\ job.running = config.running

\* An apply of the running state alone has a record, made of what DSM held, that leaves
\* no document to write, and as long as nobody else touches the project DSM holds it.
NothingToWrite ==
    job # Idle /\ job.op = "setRunning" =>
        /\ state.managed
        /\ ~ComposeWillChange(state, config, lastWritten)
        /\ state.doc = Shown(state.checksum, state.version)
        /\ Undisturbed /\ Exists => nas.doc = state.checksum

\* The document has not been looked at, or is still to be written.
Unwritten ==
    \/ job.pc \in {"register", "update"}
    \/ job.write /\ job.pc \in {"stop", "stopped", "write"}

\* From there on an edit that nobody has seen is gone, and another's edit is the only
\* way to another document.
Written ==
    job # Idle /\ job.op \in {"register", "update"} /\ ~Unwritten /\ Exists =>
        /\ nas.doc # Edited
        /\ Undisturbed => nas.doc = job.doc

\* A project has a document, what Terraform manages has a reference, and in write-only
\* mode the reference is no document of DSM's interface.
Known ==
    /\ Exists => nas.doc # NoDoc
    /\ state.managed => lastWritten # NoDoc
    /\ state.managed /\ state.version > 0 => lastWritten # Edited

\* Inductive together with IInv.
PlanInv == Sequenced /\ AsPlanned /\ NothingToWrite /\ Written /\ Known

\* No job has nothing to answer for.
LEMMA NoPlan ==
  ASSUME job' = Idle, Known'
  PROVE  PlanInv'
  BY DEF PlanInv, Sequenced, AsPlanned, NothingToWrite, Written

\* What is known stays known while only DSM moves, within one document.
LEMMA KnownStays ==
  ASSUME Known, UNCHANGED <<state, lastWritten>>, Exists' => nas'.doc # NoDoc
  PROVE  Known'
  BY DEF Known

\* A job that moves on within its operation.
LEMMA PlanMoves ==
  ASSUME NEW pc \in Places, IInv, PlanInv, job # Idle, job' = [job EXCEPT !.pc = pc],
         budget'.foreign = budget.foreign, UNCHANGED <<config, state, lastWritten>>,
         job.op = "delete" <=> pc \in {"delete", "gone"},
         job.op = "setRunning" => pc \in {"start", "stop", "final"},
         pc \notin {"register", "update"},
         Exists' => nas'.doc # NoDoc,
         job.op = "setRunning" /\ Exists' => Exists /\ nas'.doc = nas.doc,
         Written'
  PROVE  PlanInv'
<1>1. /\ JobType' /\ job' # Idle
      /\ job'.pc = pc /\ job'.doc = job.doc /\ job'.write = job.write
      /\ job'.foreign = job.foreign /\ job'.running = job.running /\ job'.op = job.op
  BY MovedJob
<1>2. Sequenced'
  BY <1>1 DEF PlanInv, Sequenced
<1>3. AsPlanned'
  BY <1>1 DEF PlanInv, AsPlanned
<1>4. NothingToWrite'
  <2> SUFFICES ASSUME job'.op = "setRunning" PROVE NothingToWrite'
    BY DEF NothingToWrite
  <2>1. ComposeWillChange(state, config, lastWritten)'
            = ComposeWillChange(state, config, lastWritten)
    BY DEF ComposeWillChange, Shown
  <2> QED
    BY <1>1, <2>1 DEF PlanInv, NothingToWrite, Undisturbed, Shown
<1> QED
  BY <1>2, <1>3, <1>4, KnownStays DEF PlanInv

\* An operation that begins, and has not looked at the project yet.
LEMMA PlanBegins ==
  ASSUME NEW pc \in {"register", "update", "delete"}, NEW write \in BOOLEAN,
         IInv, job' = Operation(pc, write), UNCHANGED <<nas, config>>,
         pc # "delete" => write, Known'
  PROVE  PlanInv'
<1>1. job' \in Jobs /\ job'.pc = pc
  BY OperationType DEF IInv
<1>2. /\ job'.op = pc /\ job'.write = write /\ job'.doc = config.doc
      /\ job'.running = config.running
  BY DEF Operation
<1> QED
  BY <1>1, <1>2 DEF PlanInv, Sequenced, AsPlanned, NothingToWrite, Written, Unwritten

LEMMA InitPlan == Init => PlanInv
  BY DEF Init, PlanInv, Sequenced, AsPlanned, NothingToWrite, Written, Known, NotManaged,
         NoProject, Exists

\* A project that exists has a record that says so.
LEMMA RecordedFields ==
  ASSUME NEW version
  PROVE  /\ Recorded(version).managed /\ Recorded(version).version = version
         /\ Recorded(version).checksum = nas.doc
         /\ Recorded(version).doc = Shown(nas.doc, version)
  BY DEF Recorded

\* Between operations there is no job.
LEMMA AtIdle ==
  ASSUME IInv, At("idle")
  PROVE  job = Idle
  BY IdlePc DEF IInv, JobType, At

LEMMA RefreshPlan == ASSUME IInv, PlanInv, Refresh PROVE PlanInv'
<1>1. CASE /\ Exists
           /\ state' = Recorded(state.version)
           /\ lastWritten' = IF lastWritten = NoDoc THEN nas.doc ELSE lastWritten
           /\ job' = Planned(state', lastWritten')
           /\ UNCHANGED budget
  <2>1. /\ state'.managed /\ state'.version = state.version /\ state'.checksum = nas.doc
        /\ state'.doc = Shown(nas.doc, state.version)
    BY <1>1, RecordedFields
  <2>2. lastWritten' = lastWritten /\ UNCHANGED <<nas, config, budget>>
    BY <1>1 DEF Refresh, PlanInv, Known
  <2>3. Known'
    BY <1>1, <2>1, <2>2 DEF PlanInv, Known, Exists, Refresh
  <2>4. CASE ComposeWillChange(state', config, lastWritten')
    <3>1. job' = Operation("update", TRUE)
      BY <1>1, <2>4 DEF Planned
    <3> QED
      BY <2>2, <2>3, <3>1, PlanBegins
  <2>5. CASE ~ComposeWillChange(state', config, lastWritten') /\ state'.running # config.running
    <3>1. job' = Operation("setRunning", FALSE)
      BY <1>1, <2>5 DEF Planned
    <3>2. /\ job'.op = "setRunning" /\ job'.pc = "setRunning" /\ ~job'.write
          /\ job'.doc = config.doc /\ job'.running = config.running
      BY <3>1 DEF Operation
    <3>3. ComposeWillChange(state, config, lastWritten)'
              = ComposeWillChange(state', config, lastWritten')
      BY <2>2 DEF ComposeWillChange, Shown
    <3>4. NothingToWrite'
      BY <2>1, <2>2, <2>5, <3>3 DEF NothingToWrite, Shown
    <3>5. Sequenced' /\ AsPlanned' /\ Written'
      BY <2>2, <3>2 DEF Sequenced, AsPlanned, Written
    <3> QED
      BY <2>3, <3>4, <3>5 DEF PlanInv
  <2>6. CASE ~ComposeWillChange(state', config, lastWritten') /\ state'.running = config.running
    <3>1. job' = Idle
      BY <1>1, <2>6 DEF Planned
    <3> QED
      BY <2>3, <3>1, NoPlan
  <2> QED
    BY <2>4, <2>5, <2>6
<1>2. CASE ~Exists /\ state' = NotManaged /\ lastWritten' = NoDoc /\ UNCHANGED <<job, budget>>
  <2>1. job' = Idle
    BY <1>2, AtIdle DEF Refresh
  <2>2. Known'
    BY <1>2 DEF Known, NotManaged, Refresh, Exists
  <2> QED
    BY <2>1, <2>2, NoPlan
<1>3. CASE Fault("read") /\ UNCHANGED <<state, lastWritten, job>>
  <2>1. job' = Idle
    BY <1>3, AtIdle DEF Refresh
  <2>2. Known'
    BY <1>3 DEF PlanInv, Known, Refresh, Exists
  <2> QED
    BY <2>1, <2>2, NoPlan
<1> QED
  BY <1>1, <1>2, <1>3 DEF Refresh

LEMMA BeginPlan == ASSUME IInv, PlanInv, BeginCreate \/ Import \/ Destroy PROVE PlanInv'
<1>1. job = Idle
  BY AtIdle DEF BeginCreate, Import, Destroy
<1>2. CASE BeginCreate
  <2>1. Known' /\ job' = Operation("register", TRUE) /\ UNCHANGED <<nas, config, budget>>
    BY <1>2 DEF BeginCreate, PlanInv, Known, Exists
  <2> QED
    BY <2>1, PlanBegins
<1>3. CASE Import
  <2>1. state' = Recorded(0) /\ lastWritten' = nas.doc /\ nas' = nas /\ Exists /\ job' = job
    BY <1>3 DEF Import
  <2>2. Known'
    BY <2>1, RecordedFields DEF PlanInv, Known, Exists
  <2> QED
    BY <1>1, <2>1, <2>2, NoPlan
<1>4. CASE Destroy
  <2>1. CASE state' = NotManaged /\ lastWritten' = NoDoc /\ UNCHANGED job
    <3>1. Known'
      BY <1>4, <2>1 DEF Destroy, PlanInv, Known, Exists, NotManaged
    <3> QED
      BY <1>1, <2>1, <3>1, NoPlan
  <2>2. CASE job' = Operation("delete", FALSE) /\ UNCHANGED <<state, lastWritten>>
    <3>1. Known'
      BY <1>4, <2>2 DEF Destroy, PlanInv, Known, Exists
    <3>2. UNCHANGED <<nas, config>> /\ budget'.foreign = budget.foreign
      BY <1>4 DEF Destroy, IInv, BudgetType
    <3> QED
      BY <2>2, <3>1, <3>2, PlanBegins
  <2> QED
    BY <1>4, <2>1, <2>2 DEF Destroy
<1> QED
  BY <1>2, <1>3, <1>4

\* A step that leaves the document alone leaves what is said of it.
LEMMA WrittenStays ==
  ASSUME IInv, PlanInv, job # Idle, NEW pc \in Places, job' = [job EXCEPT !.pc = pc],
         budget'.foreign = budget.foreign,
         Exists' => Exists /\ nas'.doc = nas.doc,
         Unwritten => \/ pc \in {"register", "update"}
                      \/ job.write /\ pc \in {"stop", "stopped", "write"}
  PROVE  Written'
<1>1. /\ job'.pc = pc /\ job'.doc = job.doc /\ job'.write = job.write
      /\ job'.foreign = job.foreign /\ job'.op = job.op
  BY MovedJob
<1> QED
  BY <1>1 DEF PlanInv, Written, Unwritten, Undisturbed

LEMMA WritePlan == ASSUME IInv, PlanInv, Register \/ WriteCompose PROVE PlanInv'
<1>1. job \in Jobs /\ job # Idle /\ job.pc \in {"register", "write"}
  BY AtWork DEF Register, WriteCompose, At, IInv, JobType, Places
<1>2. budget'.foreign = budget.foreign /\ UNCHANGED <<config, state, lastWritten>>
  BY FaultBudget DEF Register, WriteCompose, Call, IInv
<1>3. job.op \in {"register", "update"}
  BY <1>1 DEF Jobs, PlanInv, Sequenced
<1>4. job.doc # NoDoc /\ job.doc # Edited /\ Empty # NoDoc
  BY <1>1, ConfigsAssumption DEF PlanInv, AsPlanned, IInv, NoDoc, Empty
<1>5. nas' = nas \/ nas'.doc = Empty \/ nas'.doc = job.doc
  BY DEF Register, WriteCompose, Call, IInv, NasType
<1>6. Exists' => nas'.doc # NoDoc
  <2>1. nas' = nas => (Exists' <=> Exists)
    BY DEF Exists
  <2> QED
    BY <1>4, <1>5, <2>1 DEF PlanInv, Known
<1>7. CASE job' = Idle
  BY <1>2, <1>6, <1>7, KnownStays, NoPlan DEF PlanInv
<1>8. CASE Register /\ job' = [job EXCEPT !.pc = "write"]
  <2>1. "write" \in Places
    BY DEF Places
  <2>2. job.pc = "register" /\ job.write
    BY <1>8, <1>1 DEF Register, At, PlanInv, Sequenced
  <2>3. Written'
    <3>1. job'.pc = "write" /\ job'.write = job.write
      BY <1>1, <1>2, <1>8, <2>1, MovedJob
    <3> QED
      BY <2>2, <3>1 DEF Written, Unwritten
  <2> QED
    BY <1>1, <1>2, <1>3, <1>6, <1>8, <2>1, <2>3, PlanMoves
<1>9. CASE WriteCompose /\ job' = [job EXCEPT !.pc = "build"]
  <2>1. "build" \in Places
    BY DEF Places
  <2>2. /\ job'.pc = "build" /\ job'.doc = job.doc
    BY <1>1, <1>2, <1>9, <2>1, MovedJob
  <2>3. nas'.doc = job.doc
    <3>1. nas' = [nas EXCEPT !.doc = job.doc]
      BY <1>9, <2>2, IdlePc DEF WriteCompose, Call
    <3> QED
      BY <3>1 DEF IInv, NasType
  <2>4. Written'
    BY <1>4, <2>2, <2>3 DEF Written
  <2> QED
    BY <1>1, <1>2, <1>3, <1>6, <1>9, <2>1, <2>4, PlanMoves
<1> QED
  BY <1>7, <1>8, <1>9 DEF Register, WriteCompose, Call, AfterWrite

\* A lifecycle call does not touch the document.
LEMMA LifecyclePlan ==
  ASSUME IInv, PlanInv, job # Idle, NEW effect, NEW next \in Places, Lifecycle(effect, next),
         effect.doc = nas.doc,
         job.op = "delete" <=> next \in {"delete", "gone"},
         job.op = "setRunning" => next \in {"start", "stop", "final"},
         next \notin {"register", "update"},
         Unwritten => job.write /\ next \in {"stop", "stopped", "write"}
  PROVE  PlanInv'
<1>1. budget'.foreign = budget.foreign /\ UNCHANGED <<config, state, lastWritten>>
  BY FaultBudget DEF Lifecycle, IInv
<1>2. Exists /\ nas'.doc = nas.doc
  BY DEF Lifecycle
<1>3. Exists' => nas'.doc # NoDoc
  BY <1>2 DEF PlanInv, Known
<1>4. CASE job' = Idle
  BY <1>1, <1>3, <1>4, KnownStays, NoPlan DEF PlanInv
<1>5. CASE job' = [job EXCEPT !.pc = next]
  BY <1>1, <1>2, <1>3, <1>5, WrittenStays, PlanMoves
<1> QED
  BY <1>4, <1>5 DEF Lifecycle, Goto

LEMMA DeployPlan == ASSUME IInv, PlanInv, Build \/ Start \/ Stop \/ Delete PROVE PlanInv'
<1>1. job \in Jobs /\ job # Idle
  BY AtWork DEF Build, Start, Stop, Delete, At, IInv, JobType, Places
<1>2. /\ job.op = "delete" <=> job.pc \in {"delete", "gone"}
      /\ job.op = "setRunning" =>
             job.pc \in {"setRunning", "start", "stop", "final"} /\ ~job.write
  BY <1>1 DEF PlanInv, Sequenced
<1>3. CASE Build
  <2> DEFINE effect == [nas EXCEPT !.deployed = nas.doc, !.status = "BUILDING"]
  <2>1. Lifecycle(effect, "settle") /\ job.pc = "build" /\ effect.doc = nas.doc
    BY <1>3 DEF Build, At, IInv, NasType
  <2> HIDE DEF effect
  <2> QED
    BY <1>1, <1>2, <2>1, LifecyclePlan DEF Places, Unwritten
<1>4. CASE Start
  <2> DEFINE effect == [nas EXCEPT !.status = "STARTING"]
  <2>1. Lifecycle(effect, "final") /\ job.pc = "start" /\ effect.doc = nas.doc
    BY <1>4 DEF Start, At, IInv, NasType
  <2> HIDE DEF effect
  <2> QED
    BY <1>1, <1>2, <2>1, LifecyclePlan DEF Places, Unwritten
<1>5. CASE Stop
  <2> DEFINE effect == [nas EXCEPT !.status = "STOPPING"]
             next == IF job.write THEN "stopped" ELSE "final"
  <2>1. Lifecycle(effect, next) /\ job.pc = "stop" /\ effect.doc = nas.doc
    BY <1>5 DEF Stop, At, IInv, NasType
  <2>2. IF job.write THEN next = "stopped" ELSE next = "final"
    OBVIOUS
  <2> HIDE DEF effect, next
  <2> QED
    BY <1>1, <1>2, <2>1, <2>2, LifecyclePlan DEF Places, Unwritten
<1>6. CASE Delete
  <2> DEFINE effect == [nas EXCEPT !.status = "DELETING"]
  <2>1. Lifecycle(effect, "gone") /\ job.pc = "delete" /\ effect.doc = nas.doc
    BY <1>6 DEF Delete, At, IInv, NasType
  <2> HIDE DEF effect
  <2> QED
    BY <1>1, <1>2, <2>1, LifecyclePlan DEF Places, Unwritten
<1> QED
  BY <1>3, <1>4, <1>5, <1>6

\* What is compared is not written only if it is the configured document.
LEMMA DecidePlan == ASSUME IInv, PlanInv, Decide PROVE PlanInv'
<1>1. job \in Jobs /\ job # Idle
  BY AtWork DEF Decide, IInv, JobType, Places
<1>2. budget'.foreign = budget.foreign /\ UNCHANGED <<nas, config, state, lastWritten>>
  BY FaultBudget DEF Decide, IInv
<1>3. Known'
  BY <1>2, KnownStays DEF PlanInv, Known, Exists
<1>4. CASE job' = Idle
  BY <1>3, <1>4, NoPlan
<1>5. CASE job' # Idle
  <2>1. PICK write \in BOOLEAN, pc \in Places :
            /\ job' = [job EXCEPT !.write = write, !.pc = pc]
            /\ write <=> job.write /\ nas.doc # job.doc
            /\ IF write THEN pc \in {"write", "stop"} ELSE pc \in {"stop", "start", "final"}
    <3> DEFINE rewrite == job.write /\ nas.doc # job.doc
               up == Running(nas.status)
               pc == CASE rewrite /\ ~up -> "write"
                       [] up /\ (rewrite \/ ~job.running) -> "stop"
                       [] ~rewrite /\ ~up /\ job.running -> "start"
                       [] OTHER -> "final"
    <3>1. job' = [job EXCEPT !.write = rewrite, !.pc = pc]
      BY <1>5 DEF Decide
    <3>2. rewrite \in BOOLEAN /\ up \in BOOLEAN
      BY <1>1 DEF Jobs, Running
    <3>3. IF rewrite THEN pc \in {"write", "stop"} ELSE pc \in {"stop", "start", "final"}
      BY <1>1, <3>2 DEF Jobs
    <3>4. rewrite <=> job.write /\ nas.doc # job.doc
      OBVIOUS
    <3> HIDE DEF rewrite, up, pc
    <3>5. pc \in Places
      BY <3>3 DEF Places
    <3> QED
      BY <3>1, <3>2, <3>3, <3>4, <3>5
  <2>2. /\ job'.pc = pc /\ job'.write = write /\ job'.op = job.op /\ job'.doc = job.doc
        /\ job'.running = job.running /\ job'.foreign = job.foreign
    BY <1>1, <2>1 DEF Jobs
  <2>3. job.op # "delete" /\ job.pc \in {"update", "setRunning"}
    BY <1>1 DEF Decide, PlanInv, Sequenced
  <2>4. Sequenced' /\ AsPlanned'
    BY <1>1, <1>2, <2>1, <2>2, <2>3 DEF PlanInv, Sequenced, AsPlanned
  <2>5. NothingToWrite'
    <3>1. ComposeWillChange(state, config, lastWritten)'
              = ComposeWillChange(state, config, lastWritten)
      BY <1>2 DEF ComposeWillChange, Shown
    <3> QED
      BY <1>1, <1>2, <2>2, <3>1 DEF PlanInv, NothingToWrite, Undisturbed, Shown, Exists
  <2>6. Written'
    <3> SUFFICES ASSUME job.op \in {"register", "update"}, ~write, Exists
                 PROVE  nas.doc # Edited /\ (Undisturbed => nas.doc = job.doc)
      BY <1>2, <2>1, <2>2 DEF Written, Unwritten, Undisturbed, Exists
    <3>1. CASE nas.doc = job.doc
      BY <1>1, <3>1, ConfigsAssumption DEF PlanInv, AsPlanned, IInv
    <3>2. CASE ~job.write
      BY <1>1, <2>3, <3>2 DEF PlanInv, Sequenced, Written, Unwritten
    <3> QED
      BY <2>1, <3>1, <3>2
  <2> QED
    BY <1>3, <2>4, <2>5, <2>6 DEF PlanInv
<1> QED
  BY <1>4, <1>5

LEMMA ArrivesPlan == ASSUME IInv, PlanInv, Arrives PROVE PlanInv'
<1>1. job \in Jobs /\ job # Idle /\ job.pc \in {"stopped", "settle"}
  BY AtWork DEF Arrives, IInv, JobType, Places
<1> DEFINE pc == IF job.pc = "stopped" THEN "write" ELSE IF job.running THEN "start" ELSE "final"
<1>2. pc \in Places /\ pc \in {"write", "start", "final"} /\ (job.pc = "stopped" => pc = "write")
  BY DEF Places
<1>3. job' = [job EXCEPT !.pc = pc] /\ UNCHANGED <<nas, config, state, lastWritten, budget>>
  BY DEF Arrives, Goto
<1> HIDE DEF pc
<1>4. job.op \in {"register", "update"}
  BY <1>1 DEF PlanInv, Sequenced, Jobs
<1>5. Written'
  BY <1>1, <1>2, <1>3, WrittenStays DEF Exists, Unwritten
<1>6. Exists' => nas'.doc # NoDoc
  BY <1>3 DEF PlanInv, Known, Exists
<1> QED
  BY <1>1, <1>2, <1>3, <1>4, <1>5, <1>6, PlanMoves

\* Only an apply of the document moves the reference, and by then it has no edit that
\* nobody has seen.
LEMMA EndPlan == ASSUME IInv, PlanInv, Deleted \/ Vanished \/ Succeed \/ GivesUp PROVE PlanInv'
<1>1. job' = Idle /\ UNCHANGED <<nas, config>>
  BY DEF Deleted, Vanished, Succeed, GivesUp, Fail
<1>2. CASE Deleted
  BY <1>1, <1>2, NoPlan DEF Deleted, Known, NotManaged, PlanInv, Exists
<1>3. CASE Vanished \/ GivesUp
  <2>1. Known'
    BY <1>1, <1>3 DEF Vanished, GivesUp, Fail, PlanInv, Known, Exists
  <2> QED
    BY <1>1, <2>1, NoPlan
<1>4. CASE Succeed
  <2>1. job \in Jobs /\ job # Idle /\ job.pc = "final" /\ Exists
    BY <1>4, AtWork DEF Succeed, Polling, IInv, JobType, Places
  <2>2. state' = Recorded(config.version) /\ lastWritten' = Reference
    BY <1>4 DEF Succeed
  <2>3. CASE job.op = "setRunning"
    <3>1. lastWritten' = lastWritten /\ state.managed /\ config.version = state.version
      BY <2>1, <2>2, <2>3 DEF Reference, PlanInv, NothingToWrite, ComposeWillChange
    <3>2. Known'
      BY <1>1, <2>1, <2>2, <3>1, RecordedFields DEF PlanInv, Known, Exists
    <3> QED
      BY <1>1, <3>2, NoPlan
  <2>4. CASE job.op # "setRunning"
    <3>1. lastWritten' = nas.doc /\ job.op \in {"register", "update"} /\ ~Unwritten
      BY <2>1, <2>2, <2>4 DEF Reference, PlanInv, Sequenced, Jobs, Unwritten
    <3>2. Known'
      BY <1>1, <2>1, <3>1 DEF PlanInv, Known, Written, Exists
    <3> QED
      BY <1>1, <3>2, NoPlan
  <2> QED
    BY <2>3, <2>4
<1> QED
  BY <1>2, <1>3, <1>4

\* What happens to the project leaves a job where it is.
LEMMA OutsidePlan == ASSUME IInv, PlanInv, Settle \/ Foreign PROVE PlanInv'
<1>1. UNCHANGED <<config, state, lastWritten, job>> /\ Exists
  BY DEF Settle, Foreign, Exists, Transient
<1>2. \/ budget'.foreign = budget.foreign /\ (Exists' => nas'.doc = nas.doc)
      \/ /\ budget'.foreign < budget.foreign
         /\ Exists' => \/ nas'.doc = nas.doc
                       \/ nas'.doc = IF BeingApplied THEN EditedLate ELSE Edited
  <2>1. CASE Settle
    <3>1. budget'.foreign = budget.foreign
      BY <2>1, FaultBudget DEF Settle, IInv
    <3>2. nas' = NoProject \/ \E status : nas' = [nas EXCEPT !.status = status]
      BY <2>1 DEF Settle, AtRest
    <3> QED
      BY <3>1, <3>2 DEF IInv, NasType, NoProject, Exists
  <2>2. CASE Foreign
    <3>1. budget'.foreign < budget.foreign
      BY <2>2, BoundsAssumption DEF Foreign, IInv, BudgetType
    <3> QED
      BY <2>2, <3>1 DEF Foreign, IInv, NasType, NoProject, Exists
  <2> QED
    BY <2>1, <2>2
<1>3. Known'
  <2>1. NoDoc \notin {Edited, EditedLate}
    BY DEF NoDoc, Edited, EditedLate
  <2> QED
    BY <1>1, <1>2, <2>1 DEF PlanInv, Known
<1>4. CASE job = Idle
  BY <1>1, <1>3, <1>4, NoPlan
<1>5. CASE job # Idle
  <2>1. job \in Jobs /\ budget.foreign <= job.foreign /\ job.pc # "idle"
    BY <1>5, IdlePc DEF IInv, JobType
  <2>2. Undisturbed' => Undisturbed /\ (Exists' => nas'.doc = nas.doc)
    BY <1>1, <1>2, <2>1 DEF Undisturbed, Jobs, IInv, BudgetType
  <2>3. Sequenced' /\ AsPlanned'
    BY <1>1 DEF PlanInv, Sequenced, AsPlanned
  <2>4. NothingToWrite'
    <3>1. ComposeWillChange(state, config, lastWritten)'
              = ComposeWillChange(state, config, lastWritten)
      BY <1>1 DEF ComposeWillChange, Shown
    <3> QED
      BY <1>1, <2>2, <3>1 DEF PlanInv, NothingToWrite, Shown
  <2>5. Written'
    <3> SUFFICES ASSUME job.op \in {"register", "update"}, ~Unwritten, Exists'
                 PROVE  nas'.doc # Edited /\ (Undisturbed' => nas'.doc = job.doc)
      BY <1>1 DEF Written, Unwritten
    <3>1. BeingApplied
      BY <2>1 DEF BeingApplied, Unwritten
    <3>2. nas'.doc # Edited
      BY <1>1, <1>2, <1>5, <3>1 DEF PlanInv, Written, Edited, EditedLate
    <3> QED
      BY <1>1, <1>5, <2>2, <3>2 DEF PlanInv, Written
  <2> QED
    BY <1>3, <2>3, <2>4, <2>5 DEF PlanInv
<1> QED
  BY <1>4, <1>5

LEMMA EditPlan == ASSUME IInv, PlanInv, EditConfig PROVE PlanInv'
<1>1. job' = Idle
  BY AtIdle DEF EditConfig
<1>2. Known'
  BY DEF EditConfig, PlanInv, Known, Exists
<1> QED
  BY <1>1, <1>2, NoPlan

THEOREM NextPlan == IInv /\ PlanInv /\ [Next]_vars => PlanInv'
<1> SUFFICES ASSUME IInv, PlanInv, [Next]_vars PROVE PlanInv'
  OBVIOUS
<1>1. CASE Work
  BY <1>1, WritePlan, DeployPlan, DecidePlan, ArrivesPlan, EndPlan DEF Work
<1>2. CASE UNCHANGED vars
  BY <1>2
  DEF vars, PlanInv, Sequenced, AsPlanned, NothingToWrite, Written, Known, Unwritten, Undisturbed,
      Exists, ComposeWillChange, Shown
<1> QED
  BY <1>1, <1>2, RefreshPlan, BeginPlan, OutsidePlan, EditPlan DEF Next

\* Where a plan is empty, the document is the configured one or the one last written,
\* and neither is an edit of DSM's interface.
LEMMA EmptyPlanSeesEdits == ASSUME IInv, PlanInv PROVE DriftIsNoticed
<1> SUFFICES ASSUME state.managed, Planned(Recorded(state.version), lastWritten).pc = "idle",
                    nas.doc = Edited
             PROVE  FALSE
  BY DEF DriftIsNoticed
<1>1. ~ComposeWillChange(Recorded(state.version), config, lastWritten)
  BY DEF Planned, Operation
<1>2. /\ Shown(config.doc, config.version) = Shown(Edited, state.version)
      /\ config.version = state.version
      /\ config.version > 0 => lastWritten = NoDoc \/ lastWritten = Edited
  BY <1>1, RecordedFields DEF ComposeWillChange
<1>3. config.doc # Edited
  BY ConfigsAssumption DEF IInv
<1>4. CASE config.version > 0
  BY <1>2, <1>4 DEF PlanInv, Known
<1>5. CASE ~(config.version > 0)
  BY <1>2, <1>3, <1>5 DEF Shown
<1> QED
  BY <1>4, <1>5

\* What an apply records is what was planned.
LEMMA SuccessIsPlanned ==
  ASSUME IInv, PlanInv, Succeed, Undisturbed, job.running \/ nas.status # "WARNING"
  PROVE  Planned(state', lastWritten').pc = "idle"
<1>1. job \in Jobs /\ job # Idle /\ job.pc = "final" /\ Exists
  BY AtWork DEF Succeed, Polling, IInv, JobType, Places
<1>2. /\ state'.version = config.version /\ state'.checksum = nas.doc
      /\ state'.doc = Shown(nas.doc, config.version) /\ state'.running = Running(nas.status)
  BY RecordedFields DEF Succeed, Recorded
<1>3. state'.running = config.running
  <2>1. job.running = config.running /\ job.running \in BOOLEAN
    BY <1>1 DEF PlanInv, AsPlanned, Jobs
  <2>2. Reached(nas.status, job.running)
    BY <1>1 DEF Succeed, Awaited
  <2>3. Running(nas.status) = job.running
    BY <2>1, <2>2 DEF Reached, Running
  <2> QED
    BY <1>2, <2>1, <2>3
<1>4. ~ComposeWillChange(state', config, lastWritten')
  <2>1. CASE job.op = "setRunning"
    <3>1. /\ lastWritten' = lastWritten /\ nas.doc = state.checksum
          /\ state.doc = Shown(nas.doc, state.version)
          /\ ~ComposeWillChange(state, config, lastWritten)
      BY <1>1, <2>1 DEF Succeed, Reference, PlanInv, NothingToWrite
    <3> QED
      BY <1>2, <3>1 DEF ComposeWillChange
  <2>2. CASE job.op # "setRunning"
    <3>1. lastWritten' = nas.doc /\ job.op \in {"register", "update"} /\ ~Unwritten
      BY <1>1, <2>2 DEF Succeed, Reference, PlanInv, Sequenced, Jobs, Unwritten
    <3>2. nas.doc = config.doc
      BY <1>1, <3>1 DEF PlanInv, Written, AsPlanned
    <3> QED
      BY <1>2, <3>1, <3>2 DEF ComposeWillChange
  <2> QED
    BY <2>1, <2>2
<1> QED
  BY <1>3, <1>4 DEF Planned, Idle

\* An empty plan means that there is nothing to do: no document edited in DSM's
\* interface is taken for the configured one, and what an apply has reported done
\* leaves nothing for the next, write-only documents included.
THEOREM EmptyPlans == Spec => PlansAreTrue
<1>1. IInv /\ PlanInv => DriftIsNoticed
  BY EmptyPlanSeesEdits
<1>2. IInv /\ PlanInv /\ [Next]_vars =>
          [Succeed /\ Undisturbed /\ (job.running \/ nas.status # "WARNING")
              => Planned(state', lastWritten').pc = "idle"]_vars
  BY SuccessIsPlanned
<1> QED
  BY InitIInv, NextIInv, InitPlan, NextPlan, <1>1, <1>2, PTL
  DEF Spec, PlansAreTrue, SuccessLeavesNothingToDo
=============================================================================
