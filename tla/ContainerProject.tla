-------------------------- MODULE ContainerProject --------------------------
(***************************************************************************)
(* One Container Manager project: the call sequences of                    *)
(* client/container_project.go, what                                       *)
(* provider/resource_container_project.go plans and records around them,   *)
(* and the DSM that performs them in its own time.                         *)
(*                                                                         *)
(* A compose document is a name, and its checksum is the document.  The    *)
(* lock of client/container_project.go keeps projects apart, which share   *)
(* nothing else; Terraform never runs two operations on one resource.      *)
(***************************************************************************)
EXTENDS Naturals

CONSTANTS
    Configs,     \* what the configuration may come to say, the first of them InitConfig
    InitConfig,
    OneShot,     \* documents with a container that exits when its work is done
    Faults,      \* what may go wrong, a subset of FaultKinds
    MaxFaults,   \* bound: how many times something goes wrong
    MaxEdits,    \* bound: how many times the configuration is edited
    MaxForeign   \* bound: how many times DSM's interface changes the project

FaultKinds == {"read", "refused", "lost", "slow", "failed"}

NoDoc == "no document"
Empty == "empty"       \* a project is registered with an empty document
Edited == "edited"     \* what DSM's own interface makes of a document ...
EditedLate == "late"   \* ... and what it makes of one that is being applied

ASSUME FaultsAssumption == Faults \subseteq FaultKinds
\* A configured document is not empty, nor what DSM's interface makes of one.
ASSUME ConfigsAssumption ==
    /\ InitConfig \in Configs
    /\ \A c \in Configs : /\ c.version \in Nat /\ c.running \in BOOLEAN
                          /\ c.doc \notin {NoDoc, Edited}
ASSUME BoundsAssumption == MaxFaults \in Nat /\ MaxEdits \in Nat /\ MaxForeign \in Nat

VARIABLES
    nas,          \* the project as DSM has it: [doc, deployed, status]
    config,       \* [doc, version, running]; version 0 means compose_yaml, not compose_yaml_wo
    state,        \* Terraform's record: [managed, doc, version, running, checksum]
    lastWritten,  \* the checksum in the resource's private state
    job,          \* where the apply under way is
    budget        \* what is left of the bounds

vars == <<nas, config, state, lastWritten, job, budget>>

NoProject == [doc |-> NoDoc, deployed |-> NoDoc, status |-> "ABSENT"]

NotManaged ==
    [managed |-> FALSE, doc |-> NoDoc, version |-> 0, running |-> FALSE, checksum |-> NoDoc]

Idle == [pc |-> "idle"]

Init ==
    /\ nas = NoProject
    /\ config = InitConfig
    /\ state = NotManaged
    /\ lastWritten = NoDoc
    /\ job = Idle
    /\ budget = [faults |-> MaxFaults, edits |-> MaxEdits, foreign |-> MaxForeign]

Exists == nas.status # "ABSENT"

Transient == {"BUILDING", "STARTING", "STOPPING", "DELETING"}

\* Mutant: up means all of its containers are.
RunningOutright(status) == status = "RUNNING"

\* Some containers up and some not is up: a one-shot container has done its work.
Running(status) == status \in {"RUNNING", "WARNING"}

\* ... and it is down as well, since it is how such a project looks when stopped.
Reached(status, running) ==
    /\ status \notin Transient
    /\ IF running THEN Running(status) ELSE status # "RUNNING"

At(pc) == job.pc = pc

Goto(pc) == job' = [job EXCEPT !.pc = pc]

Fault(kind) ==
    /\ kind \in Faults
    /\ budget.faults > 0
    /\ budget' = [budget EXCEPT !.faults = @ - 1]

\* A failed operation leaves Terraform's record as it was.
Fail == job' = Idle /\ UNCHANGED <<config, state, lastWritten>>

----------------------------------------------------------------------------
(***************************************************************************)
(* Refresh and plan.                                                       *)
(***************************************************************************)
\* Mutant: the document is recorded however it is configured.
ShownAlways(doc, version) == doc

\* compose_yaml_wo is null in every plan and every state.
Shown(doc, version) == IF version > 0 THEN NoDoc ELSE doc

\* applyContainerProjectToResourceModel
Recorded(version) ==
    [managed |-> TRUE, doc |-> Shown(nas.doc, version), version |-> version,
     running |-> Running(nas.status), checksum |-> nas.doc]

\* A write-only document is compared with the last one written.
ComposeWillChange(s, c, written) ==
    \/ Shown(c.doc, c.version) # s.doc
    \/ c.version # s.version
    \/ c.version > 0 /\ written # NoDoc /\ written # s.checksum

\* An apply that begins: what the plan made of it is carried out later.
Operation(pc, write) ==
    [pc |-> pc, op |-> pc, write |-> write, doc |-> config.doc, running |-> config.running,
     foreign |-> budget.foreign]

Planned(s, written) ==
    IF ComposeWillChange(s, config, written) THEN Operation("update", TRUE)
    ELSE IF s.running # config.running THEN Operation("setRunning", FALSE)
    ELSE Idle

\* Read, and the first read of a project adopts its document as the reference.
Refresh ==
    /\ At("idle")
    /\ state.managed
    /\ \/ /\ Exists
          /\ state' = Recorded(state.version)
          /\ lastWritten' = IF lastWritten = NoDoc THEN nas.doc ELSE lastWritten
          /\ job' = Planned(state', lastWritten')
          /\ UNCHANGED budget
       \/ /\ ~Exists
          /\ state' = NotManaged
          /\ lastWritten' = NoDoc
          /\ UNCHANGED <<job, budget>>
       \/ Fault("read") /\ UNCHANGED <<state, lastWritten, job>>
    /\ UNCHANGED <<nas, config>>

\* A project that is there already has to be imported, and nobody else makes one.
BeginCreate ==
    /\ At("idle")
    /\ ~state.managed
    /\ ~Exists
    /\ job' = Operation("register", TRUE)
    /\ UNCHANGED <<nas, config, state, lastWritten, budget>>

Import ==
    /\ At("idle")
    /\ ~state.managed
    /\ Exists
    /\ state' = Recorded(0)
    /\ lastWritten' = nas.doc
    /\ UNCHANGED <<nas, config, job, budget>>

\* Without delete_on_destroy the project is left alone and forgotten.
Destroy ==
    /\ At("idle")
    /\ state.managed
    /\ budget.edits > 0
    /\ budget' = [budget EXCEPT !.edits = @ - 1]
    /\ \/ state' = NotManaged /\ lastWritten' = NoDoc /\ UNCHANGED job
       \/ job' = Operation("delete", FALSE) /\ UNCHANGED <<state, lastWritten>>
    /\ UNCHANGED <<nas, config>>

----------------------------------------------------------------------------
(***************************************************************************)
(* The calls.                                                              *)
(***************************************************************************)
\* A call that has its effect, is refused, or has its effect and is not answered: a
\* timeout is looked into and the effect found, any other failure is final.
Call(effect, next) ==
    /\ \/ nas' = effect /\ job' = next /\ UNCHANGED budget
       \/ Fault("refused") /\ UNCHANGED nas /\ job' = Idle
       \/ Fault("lost") /\ nas' = effect /\ job' \in {next, Idle}
    /\ UNCHANGED <<config, state, lastWritten>>

Register ==
    /\ At("register")
    /\ Call([doc |-> Empty, deployed |-> NoDoc, status |-> "STOPPED"],
            [job EXCEPT !.pc = "write"])

\* A lifecycle method.  A build or a start that fails is run again for its
\* explanation, and may succeed then; the operation has failed all the same.
Lifecycle(effect, next) ==
    /\ Exists
    /\ \/ nas' = effect /\ Goto(next) /\ UNCHANGED budget
       \/ Fault("refused") /\ job' = Idle /\ nas' \in IF job.pc \in {"stop", "delete"} THEN {nas} ELSE {nas, effect}
       \/ Fault("lost") /\ nas' = effect /\ job' = Idle
    /\ UNCHANGED <<config, state, lastWritten>>

\* Mutant: the new document is left for the next start to pick up.
WriteOnly == "settle"

AfterWrite == "build"

WriteCompose ==
    /\ At("write")
    /\ Exists
    /\ Call([nas EXCEPT !.doc = job.doc], [job EXCEPT !.pc = AfterWrite])

Build ==
    /\ At("build")
    /\ Lifecycle([nas EXCEPT !.deployed = nas.doc, !.status = "BUILDING"], "settle")

Start == At("start") /\ Lifecycle([nas EXCEPT !.status = "STARTING"], "final")

\* Before a rebuild, or to leave the project stopped.
Stop ==
    /\ At("stop")
    /\ Lifecycle([nas EXCEPT !.status = "STOPPING"],
                 IF job.write THEN "stopped" ELSE "final")

\* DeleteContainerProject: a project that is gone needs no deleting, and the call's
\* success is not believed until it is.
Delete ==
    /\ At("delete")
    /\ Exists
    /\ Lifecycle([nas EXCEPT !.status = "DELETING"], "gone")

Deleted ==
    /\ job.pc \in {"delete", "gone"}
    /\ ~Exists
    /\ job' = Idle
    /\ state' = NotManaged
    /\ lastWritten' = NoDoc
    /\ UNCHANGED <<nas, config, budget>>

\* The project has been removed under the operation's feet.
Vanished ==
    /\ job.pc \notin {"idle", "register", "delete", "gone"}
    /\ ~Exists
    /\ Fail
    /\ UNCHANGED <<nas, budget>>

\* UpdateContainerProject compares documents only if the plan said one is written;
\* otherwise (SetContainerProjectRunning) only the running state is looked at.
\* From here job.write says whether this apply writes the document itself.
Decide ==
    /\ job.pc \in {"update", "setRunning"}
    /\ Exists
    /\ \/ Fault("read") /\ job' = Idle
       \/ /\ UNCHANGED budget
          /\ LET rewrite == job.write /\ nas.doc # job.doc
                 up == Running(nas.status)
             IN  job' = [job EXCEPT
                           !.write = rewrite,
                           !.pc = CASE rewrite /\ ~up -> "write"
                                    [] up /\ (rewrite \/ ~job.running) -> "stop"
                                    [] ~rewrite /\ ~up /\ job.running -> "start"
                                    [] OTHER -> "final"]
    /\ UNCHANGED <<nas, config, state, lastWritten>>

----------------------------------------------------------------------------
(***************************************************************************)
(* Polling (waitForContainerProject).                                      *)
(***************************************************************************)
Awaited ==
    CASE job.pc = "stopped" -> Reached(nas.status, FALSE)
      [] job.pc = "settle" -> nas.status \notin Transient
      [] job.pc = "final" -> Reached(nas.status, job.running)
      [] job.pc = "gone" -> FALSE

Polling == job.pc \in {"stopped", "settle", "final", "gone"} /\ Exists

Arrives ==
    /\ Polling
    /\ job.pc \in {"stopped", "settle"}
    /\ nas.status # "FAILED"
    /\ Awaited
    /\ Goto(IF job.pc = "stopped" THEN "write" ELSE IF job.running THEN "start" ELSE "final")
    /\ UNCHANGED <<nas, config, state, lastWritten, budget>>

\* Mutants: the reference moves with every apply, with the first one only.
ReferenceAlways == nas.doc
ReferenceOnce == IF job.op = "register" THEN nas.doc ELSE lastWritten

\* Only a write moves the reference that drift is measured against.
Reference == IF job.op = "setRunning" THEN lastWritten ELSE nas.doc

Succeed ==
    /\ Polling
    /\ job.pc = "final"
    /\ nas.status # "FAILED"
    /\ Awaited
    /\ state' = Recorded(config.version)
    /\ lastWritten' = Reference
    /\ job' = Idle
    /\ UNCHANGED <<nas, config, budget>>

\* A failure status, a poll that fails, or ten minutes without arriving, which is
\* certain once DSM has come to rest elsewhere.
GivesUp ==
    /\ Polling
    /\ \/ nas.status = "FAILED" /\ ~At("gone") /\ UNCHANGED budget
       \/ Fault("read")
       \/ ~Awaited /\ nas.status \in Transient /\ Fault("slow")
       \/ ~Awaited /\ nas.status \notin Transient /\ UNCHANGED budget
    /\ Fail
    /\ UNCHANGED nas

----------------------------------------------------------------------------
\* Where the project comes to rest: a one-shot container exits on its own.
AtRest ==
    CASE nas.status = "DELETING" -> NoProject
      [] nas.status = "STOPPING" -> [nas EXCEPT !.status = "STOPPED"]
      [] nas.deployed \in OneShot -> [nas EXCEPT !.status = "WARNING"]
      [] nas.status = "BUILDING" -> [nas EXCEPT !.status = "STOPPED"]
      [] OTHER -> [nas EXCEPT !.status = "RUNNING"]

Settle ==
    /\ nas.status \in Transient
    /\ \/ nas' = AtRest /\ UNCHANGED budget
       \/ Fault("failed") /\ nas' = [nas EXCEPT !.status = "FAILED"]
    /\ UNCHANGED <<config, state, lastWritten, job>>

EditConfig ==
    /\ At("idle")
    /\ budget.edits > 0
    /\ budget' = [budget EXCEPT !.edits = @ - 1]
    /\ config' \in Configs \ {config}
    /\ UNCHANGED <<nas, state, lastWritten, job>>

\* The documents an apply under way may have looked at or written already.
BeingApplied == job.pc \notin {"idle", "update"} /\ job.op # "setRunning"

\* DSM's interface edits the document, stops the project or removes it.
Foreign ==
    /\ budget.foreign > 0
    /\ Exists
    /\ budget' = [budget EXCEPT !.foreign = @ - 1]
    /\ \/ nas' = [nas EXCEPT !.doc = IF BeingApplied THEN EditedLate ELSE Edited]
       \/ nas.status \notin Transient /\ nas' = [nas EXCEPT !.status = "STOPPED"]
       \/ nas' = NoProject
    /\ UNCHANGED <<config, state, lastWritten, job>>

Work ==
    \/ Register \/ WriteCompose \/ Build \/ Start \/ Stop \/ Delete \/ Deleted \/ Decide
    \/ Arrives \/ Succeed \/ GivesUp \/ Vanished

Next ==
    \/ Refresh \/ BeginCreate \/ Import \/ Destroy \/ Work
    \/ Settle \/ EditConfig \/ Foreign

Spec == Init /\ [][Next]_vars

\* Terraform is run again while there is something to do, a call is answered or times
\* out, and what DSM is busy with ends.
FairSpec ==
    /\ Spec
    /\ WF_vars(Refresh \/ BeginCreate \/ Import)
    /\ WF_vars(Work)
    /\ WF_vars(Settle)

----------------------------------------------------------------------------
Docs == {c.doc : c \in Configs} \cup {NoDoc, Empty, Edited, EditedLate}

\* The type of every variable, and that a record made in write-only mode holds no
\* document.
TypeOK ==
    /\ nas \in [doc : Docs, deployed : Docs,
               status : Transient \cup {"ABSENT", "STOPPED", "RUNNING", "WARNING", "FAILED"}]
    /\ config \in Configs
    /\ state \in [managed : BOOLEAN, doc : Docs, version : Nat, running : BOOLEAN, checksum : Docs]
    /\ state.version > 0 => state.doc = NoDoc
    /\ lastWritten \in Docs
    /\ budget.faults \in 0..MaxFaults
    /\ budget.edits \in 0..MaxEdits
    /\ budget.foreign \in 0..MaxForeign
    /\ \/ job = Idle
       \/ /\ job.pc \in {"register", "update", "setRunning", "write", "build", "start", "stop",
                         "delete", "stopped", "settle", "final", "gone"}
          /\ job.op \in {"register", "update", "setRunning", "delete"}
          /\ job.doc \in Docs
          /\ job.write \in BOOLEAN /\ job.running \in BOOLEAN
          /\ job.foreign \in 0..MaxForeign

Undisturbed == job.foreign = budget.foreign

\* An apply that wrote the document and reports success left containers of that
\* document, whatever the project had been through (UpdateContainerProject "applies
\* compose changes in a deterministic order").
WrittenIsBuilt ==
    [][Succeed /\ job.write /\ Undisturbed => nas.deployed = job.doc]_vars

\* What an apply records agrees with its plan, and the next plan is empty: DSM's
\* answer, the write-only document's checksum and the running state included.  The
\* exception is WARNING, which is accepted as stopped and recorded as running.
SuccessLeavesNothingToDo ==
    [][Succeed /\ Undisturbed /\ (job.running \/ nas.status # "WARNING")
          => Planned(state', lastWritten').pc = "idle"]_vars

\* A document changed in DSM's own interface is never taken for the configured one:
\* where a refresh would leave nothing to do, DSM does not hold such a document
\* (compose_yaml_checksum "is compared against the checksum of the last write").
DriftIsNoticed ==
    At("idle") /\ state.managed /\ Planned(Recorded(state.version), lastWritten).pc = "idle"
        => nas.doc # Edited

\* An empty plan means that there is nothing to do: after an apply, and after a change
\* somebody else made.
PlansAreTrue == []DriftIsNoticed /\ SuccessLeavesNothingToDo

\* However applies fail, stop half-way or are interfered with, repeating them ends in
\* a project that runs or stands as configured, with the configured document where
\* Terraform is shown it.
Converges ==
    <>[](/\ state.managed
         /\ Running(nas.status) = config.running
         /\ config.version = 0 => nas.doc = config.doc)
=============================================================================
