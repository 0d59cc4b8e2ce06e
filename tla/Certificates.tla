---------------------------- MODULE Certificates ----------------------------
(***************************************************************************)
(* Certificates of DSM (client/certificate.go) and the three resources     *)
(* that manage them as terraform apply runs them, none of them under a     *)
(* lock: dsm_certificate imports one (kind "imported"),                    *)
(* dsm_certificate_lets_encrypt has DSM obtain one ("issued"), and         *)
(* dsm_certificate_service binds a service to one ("binding").             *)
(*                                                                         *)
(* A certificate is [desc, subject, material, by]: its description, its    *)
(* common name, which version of the configured PEM it holds, and the      *)
(* resource it was made for.  Its id is a number never used again.         *)
(***************************************************************************)
EXTENDS Naturals, FiniteSets, Sequences

CONSTANTS
    Resources,
    Kind,       \* resource -> "imported", "issued" or "binding"
    Subject,    \* resource -> common name, of the certificates
    NASName,    \* the common name of DSM's own certificate
    Service,    \* resource -> service, of the bindings
    Target,     \* resource -> the resource of its certificate, of the bindings
    Scenarios,  \* sequences of configurations: resource -> settings or Gone
    Faults,     \* what may go wrong, a subset of FaultKinds
    MaxFaults,  \* bound: how many times something goes wrong
    MaxHand,    \* bound: how many times DSM or a person changes something
    MaxAstray,  \* bound: certificates of one resource gone astray before an apply waits
    MaxId       \* bound: ids given out

FaultKinds == {"read", "refused", "lost", "timeout", "unsettled", "absent", "restart"}

NoId == 0
Builtin == 1  \* DSM's own certificate
Setting(desc, material, default, force) ==
    [desc |-> desc, material |-> material, default |-> default, force |-> force]
Gone(force) == Setting("gone", 0, FALSE, force)
Settings == [desc : STRING, material : Nat, default : BOOLEAN, force : BOOLEAN]
None == [id |-> NoId, desc |-> "none", material |-> 0, default |-> FALSE, tainted |-> FALSE]

ASSUME FaultsAssumption == Faults \subseteq FaultKinds
ASSUME BoundsAssumption == MaxFaults \in Nat /\ MaxHand \in Nat
                           /\ MaxAstray \in Nat /\ MaxId \in Nat \ {0}
ASSUME ResourcesAssumption == "dsm" \notin Resources
ASSUME KindAssumption ==
    /\ Kind \in [Resources -> {"imported", "issued", "binding"}]
    /\ \A r \in Resources : Kind[r] = "binding" =>
           Target[r] \in Resources /\ Kind[Target[r]] # "binding"
ASSUME ScenariosAssumption ==
    \A s \in Scenarios : s # <<>> /\ s \in Seq([Resources -> Settings])

VARIABLES
    certs,    \* id -> certificate
    default,  \* the id of DSM's default certificate
    served,   \* service -> id of its certificate, NoId if it has none
    fresh,    \* the id DSM gives out next
    late,     \* removals under way whose certificate was given a service meanwhile
    known,    \* Terraform's state: resource -> None or [id, desc, material, default, tainted]
    configs,  \* the configurations from the one that is applied on
    job,      \* where each resource's operation is
    stray,    \* ids that their operation gave up, or took another certificate instead of
    budget    \* what is left of the bounds

vars == <<certs, default, served, fresh, late, known, configs, job, stray, budget>>
dsm == <<certs, default, served, fresh, late>>

Idle == [pc |-> "idle"]
Services == {Service[r] : r \in {s \in Resources : Kind[s] = "binding"}}

Init ==
    /\ certs = [id \in {Builtin} |-> [desc |-> "builtin", subject |-> NASName, material |-> 0,
                                      by |-> "dsm"]]
    /\ default = Builtin
    /\ served = [s \in Services |-> Builtin]
    /\ fresh = Builtin + 1
    /\ late = {}
    /\ known = [r \in Resources |-> None]
    /\ configs \in Scenarios
    /\ job = [r \in Resources |-> Idle]
    /\ stray = {}
    /\ budget = [faults |-> MaxFaults, hand |-> MaxHand]

Want(r) == Head(configs)[r]
Destroyed(r) == Want(r).desc = "gone"
At(r, pc) == job[r].pc = pc
Installed(id) == id \in DOMAIN certs
InUse(id) == \E s \in Services : served[s] = id

Described(desc, listed) == {id \in listed : certs[id].desc = desc}
Named(subject) == {id \in DOMAIN certs : certs[id].subject = subject}

----------------------------------------------------------------------------
(***************************************************************************)
(* How an operation goes on and ends.                                      *)
(***************************************************************************)
Goto(r, to) == job' = [job EXCEPT ![r] = to] /\ UNCHANGED known

\* An error leaves the state as it was; a failed create records nothing.
Fail(r) == Goto(r, Idle)

Forget(r) ==
    /\ job' = [job EXCEPT ![r] = Idle]
    /\ known' = [known EXCEPT ![r] = None]

Fault(kind) ==
    /\ kind \in Faults
    /\ budget.faults > 0
    /\ budget' = [budget EXCEPT !.faults = @ - 1]

NoFault == UNCHANGED budget

\* applyCertificateToModel: the material is what was configured, DSM never returns it.
Parsed(id, material, tainted) ==
    [id |-> id, desc |-> certs[id].desc, material |-> material, default |-> default = id,
     tainted |-> tainted]

\* A create that ends with another description than planned is tainted by Terraform.
Record(r, id) ==
    /\ job' = [job EXCEPT ![r] = Idle]
    /\ known' = [known EXCEPT ![r] =
          Parsed(id, Want(r).material,
                 job[r].verb = "create" /\ certs[id].desc # Want(r).desc)]

\* Of the certificates made by the operation, all but the one it ends with go astray.
Stray(r, id) == stray' = stray \union (job[r].made \ {id})

----------------------------------------------------------------------------
(***************************************************************************)
(* terraform apply for one resource: refresh, plan, one operation.  A      *)
(* binding refers to the id of its certificate and follows it.             *)
(***************************************************************************)
\* Mutant: a default that was lost is not planned back.
KeepsDefault(r, seen) ==
    IF Destroyed(r) \/ seen.tainted THEN "delete"
    ELSE IF seen.desc # Want(r).desc \/ seen.material # Want(r).material THEN "update"
    ELSE "nothing"

\* planDefaultReclaim: a default that was lost is planned back, it is never given up.
Reclaims(r, seen) == Want(r).default /\ ~seen.default

\* What the plan compares.
PlannedVerb(r, seen) ==
    IF Destroyed(r) \/ seen.tainted THEN "delete"
    ELSE IF \/ seen.desc # Want(r).desc
            \/ seen.material # Want(r).material
            \/ Reclaims(r, seen) THEN "update"
    ELSE "nothing"

\* Mutant: what changes of a certificate is imported, whoever obtained it.
ImportsAll(r, verb) ==
    CASE verb = "nothing" -> Idle
      [] verb = "delete" -> [pc |-> "guard"]
      [] verb = "create" /\ Kind[r] = "issued" ->
            [pc |-> "issue", verb |-> verb, tries |-> 0, made |-> {}]
      [] OTHER -> [pc |-> "import", verb |-> verb, tries |-> 0, made |-> {}]

FirstStep(r, verb) ==
    CASE verb = "nothing" -> Idle
      [] verb = "delete" -> [pc |-> "guard"]
      [] verb = "create" /\ Kind[r] = "issued" ->
            [pc |-> "issue", verb |-> verb, tries |-> 0, made |-> {}]
      [] verb = "update" /\ Kind[r] = "issued" -> [pc |-> "set", verb |-> verb, tries |-> 0]
      [] verb = "update" /\ known[r].material = Want(r).material ->
            [pc |-> "set", verb |-> verb, tries |-> 0]
      [] OTHER -> [pc |-> "import", verb |-> verb, tries |-> 0, made |-> {}]

\* Terraform orders a binding after its certificate, and its removal before it.
Ready(r) ==
    IF Kind[r] = "binding"
    THEN At(Target[r], "idle") /\ (known[Target[r]] # None \/ Destroyed(r))
    ELSE \A b \in Resources : Kind[b] = "binding" /\ Target[b] = r =>
             At(b, "idle") /\ (Destroyed(r) => known[b] = None)

Create(r) ==
    /\ At(r, "idle") /\ Ready(r)
    /\ known[r] = None /\ ~Destroyed(r)
    /\ Cardinality({id \in stray : Installed(id) /\ certs[id].by = r}) <= MaxAstray
    /\ Goto(r, IF Kind[r] = "binding" THEN [pc |-> "find", to |-> known[Target[r]].id]
               ELSE FirstStep(r, "create"))
    /\ UNCHANGED <<dsm, configs, stray, budget>>

Refreshed(r, id) ==
    LET seen == Parsed(id, known[r].material, known[r].tainted)
    IN  /\ known' = [known EXCEPT ![r] = seen]
        /\ job' = [job EXCEPT ![r] = FirstStep(r, PlannedVerb(r, seen))]

\* certificateResource.Read, and the first lookup of certificateLetsEncryptResource.Read.
Read(r) ==
    /\ At(r, "idle") /\ Ready(r) /\ known[r] # None /\ Kind[r] # "binding"
    /\ \/ Installed(known[r].id) /\ Refreshed(r, known[r].id) /\ NoFault
       \/ /\ ~Installed(known[r].id) /\ NoFault
          /\ IF Kind[r] = "issued" THEN Goto(r, [pc |-> "readBySubject"]) ELSE Forget(r)
       \/ Fault("read") /\ Fail(r)
    /\ UNCHANGED <<dsm, configs, stray>>

\* GetCertificateBySubject takes the first of the common name, whoever made it.
ReadBySubject(r) ==
    LET own == {id \in DOMAIN certs : certs[id].by = r}
    IN  /\ At(r, "readBySubject")
        /\ \/ /\ \E id \in Named(Subject[r]) :
                    Refreshed(r, id) /\ stray' = stray \union (own \ {id})
              /\ NoFault
           \/ Named(Subject[r]) = {} /\ Forget(r) /\ NoFault /\ UNCHANGED stray
           \/ Fault("read") /\ Fail(r) /\ UNCHANGED stray
        /\ UNCHANGED <<dsm, configs>>

----------------------------------------------------------------------------
(***************************************************************************)
(* What DSM does with a request, and how its answer may get lost.          *)
(***************************************************************************)
Install(r) ==
    /\ fresh <= MaxId
    /\ certs' = [id \in DOMAIN certs \union {fresh} |->
                    IF id = fresh THEN [desc |-> Want(r).desc, subject |-> Subject[r],
                                        material |-> Want(r).material, by |-> r]
                    ELSE certs[id]]
    /\ fresh' = fresh + 1
    /\ UNCHANGED <<served, late>>

\* A broken connection is tried again, whatever DSM did with the first request.
Again(r, made) ==
    /\ Fault("lost") /\ job[r].tries = 0
    /\ Goto(r, [job[r] EXCEPT !.tries = 1, !.made = made])

AgainPlain(r) == Fault("lost") /\ job[r].tries = 0 /\ Goto(r, [job[r] EXCEPT !.tries = 1])

\* A timeout is not repeated, and the attempts may be used up.
LostForGood(r) ==
    /\ \/ Fault("timeout")
       \/ Fault("lost") /\ job[r].tries > 0
    /\ Fail(r)

Refused(r) ==
    /\ job[r].pc \in {"import", "issue", "claim", "set", "bind", "remove"}
    /\ Fault("refused")
    /\ Fail(r)
    /\ stray' = IF job[r].pc \in {"import", "issue", "claim"}
                THEN stray \union job[r].made ELSE stray
    /\ UNCHANGED <<dsm, configs>>

----------------------------------------------------------------------------
(***************************************************************************)
(* dsm_certificate: ImportCertificate and settleCertificate.               *)
(***************************************************************************)
\* Mutant: a rotation is a new import.
ImportAnew(r) ==
    /\ At(r, "import") /\ job[r].verb = "update"
    /\ Install(r)
    /\ default' = IF Want(r).default THEN fresh ELSE default
    /\ Goto(r, [pc |-> "settle", verb |-> job[r].verb, id |-> fresh, made |-> {fresh}])
    /\ UNCHANGED <<configs, stray, budget>>

\* importedCertificateID: some builds of DSM do not tell it.
ToldId(id) == {NoId, id}

\* Without an id DSM installs a new certificate.
ImportNew(r) ==
    /\ At(r, "import") /\ job[r].verb = "create"
    /\ Install(r)
    /\ default' = IF Want(r).default THEN fresh ELSE default
    /\ LET made == job[r].made \union {fresh}
       IN  \/ /\ \E id \in ToldId(fresh) :
                    Goto(r, [pc |-> "settle", verb |-> "create", id |-> id, made |-> made])
              /\ UNCHANGED <<stray, budget>>
           \/ Again(r, made) /\ UNCHANGED stray
           \/ LostForGood(r) /\ stray' = stray \union made
    /\ UNCHANGED configs

\* With an id it replaces the material behind it.
Rotate(r) ==
    LET id == known[r].id
    IN  /\ At(r, "import") /\ job[r].verb = "update"
        /\ IF Installed(id)
           THEN /\ certs' = [certs EXCEPT ![id].desc = Want(r).desc,
                                          ![id].material = Want(r).material]
                /\ default' = IF Want(r).default THEN id ELSE default
                /\ \/ /\ Goto(r, [pc |-> "settle", verb |-> "update", id |-> id, made |-> {}])
                      /\ NoFault
                   \/ AgainPlain(r)
                   \/ LostForGood(r)
           ELSE Fail(r) /\ NoFault /\ UNCHANGED <<certs, default>>
        /\ UNCHANGED <<served, fresh, late, configs, stray>>

\* Read back by id, else by the description if only one has it.
Settled(r, listed) ==
    IF job[r].id \in listed THEN {job[r].id}
    ELSE IF Cardinality(Described(Want(r).desc, listed)) = 1 THEN Described(Want(r).desc, listed)
    ELSE {}

\* The certificate may be absent from the list for a moment; a restart of DSM's web
\* server may outlast the deadline.
Settle(r) ==
    /\ At(r, "settle")
    /\ \/ \E id \in Settled(r, DOMAIN certs) : Record(r, id) /\ Stray(r, id) /\ NoFault
       \/ /\ Fault("absent")
          /\ \E id \in Settled(r, DOMAIN certs \ {job[r].id}) :
                /\ Record(r, id)
                /\ stray' = stray \union ((job[r].made \union {job[r].id}) \ {NoId, id})
       \/ /\ \/ Settled(r, DOMAIN certs) = {} /\ NoFault
             \/ Fault("unsettled")
          /\ Fail(r) /\ Stray(r, NoId)
    /\ UNCHANGED <<dsm, configs>>

----------------------------------------------------------------------------
(***************************************************************************)
(* dsm_certificate_lets_encrypt: CreateLetsEncryptCertificate, then the    *)
(* default is claimed with a call of its own.                              *)
(***************************************************************************)
\* DSM answers when the exchange is over, which the HTTP client seldom waits for.
Issue(r) ==
    /\ At(r, "issue")
    /\ Install(r)
    /\ LET made == job[r].made \union {fresh}
       IN  \/ /\ Goto(r, [pc |-> "findIssued", verb |-> "create", made |-> made])
              /\ UNCHANGED <<stray, budget>>
           \/ Again(r, made) /\ UNCHANGED stray
           \/ LostForGood(r) /\ stray' = stray \union made
    /\ UNCHANGED <<default, configs>>

\* By the description if only one has it, else the first of the common name.
Issued(r) ==
    IF Cardinality(Described(Want(r).desc, DOMAIN certs)) = 1
    THEN Described(Want(r).desc, DOMAIN certs)
    ELSE Named(Subject[r])

FindIssued(r) ==
    /\ At(r, "findIssued")
    /\ \/ /\ \E id \in Issued(r) :
               IF Want(r).default /\ default # id
               THEN /\ Goto(r, [pc |-> "claim", verb |-> "create", tries |-> 0, id |-> id,
                                made |-> job[r].made,
                                seen |-> Parsed(id, 0, certs[id].desc # Want(r).desc)])
                    /\ UNCHANGED stray
               ELSE Record(r, id) /\ Stray(r, id)
          /\ NoFault
       \/ Issued(r) = {} /\ Fail(r) /\ NoFault /\ UNCHANGED stray
       \/ Fault("read") /\ Fail(r) /\ Stray(r, NoId)
    /\ UNCHANGED <<dsm, configs>>

\* SetDefaultCertificate; if it fails the certificate that was issued is not recorded.
Claim(r) ==
    LET id == job[r].id
    IN  /\ At(r, "claim")
        /\ IF Installed(id)
           THEN /\ default' = id
                /\ \/ Goto(r, [job[r] EXCEPT !.pc = "claimed"]) /\ UNCHANGED <<stray, budget>>
                   \/ AgainPlain(r) /\ UNCHANGED stray
                   \/ LostForGood(r) /\ Stray(r, NoId)
           ELSE Fail(r) /\ Stray(r, NoId) /\ UNCHANGED <<default, budget>>
        /\ UNCHANGED <<certs, served, fresh, late, configs>>

\* A failed read keeps what was seen before.
Claimed(r) ==
    LET id == job[r].id
    IN  /\ At(r, "claimed")
        /\ \/ Installed(id) /\ Record(r, id) /\ NoFault
           \/ /\ (~Installed(id) /\ NoFault) \/ Fault("read")
              /\ known' = [known EXCEPT ![r] = job[r].seen]
              /\ job' = [job EXCEPT ![r] = Idle]
        /\ Stray(r, id)
        /\ UNCHANGED <<dsm, configs>>

----------------------------------------------------------------------------
(***************************************************************************)
(* What both do: attributes, and the destroy that is refused while a       *)
(* service is assigned.                                                    *)
(***************************************************************************)
\* SetCertificateAttributes claims the default if the state does not have it.
Set(r) ==
    LET id == known[r].id
    IN  /\ At(r, "set")
        /\ IF Installed(id)
           THEN /\ certs' = [certs EXCEPT ![id].desc = Want(r).desc]
                /\ default' = IF Reclaims(r, known[r]) THEN id ELSE default
                /\ \/ Goto(r, [pc |-> "get", verb |-> "update"]) /\ NoFault
                   \/ AgainPlain(r)
                   \/ LostForGood(r)
           ELSE Fail(r) /\ NoFault /\ UNCHANGED <<certs, default>>
        /\ UNCHANGED <<served, fresh, late, configs, stray>>

Get(r) ==
    /\ At(r, "get")
    /\ \/ Installed(known[r].id) /\ Record(r, known[r].id) /\ NoFault
       \/ ~Installed(known[r].id) /\ Fail(r) /\ NoFault
       \/ Fault("read") /\ Fail(r)
    /\ UNCHANGED <<dsm, configs, stray>>

\* Mutant: the services are those of the last refresh.
GuardByState(r) ==
    /\ At(r, "guard")
    /\ Goto(r, [pc |-> "remove", tries |-> 0])
    /\ late' = late \ {r}
    /\ UNCHANGED <<certs, default, served, fresh, configs, stray, budget>>

\* deleteCertificate reads the services again.
Guard(r) ==
    LET id == known[r].id
    IN  /\ At(r, "guard")
        /\ \/ Installed(id) /\ InUse(id) /\ ~Want(r).force /\ Fail(r) /\ NoFault
           \/ /\ Installed(id) /\ (InUse(id) => Want(r).force)
              /\ Goto(r, [pc |-> "remove", tries |-> 0])
              /\ NoFault
           \/ ~Installed(id) /\ Forget(r) /\ NoFault
           \/ Fault("read") /\ Fail(r)
        /\ late' = late \ {r}
        /\ UNCHANGED <<certs, default, served, fresh, configs, stray>>

\* The removals that do not notice a service given to the certificate now.
Overtaken(id) == late \union {r \in Resources : At(r, "remove") /\ known[r].id = id}

\* DSM keeps its last certificate.  It falls back to another default; a service of the
\* certificate goes to the default or has none.
Uninstall(id) ==
    /\ certs' = [c \in DOMAIN certs \ {id} |-> certs[c]]
    /\ IF default = id THEN default' \in DOMAIN certs \ {id} ELSE UNCHANGED default
    /\ \E instead \in {NoId, default'} :
          /\ served' = [s \in Services |-> IF served[s] = id THEN instead ELSE served[s]]
          /\ late' = IF InUse(id) THEN Overtaken(instead) ELSE late
    /\ UNCHANGED fresh

Remove(r) ==
    LET id == known[r].id
    IN  /\ At(r, "remove")
        /\ \/ /\ Installed(id) /\ DOMAIN certs # {id} /\ Uninstall(id)
              /\ \/ Forget(r) /\ NoFault
                 \/ AgainPlain(r)
                 \/ LostForGood(r)
           \/ ~(Installed(id) /\ DOMAIN certs # {id}) /\ Fail(r) /\ NoFault /\ UNCHANGED dsm
        /\ UNCHANGED <<configs, stray>>

----------------------------------------------------------------------------
(***************************************************************************)
(* dsm_certificate_service.                                                *)
(***************************************************************************)
\* FindCertificateServiceBinding in a refresh; destroying a binding changes nothing.
ReadBinding(r) ==
    LET id == served[Service[r]]
    IN  /\ At(r, "idle") /\ Ready(r) /\ known[r] # None /\ Kind[r] = "binding"
        /\ \/ /\ Destroyed(r) \/ id = NoId
              /\ Forget(r) /\ NoFault
           \/ /\ ~Destroyed(r) /\ id # NoId
              /\ known' = [known EXCEPT ![r] = [None EXCEPT !.id = id]]
              /\ job' = [job EXCEPT ![r] =
                    IF id = known[Target[r]].id THEN Idle
                    ELSE [pc |-> "find", to |-> known[Target[r]].id]]
              /\ NoFault
           \/ Fault("read") /\ Fail(r)
        /\ UNCHANGED <<dsm, configs, stray>>

\* The certificate has to exist.
FindTarget(r) ==
    /\ At(r, "find")
    /\ \/ Installed(job[r].to) /\ Goto(r, [job[r] EXCEPT !.pc = "lookup"]) /\ NoFault
       \/ ~Installed(job[r].to) /\ Fail(r) /\ NoFault
       \/ Fault("read") /\ Fail(r)
    /\ UNCHANGED <<dsm, configs, stray>>

Bound(r) ==
    /\ known' = [known EXCEPT ![r] = [None EXCEPT !.id = job[r].to]]
    /\ job' = [job EXCEPT ![r] = Idle]

\* Mutant: what is bound already is bound again.
FindBindingAlways(r) ==
    /\ At(r, "lookup")
    /\ Goto(r, [pc |-> "bind", to |-> job[r].to, old |-> served[Service[r]], tries |-> 0])
    /\ UNCHANGED <<dsm, configs, stray, budget>>

\* Nothing is written if the service has the certificate already.
FindBinding(r) ==
    LET old == served[Service[r]]
    IN  /\ At(r, "lookup")
        /\ \/ old = job[r].to /\ Bound(r) /\ NoFault
           \/ /\ old # job[r].to
              /\ Goto(r, [pc |-> "bind", to |-> job[r].to, old |-> old, tries |-> 0])
              /\ NoFault
           \/ Fault("read") /\ Fail(r)
        /\ UNCHANGED <<dsm, configs, stray>>

\* SetCertificateService.  DSM takes a binding the service has already for a move to the
\* default, and refuses one without the service object of an earlier binding.
Bind(r) ==
    LET s == Service[r]
    IN  /\ At(r, "bind")
        /\ IF job[r].old # NoId /\ Installed(job[r].to)
           THEN /\ served' = [served EXCEPT ![s] = IF @ = job[r].to THEN default ELSE job[r].to]
                /\ late' = Overtaken(served'[s])
                /\ \/ Bound(r) /\ NoFault
                   \/ AgainPlain(r)
                   \/ LostForGood(r)
           ELSE Fail(r) /\ NoFault /\ UNCHANGED <<served, late>>
        /\ UNCHANGED <<certs, default, fresh, configs, stray>>

----------------------------------------------------------------------------
(***************************************************************************)
(* What is not the provider.                                               *)
(***************************************************************************)
\* The configuration is edited between two applies.
Reconfigure ==
    /\ \A r \in Resources : At(r, "idle")
    /\ Len(configs) > 1
    /\ configs' = Tail(configs)
    /\ UNCHANGED <<dsm, known, job, stray, budget>>

Hand == budget.hand > 0 /\ budget' = [budget EXCEPT !.hand = @ - 1]

\* A service is assigned in the control panel, or goes with the package or the entry that
\* provides it, and comes back unserved; a removal under way does not notice.
AssignByHand ==
    /\ Hand
    /\ \E s \in Services, id \in DOMAIN certs \union {NoId} :
          served' = [served EXCEPT ![s] = id] /\ late' = Overtaken(id)
    /\ UNCHANGED <<certs, default, fresh, known, configs, job, stray>>

\* The default is claimed for another certificate, or one that nothing uses is removed.
ByHand ==
    /\ Hand
    /\ \E id \in DOMAIN certs :
          \/ default' = id /\ UNCHANGED <<certs, served, stray>>
          \/ /\ id # default /\ id # Builtin /\ ~InUse(id)
             /\ certs' = [c \in DOMAIN certs \ {id} |-> certs[c]]
             /\ UNCHANGED <<default, served, stray>>
    /\ UNCHANGED <<fresh, late, known, configs, job>>

\* DSM renews a certificate it obtained some time ago, and the renewal is a new object;
\* a destroy whose refresh saw the old one takes it for removed.
Renew ==
    /\ Hand
    /\ fresh <= MaxId
    /\ \E id \in DOMAIN certs :
          /\ certs[id].by \in Resources /\ Kind[certs[id].by] = "issued"
          /\ "made" \notin DOMAIN job[certs[id].by]
          /\ certs' = [c \in (DOMAIN certs \ {id}) \union {fresh} |->
                          IF c = fresh THEN certs[id] ELSE certs[c]]
          /\ default' = IF default = id THEN fresh ELSE default
          /\ served' = [s \in Services |-> IF served[s] = id THEN fresh ELSE served[s]]
          /\ stray' = IF id \in stray \/ At(certs[id].by, "guard") THEN stray \union {fresh}
                      ELSE stray
    /\ fresh' = fresh + 1
    /\ UNCHANGED <<late, known, configs, job>>

\* The provider process ends.
Restart ==
    /\ Fault("restart")
    /\ \E r \in Resources : ~At(r, "idle")
    /\ job' = [r \in Resources |-> Idle]
    /\ stray' = stray \union UNION {job[r].made : r \in
                    {q \in Resources : job[q].pc \in
                        {"import", "settle", "issue", "findIssued", "claim", "claimed"}}}
    /\ UNCHANGED <<dsm, known, configs>>

Begin(r) == Create(r) \/ Read(r) \/ ReadBinding(r)

Step(r) ==
    \/ ReadBySubject(r)
    \/ ImportNew(r) \/ Rotate(r) \/ Settle(r)
    \/ Issue(r) \/ FindIssued(r) \/ Claim(r) \/ Claimed(r)
    \/ Set(r) \/ Get(r) \/ Guard(r) \/ Remove(r) \/ Refused(r)
    \/ FindTarget(r) \/ FindBinding(r) \/ Bind(r)

Next ==
    \/ \E r \in Resources : Begin(r) \/ Step(r)
    \/ Reconfigure \/ AssignByHand \/ ByHand \/ Renew \/ Restart

Spec == Init /\ [][Next]_vars

\* Every request is answered or times out, the settle loop has a deadline, and terraform
\* apply is run again; every apply gets to each resource.
FairSpec == Spec /\ \A r \in Resources : SF_vars(Begin(r)) /\ WF_vars(Step(r))

----------------------------------------------------------------------------
(***************************************************************************)
(* Properties.                                                             *)
(***************************************************************************)
TypeOK ==
    /\ DOMAIN certs \subseteq 1 .. fresh - 1 /\ fresh \in 1 .. MaxId + 1
    /\ Installed(default)
    /\ \A s \in Services : served[s] = NoId \/ Installed(served[s])
    /\ \A r \in Resources : known[r].id \in NoId .. fresh - 1
    /\ \A r \in Resources : known[r] # None => known[r].id # NoId
    /\ stray \subseteq 1 .. fresh - 1 /\ late \subseteq Resources
    /\ Len(configs) \in Nat \ {0}
    /\ \A r \in Resources : job[r].pc \in
           {"idle"} \union
           (CASE Kind[r] = "imported" -> {"import", "settle", "set", "get", "guard", "remove"}
              [] Kind[r] = "issued" -> {"readBySubject", "issue", "findIssued", "claim",
                                        "claimed", "set", "get", "guard", "remove"}
              [] OTHER -> {"find", "lookup", "bind"})

\* A certificate made for a resource is the one in its state, or its making still goes on,
\* or DSM has replaced it and the next refresh looks for it.  Left out is what is stray:
\* with an error, one whose making failed or was cut short; without any, the first of a
\* create that was sent again, one in whose place another of its description or common
\* name was read back or found, and one that DSM renewed under a destroy, which takes it
\* for removed.  So rotations, renamings, claims of the default and failures after the
\* making leave nothing behind; a name that is not unique may.
NothingLeftBehind ==
    \A id \in DOMAIN certs \ stray :
        LET r == certs[id].by
        IN  r \in Resources =>
                \/ known[r].id = id
                \/ "made" \in DOMAIN job[r] /\ id \in job[r].made
                \/ Kind[r] = "issued" /\ known[r] # None /\ ~Installed(known[r].id)

\* A destroy without force_destroy takes no certificate away from a service, except
\* from one that was assigned after the services were read again.
ServedStays ==
    [][\A r \in Resources, s \in Services :
          At(r, "remove") /\ ~Want(r).force /\ served[s] = known[r].id
          /\ Installed(known[r].id) /\ known[r].id \notin DOMAIN certs'
          => r \in late]_vars

\* A binding is reported only if the service has the certificate then, unless the
\* service was moved between the lookup and the request (by another hand, or by a first
\* request whose answer was lost): the request is then a move to the default.
BoundAsReported ==
    [][\A r \in Resources :
          At(r, "bind") /\ known'[r] # known[r] =>
              served'[Service[r]] = job[r].to \/ served[Service[r]] # job[r].old]_vars

\* What only a person can solve: a certificate of the name gone astray, a certificate
\* whose service nothing moves away or that two resources stand for (one of them found it
\* by its common name), a binding whose certificate is not there.
InTheWay(r) ==
    IF Kind[r] = "binding"
    THEN known[Target[r]] = None
    ELSE \/ \E id \in stray : Installed(id) /\ (certs[id].desc = Want(r).desc \/ certs[id].by = r)
         \/ \E q \in Resources \ {r} :
               Kind[q] # "binding" /\ known[r] # None /\ known[q].id = known[r].id
         \/ (Destroyed(r) \/ known[r].tainted) /\ ~Want(r).force /\ InUse(known[r].id)

AsConfigured(r) ==
    IF Destroyed(r) THEN known[r] = None
    ELSE IF Kind[r] = "binding"
    THEN known[r].id = served[Service[r]] /\ known[r].id = known[Target[r]].id
    ELSE /\ Installed(known[r].id) /\ ~known[r].tainted
         /\ certs[known[r].id].desc = Want(r).desc
         /\ certs[known[r].id].material = Want(r).material
         /\ Want(r).default => default = known[r].id

\* A service that nothing serves is forgotten and its binding made anew by every apply, which
\* the comments of the resource call the right answer; but the request then has no service
\* object, though bindingServiceObject says where it has to come from, and DSM refuses it.
Unserved(r) == Kind[r] = "binding" /\ known[r] = None /\ served[Service[r]] = NoId

\* Applying again ends with every certificate and binding as it is configured, unless
\* something is in the way or a service has lost every certificate, which the provider
\* does not repair.
Converges == \A r \in Resources : <>[](AsConfigured(r) \/ InTheWay(r) \/ Unserved(r))
=============================================================================
