---------------------------- MODULE SharedFolders ----------------------------
(***************************************************************************)
(* Shared folders: the serialised and retried mutations of client/share.go,*)
(* reads that have to prove absence (client/errors.go), and the resource's *)
(* create, adopt, update, replace and delete                               *)
(* (provider/resource_shared_folder.go) as terraform apply runs them.      *)
(*                                                                         *)
(* A share is [vol, desc, cow, origin]: its volume, a setting that can be  *)
(* changed, a flag DSM accepts at creation only, and where it comes from.  *)
(***************************************************************************)
EXTENDS Naturals, FiniteSets

CONSTANTS
    Workers,
    Config,       \* share name -> [vol, desc, cow, adopt], what is configured
    InitShares,   \* the shares of the NAS to begin with
    InitKnown,    \* Terraform's state to begin with
    Faults,       \* what may go wrong, a subset of FaultKinds
    MaxFaults,    \* bound: how many times something goes wrong
    MaxForeign    \* bound: how many times DSM's interface adds or removes a share

FaultKinds == {"refused", "lost", "read", "restart"}

NoOne == "no one"

\* mutateShare's budgets.
ShareBusyAttempts == 5
ShareGeneralRejectionAttempts == 2

IsShare(share) ==
    DOMAIN share = {"vol", "desc", "cow", "origin"} /\ share.cow \in BOOLEAN

ASSUME FaultsAssumption == Faults \subseteq FaultKinds
ASSUME WorkersAssumption == NoOne \notin Workers
ASSUME BoundsAssumption == MaxFaults \in Nat /\ MaxForeign \in Nat
ASSUME ConfigAssumption == \A n \in DOMAIN Config : {Config[n].cow, Config[n].adopt} \subseteq BOOLEAN
ASSUME SharesAssumption == \A n \in DOMAIN InitShares : IsShare(InitShares[n])

VARIABLES
    shares,    \* share name -> share
    settling,  \* is an earlier mutation still settling at DSM?
    known,     \* Terraform's state: name -> [vol, desc, cow]
    mu,        \* holder of shareMu
    job,       \* where each worker is
    budget     \* what is left of the bounds

vars == <<shares, settling, known, mu, job, budget>>

Names == DOMAIN Config \union DOMAIN InitShares \union DOMAIN InitKnown

Idle == [pc |-> "idle"]

Init ==
    /\ shares = InitShares
    /\ settling = FALSE
    /\ known = InitKnown
    /\ mu = NoOne
    /\ job = [w \in Workers |-> Idle]
    /\ budget = [faults |-> MaxFaults, foreign |-> MaxForeign]

Put(f, n, v) == [x \in DOMAIN f \union {n} |-> IF x = n THEN v ELSE f[x]]

Drop(f, n) == [x \in DOMAIN f \ {n} |-> f[x]]

Settings(share) == [vol |-> share.vol, desc |-> share.desc, cow |-> share.cow]

At(w, pc) == job[w].pc = pc

----------------------------------------------------------------------------
(***************************************************************************)
(* How an operation goes on and ends.                                      *)
(***************************************************************************)
Goto(w, pc) == job' = [job EXCEPT ![w].pc = pc]

\* The deferred unlock runs whenever mutateShare returns.
Unlock(w) == mu' = IF mu = w THEN NoOne ELSE mu

End(w) ==
    /\ job' = [job EXCEPT ![w] = Idle]
    /\ Unlock(w)

\* A fault costs one of the bounded number of them.
Fault(kind) ==
    /\ kind \in Faults
    /\ budget.faults > 0
    /\ budget' = [budget EXCEPT !.faults = @ - 1]

\* A failed create records nothing, a failed update or delete keeps what was known.
Fail(w) == End(w) /\ UNCHANGED known

----------------------------------------------------------------------------
(***************************************************************************)
(* terraform apply, for one resource: refresh what is known, compare it    *)
(* with the configuration, do what is missing.                             *)
(***************************************************************************)
Begin(w, n) ==
    /\ At(w, "idle")
    /\ \A v \in Workers : job[v].pc # "idle" => job[v].name # n
    /\ \/ /\ n \in DOMAIN known
          /\ job' = [job EXCEPT ![w] = [pc |-> "get", verb |-> "refresh", name |-> n]]
       \/ /\ n \in DOMAIN Config \ DOMAIN known
          /\ job' = [job EXCEPT ![w] = [pc |-> "queued", verb |-> "create", name |-> n]]
    /\ UNCHANGED <<shares, settling, known, mu, budget>>

\* Mutant: a flag is turned on in place.
MovesOnly(was, want) == was.vol # want.vol

\* vol_path forces replacement, and so does turning on what DSM takes at creation
\* only (requiresReplaceWhenEnabled).
NeedsReplacement(was, want) == was.vol # want.vol \/ (want.cow /\ ~was.cow)

\* What the plan finds to be done about a share as it was read.
PlannedVerb(n, was) ==
    IF n \notin DOMAIN Config \/ NeedsReplacement(was, Config[n]) THEN "delete"
    ELSE IF was # Settings(Config[n]) THEN "update"
    ELSE "nothing"

\* Mutant: the volume is not compared.
AdoptableAnywhere(n, share) == TRUE

\* DSM cannot move a share between volumes.
Adoptable(n, share) == share.vol = Config[n].vol

\* After a write the state takes from the answer what DSM decided, and the rest from
\* the plan; Terraform replaces what does not match its plan.
AfterWrite(n, share) == [vol |-> Config[n].vol, desc |-> Config[n].desc, cow |-> share.cow]

\* The answer of GetShare, once it is there, is used for what it was asked for.
Use(w, share) ==
    LET n    == job[w].name
        plan == PlannedVerb(n, Settings(share))
    IN  CASE job[w].verb = "refresh" ->
                /\ known' = Put(known, n, Settings(share))
                /\ job' = [job EXCEPT ![w] =
                             IF plan = "nothing" THEN Idle
                             ELSE [pc |-> "queued", verb |-> plan, name |-> n]]
          [] job[w].verb \in {"created", "updated"} ->
                /\ known' = Put(known, n, AfterWrite(n, share))
                /\ job' = [job EXCEPT ![w] = Idle]
          [] job[w].verb = "adopt" ->
                /\ UNCHANGED known
                /\ job' = [job EXCEPT ![w] =
                             IF Adoptable(n, share)
                             THEN [pc |-> "queued", verb |-> "update", name |-> n]
                             ELSE Idle]

\* The share is not there: only a refresh acts on that (removeIfGone).
Absent(w) ==
    /\ known' = IF job[w].verb = "refresh" THEN Drop(known, job[w].name) ELSE known
    /\ job' = [job EXCEPT ![w] = Idle]

\* GetShare: the share, an answer without one, a refusal that says nothing certain,
\* or no answer at all.
GetShare(w) ==
    /\ At(w, "get")
    /\ LET n == job[w].name
       IN  \/ n \in DOMAIN shares /\ Use(w, shares[n]) /\ UNCHANGED budget
           \/ n \notin DOMAIN shares /\ Absent(w) /\ UNCHANGED budget
           \/ n \notin DOMAIN shares /\ Goto(w, "list") /\ UNCHANGED <<known, budget>>
           \/ Fault("read") /\ Goto(w, "list") /\ UNCHANGED known
           \/ Fault("read") /\ job' = [job EXCEPT ![w] = Idle] /\ UNCHANGED known
    /\ UNCHANGED <<shares, settling, mu>>

\* Mutant: a refusal is taken as proof of absence.
BelievesRefusal(w) ==
    /\ At(w, "list")
    /\ Absent(w)
    /\ UNCHANGED <<shares, settling, mu, budget>>

\* absenceConfirmedBy: the refusal stands unless a list shows that the share is gone.
ConfirmAbsence(w) ==
    /\ At(w, "list")
    /\ \/ job[w].name \notin DOMAIN shares /\ Absent(w) /\ UNCHANGED budget
       \/ /\ \/ job[w].name \in DOMAIN shares /\ UNCHANGED budget
             \/ Fault("read")
          /\ job' = [job EXCEPT ![w] = Idle]
          /\ UNCHANGED known
    /\ UNCHANGED <<shares, settling, mu>>

----------------------------------------------------------------------------
(***************************************************************************)
(* mutateShare.                                                            *)
(***************************************************************************)
\* Mutant: nobody waits.
MuIgnored == TRUE

MuFree == mu = NoOne

TakeShareMu(w) ==
    /\ At(w, "queued")
    /\ MuFree
    /\ mu' = w
    /\ job' = [job EXCEPT ![w] = [pc |-> "mutate", verb |-> @.verb, name |-> @.name,
                                  attempt |-> 0]]
    /\ UNCHANGED <<shares, settling, known, budget>>

\* Is the request one that DSM can perform?
Performable(verb, n) ==
    CASE verb = "create" -> n \notin DOMAIN shares
      [] verb \in {"update", "delete"} -> n \in DOMAIN shares

\* A set that turns the flag on is answered with success and leaves it off.
Performed(verb, n) ==
    CASE verb = "create" ->
            Put(shares, n, [vol |-> Config[n].vol, desc |-> Config[n].desc,
                            cow |-> Config[n].cow, origin |-> "terraform"])
      [] verb = "update" ->
            [shares EXCEPT ![n].desc = Config[n].desc, ![n].cow = @ /\ Config[n].cow]
      [] verb = "delete" -> Drop(shares, n)

\* What follows a success: a create or update is read back without the lock.
Succeed(w) ==
    LET n == job[w].name
    IN  /\ mu' = NoOne
        /\ \/ /\ job[w].verb = "delete"
              /\ known' = Drop(known, n)
              /\ job' = [job EXCEPT ![w] = Idle]
           \/ /\ job[w].verb # "delete"
              /\ UNCHANGED known
              /\ job' = [job EXCEPT ![w] =
                           [pc |-> "get", name |-> n,
                            verb |-> IF @.verb = "create" THEN "created" ELSE "updated"]]

Mutate(w) ==
    /\ At(w, "mutate")
    /\ Performable(job[w].verb, job[w].name)
    /\ shares' = Performed(job[w].verb, job[w].name)
    /\ settling' = TRUE
    /\ \/ Succeed(w) /\ UNCHANGED budget
       \/ Fault("lost") /\ Fail(w)
       \* The transport repeats a request whose answer was lost.
       \/ Fault("lost") /\ UNCHANGED <<known, mu, job>>

\* DSM refuses for a reason of its own or cannot be reached, or the wait is cancelled.
Refused(w) ==
    /\ At(w, "mutate")
    /\ Fault("refused")
    /\ Fail(w)
    /\ UNCHANGED <<shares, settling>>

\* Mutant: one attempt more.
BusyOnceMore(w) ==
    /\ At(w, "mutate")
    /\ settling
    /\ \/ /\ job[w].attempt < ShareBusyAttempts
          /\ job' = [job EXCEPT ![w].attempt = @ + 1]
          /\ UNCHANGED <<known, mu>>
       \/ job[w].attempt >= ShareBusyAttempts /\ Fail(w)
    /\ UNCHANGED <<shares, settling, budget>>

\* 3328 while another mutation is settling: waited out, as far as the attempts go.
Busy(w) ==
    /\ At(w, "mutate")
    /\ settling
    /\ \/ /\ job[w].attempt + 1 < ShareBusyAttempts
          /\ job' = [job EXCEPT ![w].attempt = @ + 1]
          /\ UNCHANGED <<known, mu>>
       \/ job[w].attempt + 1 >= ShareBusyAttempts /\ Fail(w)
    /\ UNCHANGED <<shares, settling, budget>>

\* 3300: settling too.  The same code for a request DSM will never accept is Refused:
\* the second attempt changes nothing.
GeneralRejection(w) == At(w, "mutate") /\ settling

RetriesRejection(w) ==
    /\ GeneralRejection(w)
    /\ job[w].attempt + 1 < ShareGeneralRejectionAttempts
    /\ job' = [job EXCEPT ![w].attempt = @ + 1]
    /\ UNCHANGED <<shares, settling, known, mu, budget>>

TakesAtFaceValue(w) ==
    /\ GeneralRejection(w)
    /\ job[w].attempt + 1 >= ShareGeneralRejectionAttempts
    /\ Fail(w)
    /\ UNCHANGED <<shares, settling, budget>>

\* Mutant: whatever exists is taken over.
AdoptAnything(n) == TRUE

MayAdopt(n) == Config[n].adopt

\* 3301, and what a missing share is answered with: no retry.  A create may adopt.
Impossible(w) ==
    LET n == job[w].name
    IN  /\ At(w, "mutate")
        /\ ~Performable(job[w].verb, n)
        /\ mu' = NoOne
        /\ job' = [job EXCEPT ![w] = IF job[w].verb = "create" /\ MayAdopt(n)
                                     THEN [pc |-> "get", verb |-> "adopt", name |-> n]
                                     ELSE Idle]
        /\ UNCHANGED <<shares, settling, known, budget>>

----------------------------------------------------------------------------
\* DSM has finished what it was doing.
Settle ==
    /\ settling
    /\ settling' = FALSE
    /\ UNCHANGED <<shares, known, mu, job, budget>>

\* Somebody creates a share in DSM's interface, or removes one.
Foreign ==
    /\ budget.foreign > 0
    /\ budget' = [budget EXCEPT !.foreign = @ - 1]
    /\ settling' = TRUE
    /\ \E n \in DOMAIN Config :
        \/ n \in DOMAIN shares /\ shares' = Drop(shares, n)
        \/ /\ n \notin DOMAIN shares
           /\ shares' = Put(shares, n, [vol |-> Config[n].vol, desc |-> "by hand",
                                        cow |-> Config[n].cow, origin |-> "hand"])
    /\ UNCHANGED <<known, mu, job>>

\* The provider process ends.
Restart ==
    /\ Fault("restart")
    /\ mu' = NoOne
    /\ job' = [w \in Workers |-> Idle]
    /\ UNCHANGED <<shares, settling, known>>

Step(w) ==
    \/ GetShare(w) \/ ConfirmAbsence(w)
    \/ Mutate(w) \/ Refused(w) \/ Busy(w)
    \/ RetriesRejection(w) \/ TakesAtFaceValue(w) \/ Impossible(w)

Next ==
    \/ \E w \in Workers, n \in Names : Begin(w, n)
    \/ \E w \in Workers : TakeShareMu(w) \/ Step(w)
    \/ Settle \/ Foreign \/ Restart

Spec == Init /\ [][Next]_vars

\* Requests are answered or time out; Go's mutex does not starve a waiter; whatever
\* DSM is busy with ends; and terraform apply is run again while something is missing.
FairSpec ==
    /\ Spec
    /\ \A w \in Workers : WF_vars(Step(w)) /\ SF_vars(TakeShareMu(w))
    /\ WF_vars(Settle)
    /\ \A n \in Names : SF_vars(\E w \in Workers : Begin(w, n))

----------------------------------------------------------------------------
(***************************************************************************)
(* Properties.                                                             *)
(***************************************************************************)
\* DSM never sees two mutations of this process at once, retries included.
OneMutation == \A w \in Workers : At(w, "mutate") <=> mu = w

\* The types, and OneMutation.
TypeOK ==
    /\ OneMutation
    /\ DOMAIN shares \subseteq Names /\ DOMAIN known \subseteq Names
    /\ settling \in BOOLEAN
    /\ mu \in Workers \union {NoOne}
    /\ \A w \in Workers : job[w].pc \in {"idle", "queued", "mutate", "get", "list"}
    /\ \A w \in Workers : At(w, "mutate") => job[w].attempt \in 0 .. ShareBusyAttempts - 1
    /\ budget \in [faults : 0 .. MaxFaults, foreign : 0 .. MaxForeign]

\* A share leaves Terraform's state only when it is gone from the NAS, however its
\* read failed.
NeverForgotten ==
    [][\A n \in DOMAIN known : n \notin DOMAIN known' => n \notin DOMAIN shares']_vars

\* A share that was made by hand and is not to be adopted.
Stranger(n) ==
    /\ shares[n].origin = "hand"
    /\ n \in DOMAIN Config => ~Config[n].adopt \/ shares[n].vol # Config[n].vol

\* A share made by hand and not to be adopted is left alone, lost answers and repeated
\* requests included, while Terraform does not have one of its name; and it has none, as
\* long as nobody puts a share by hand in the place of one he has removed.
HandsOff ==
    [][budget'.foreign = budget.foreign =>
          \A n \in DOMAIN shares :
              /\ Stranger(n)
              /\ \/ n \notin DOMAIN known
                 \/ n \notin DOMAIN InitKnown /\ budget.foreign + 1 >= MaxForeign
              => n \in DOMAIN shares' /\ shares'[n] = shares[n]]_vars

\* A share found on the NAS that may be adopted, without the flag that is wanted and
\* that DSM accepts at creation only: once adopted it is to be replaced.
LacksFlag(n) ==
    /\ n \in DOMAIN InitShares
    /\ MayAdopt(n) /\ Adoptable(n, InitShares[n])
    /\ NeedsReplacement(Settings(InitShares[n]), Config[n])

\* A share made by hand is never destroyed, with everything in it, while the
\* configuration still wants it, save one that lacks such a flag.
ContentsKept ==
    [][budget'.foreign = budget.foreign =>
          \A n \in DOMAIN shares :
              /\ shares[n].origin = "hand"
              /\ n \in DOMAIN Config \ DOMAIN InitKnown /\ ~LacksFlag(n)
              => n \in DOMAIN shares']_vars

\* What was made by hand is left alone, or at the least kept.
HandMadeIsSafe == HandsOff /\ ContentsKept

\* Nothing but a fault stands in the way of having this share as configured.
Attainable(n) ==
    n \in DOMAIN shares \ DOMAIN known => Config[n].adopt /\ Adoptable(n, shares[n])

\* However an apply is interrupted, applying again brings every share to what is
\* configured, and into the state, unless something is in the way that only a person
\* can remove.
Converges ==
    \A n \in DOMAIN Config :
        <>[](Attainable(n) =>
                /\ n \in DOMAIN shares /\ Settings(shares[n]) = Settings(Config[n])
                /\ n \in DOMAIN known /\ known[n] = Settings(Config[n]))
=============================================================================
