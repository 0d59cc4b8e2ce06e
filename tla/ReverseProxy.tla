---------------------------- MODULE ReverseProxy ----------------------------
(***************************************************************************)
(* Reverse proxy entries: list, create, update and delete under            *)
(* reverseProxyMu (client/reverse_proxy.go), and dsm_reverse_proxy as      *)
(* terraform apply runs it (provider/resource_reverse_proxy.go).           *)
(*                                                                         *)
(* An entry is [desc, front, dest, http2, by, open]: its description, the  *)
(* listener, what it is served from, the flag DSM may not report; who made *)
(* it, and (of one made by hand) the resources that looked for one of its  *)
(* description at that moment, or imported one of it.  Its UUID is never   *)
(* used again.                                                             *)
(***************************************************************************)
EXTENDS Naturals, Sequences

CONSTANTS
    Resources,
    Config,       \* resource -> [desc, front]
    Plans,        \* resource -> what is configured one after the other, Gone for destroy
    HandMade,     \* the [desc, front, dest] a person may add
    StoresHTTP2,  \* does this build of DSM keep the flag?
    Faults,       \* what may go wrong, a subset of FaultKinds
    MaxFaults,    \* bound: how many times something goes wrong
    MaxHand,      \* bound: how many times a person changes something
    MaxUUID       \* bound: UUIDs given out

FaultKinds == {"read", "refused", "lost", "timeout", "restart"}

NoOne == "no one"
Hand == "hand"
Gone == [dest |-> "gone", http2 |-> FALSE]
NoUUID == 0
None == [uuid |-> NoUUID, dest |-> "none", http2 |-> FALSE, tainted |-> FALSE]

Wishes == [dest : STRING, http2 : BOOLEAN]

ASSUME ResourcesAssumption == {NoOne, Hand} \intersect Resources = {}
ASSUME ConfigAssumption == \A r \in Resources : Config[r] \in [desc : STRING, front : STRING]
ASSUME PlansAssumption == \A r \in Resources : Plans[r] \in Seq(Wishes) /\ Plans[r] # <<>>
ASSUME HandMadeAssumption ==
    \A h \in HandMade : h \in [desc : STRING, front : STRING, dest : STRING]
ASSUME FaultsAssumption == Faults \subseteq FaultKinds
ASSUME BoundsAssumption == MaxFaults \in Nat /\ MaxHand \in Nat /\ MaxUUID \in Nat

VARIABLES
    entries,   \* UUID -> entry
    fresh,     \* the UUID DSM gives out next
    known,     \* Terraform's state: resource -> None or [uuid, dest, http2, tainted]
    stage,     \* resource -> index in Plans
    mu,        \* holder of reverseProxyMu
    job,       \* where each resource's operation is
    stranded,  \* resources whose create was cut off after DSM had performed it, or
               \* ended with another entry of the same description
    budget     \* what is left of the bounds

vars == <<entries, fresh, known, stage, mu, job, stranded, budget>>

Idle == [pc |-> "idle", verb |-> "none", tries |-> 0, raw |-> "unset", uuid |-> NoUUID]

Init ==
    /\ entries = [u \in {} |-> {}]
    /\ fresh = 1
    /\ known = [r \in Resources |-> None]
    /\ stage = [r \in Resources |-> 1]
    /\ mu = NoOne
    /\ job = [r \in Resources |-> Idle]
    /\ stranded = {}
    /\ budget = [faults |-> MaxFaults, hand |-> MaxHand]

Want(r) == Plans[r][stage[r]]

At(r, pc) == job[r].pc = pc
Queued(verb) == [Idle EXCEPT !.pc = "queued", !.verb = verb]
ReadingBack(verb, uuid) == [Idle EXCEPT !.pc = "readback", !.verb = verb, !.uuid = uuid]

Drop(f, x) == [y \in DOMAIN f \ {x} |-> f[y]]

\* findReverseProxyByDescription takes the first of the list, whose order is DSM's.
Described(r) == {u \in DOMAIN entries : entries[u].desc = Config[r].desc}

\* Another entry than u has the listener; DSM refuses a second one.
FrontTaken(r, u) == \E w \in DOMAIN entries \ {u} : entries[w].front = Config[r].front

----------------------------------------------------------------------------
(***************************************************************************)
(* How an operation goes on and ends.                                      *)
(***************************************************************************)
Goto(r, pc) == job' = [job EXCEPT ![r].pc = pc]

\* Mutant: an operation that ends keeps the lock.
KeepLock(r) == job' = [job EXCEPT ![r] = Idle] /\ UNCHANGED mu

\* The deferred unlock.
End(r) ==
    /\ job' = [job EXCEPT ![r] = Idle]
    /\ mu' = IF mu = r THEN NoOne ELSE mu

\* An error leaves the state as it was; a failed create records nothing.
Fail(r) == End(r) /\ UNCHANGED known

Forget(r) == End(r) /\ known' = [known EXCEPT ![r] = None]

Fault(kind) ==
    /\ kind \in Faults
    /\ budget.faults > 0
    /\ budget' = [budget EXCEPT !.faults = @ - 1]

\* The flag as the state has it: what was there before if DSM does not report it.
ShownHTTP2(prior, e) == IF e.http2 = "unset" THEN prior ELSE e.http2 = "on"

\* parseReverseProxyMap and applyReverseProxy: an entry as the state keeps it.
Parsed(u, prior, tainted) ==
    [uuid |-> u, dest |-> entries[u].dest, http2 |-> ShownHTTP2(prior, entries[u]),
     tainted |-> tainted]

\* applyReverseProxy after a write.  A create that ends in something else than its
\* plan is tainted by Terraform.
Record(r, u) ==
    LET asPlanned == /\ entries[u].dest = Want(r).dest /\ entries[u].front = Config[r].front
                     /\ ShownHTTP2(Want(r).http2, entries[u]) = Want(r).http2
    IN  /\ End(r)
        /\ known' = [known EXCEPT ![r] =
              Parsed(u, Want(r).http2, job[r].verb = "create" /\ ~asPlanned)]

----------------------------------------------------------------------------
(***************************************************************************)
(* terraform apply for one resource: refresh, plan, one operation.         *)
(***************************************************************************)
Begin(r) ==
    /\ At(r, "idle")
    /\ \/ /\ known[r] # None
          /\ job' = [job EXCEPT ![r] = [Idle EXCEPT !.pc = "read"]]
       \/ /\ known[r] = None /\ Want(r) # Gone
          /\ job' = [job EXCEPT ![r] = Queued("create")]
    /\ UNCHANGED <<entries, fresh, known, stage, mu, stranded, budget>>

\* What the plan does about an entry as it was read.
PlannedVerb(r, seen) ==
    IF Want(r) = Gone \/ seen.tainted THEN "delete"
    ELSE IF /\ seen.dest = Want(r).dest /\ seen.http2 = Want(r).http2
            /\ entries[seen.uuid].front = Config[r].front THEN "nothing"
    ELSE "update"

\* Mutant: a refresh keeps the destination of the state.
KeepsDestination(r, u) ==
    /\ known' = [known EXCEPT ![r].uuid = u]
    /\ job' = [job EXCEPT ![r] =
          IF Want(r) = Gone \/ known[r].tainted THEN Queued("delete")
          ELSE IF known[r].dest # Want(r).dest THEN Queued("update")
          ELSE Idle]
    /\ UNCHANGED mu

\* applyReverseProxy in a refresh, and the plan that follows.
Refreshed(r, u) ==
    LET seen == Parsed(u, known[r].http2, known[r].tainted)
        verb == PlannedVerb(r, seen)
    IN  /\ known' = [known EXCEPT ![r] = seen]
        /\ job' = [job EXCEPT ![r] = IF verb = "nothing" THEN Idle
                                     ELSE Queued(verb)]
        /\ UNCHANGED mu

\* GetReverseProxy.
Read(r) ==
    /\ At(r, "read")
    /\ \/ known[r].uuid \in DOMAIN entries /\ Refreshed(r, known[r].uuid) /\ UNCHANGED budget
       \/ /\ known[r].uuid \notin DOMAIN entries
          /\ Goto(r, "readByDescription")
          /\ UNCHANGED <<known, mu, budget>>
       \/ Fault("read") /\ Fail(r)
    /\ UNCHANGED <<entries, fresh, stage, stranded>>

\* GetReverseProxyByDescription, before the entry is declared gone.
ReadByDescription(r) ==
    /\ At(r, "readByDescription")
    /\ \/ (\E u \in Described(r) : Refreshed(r, u)) /\ UNCHANGED budget
       \/ Described(r) = {} /\ Forget(r) /\ UNCHANGED budget
       \/ Fault("read") /\ Fail(r)
    /\ UNCHANGED <<entries, fresh, stage, stranded>>

\* The first step of each operation under the lock.
FirstStep(verb) ==
    CASE verb = "create" -> "check" [] verb = "update" -> "current" [] verb = "delete" -> "exists"

TakeReverseProxyMu(r) ==
    /\ At(r, "queued")
    /\ mu = NoOne
    /\ mu' = r
    /\ job' = [job EXCEPT ![r] = [@ EXCEPT !.pc = FirstStep(job[r].verb)]]
    /\ UNCHANGED <<entries, fresh, known, stage, stranded, budget>>

\* The access control profile of the configuration cannot be resolved by its name.
ProfileNotFound(r) ==
    /\ At(r, "queued")
    /\ job[r].verb \in {"create", "update"}
    /\ Fault("read")
    /\ Fail(r)
    /\ UNCHANGED <<entries, fresh, stage, stranded>>

----------------------------------------------------------------------------
(***************************************************************************)
(* What DSM stores, and how a POST ends.                                   *)
(***************************************************************************)
\* http2 is only ever sent as true; anything else leaves what DSM had (entry.raw).
EncodedHTTP2(want, raw) ==
    IF ~StoresHTTP2 THEN "unset" ELSE IF want.http2 THEN "on" ELSE raw

NewEntry(r) ==
    [desc |-> Config[r].desc, front |-> Config[r].front, dest |-> Want(r).dest,
     http2 |-> EncodedHTTP2(Want(r), "unset"), by |-> r, open |-> {}]

\* A connection that breaks is tried again: the second request is answered 119
\* (Session), the third is the last.
RetryLost(r) ==
    /\ Fault("lost")
    /\ job[r].tries = 0
    /\ job' = [job EXCEPT ![r].tries = 1]
    /\ UNCHANGED <<known, mu>>

\* Nothing more is tried: a timeout is not repeated, and the attempts are used up.
LostForGood(r) ==
    /\ \/ Fault("timeout")
       \/ Fault("lost") /\ job[r].tries > 0
    /\ Fail(r)

Refused(r) ==
    /\ job[r].pc \in {"create", "set", "remove"}
    /\ Fault("refused")
    /\ Fail(r)
    /\ stranded' = IF At(r, "create") /\ job[r].tries > 0 THEN stranded \union {r} ELSE stranded
    /\ UNCHANGED <<entries, fresh, stage>>

----------------------------------------------------------------------------
(***************************************************************************)
(* CreateReverseProxy.                                                     *)
(***************************************************************************)
\* Mutant: DSM is trusted to refuse what exists.
SkipCheck(r) ==
    /\ At(r, "check")
    /\ Goto(r, "create")
    /\ UNCHANGED <<entries, fresh, known, stage, mu, stranded, budget>>

Check(r) ==
    /\ At(r, "check")
    /\ \/ Described(r) # {} /\ Fail(r) /\ UNCHANGED budget
       \/ Described(r) = {} /\ Goto(r, "create") /\ UNCHANGED <<known, mu, budget>>
       \/ Fault("read") /\ Fail(r)
    /\ UNCHANGED <<entries, fresh, stage, stranded>>

Create(r) ==
    /\ At(r, "create")
    /\ ~FrontTaken(r, NoUUID)
    /\ fresh <= MaxUUID
    /\ entries' = [u \in DOMAIN entries \union {fresh} |->
                      IF u = fresh THEN NewEntry(r) ELSE entries[u]]
    /\ fresh' = fresh + 1
    /\ \/ \* DSM may or may not echo the UUID.
          /\ \E echoed \in {NoUUID, fresh} :
                job' = [job EXCEPT ![r] = ReadingBack("create", echoed)]
          /\ UNCHANGED <<known, mu, stranded, budget>>
       \/ RetryLost(r) /\ UNCHANGED stranded
       \/ LostForGood(r) /\ stranded' = stranded \union {r}
    /\ UNCHANGED stage

\* Mutant: 4154 is an error like any other.
FailOn4154(r) ==
    /\ At(r, "create")
    /\ FrontTaken(r, NoUUID)
    /\ Fail(r)
    /\ UNCHANGED <<entries, fresh, stage, stranded, budget>>

\* 4154: the entry of this description is adopted, if there is one.
AlreadyExists(r) ==
    /\ At(r, "create")
    /\ FrontTaken(r, NoUUID)
    /\ job' = [job EXCEPT ![r] = ReadingBack("create", NoUUID)]
    /\ UNCHANGED <<entries, fresh, known, stage, mu, stranded, budget>>

\* The entry is read back, by its UUID if that is known; a create whose entry cannot be
\* read fails although it was performed.
ReadBack(r) ==
    LET found == IF job[r].uuid = NoUUID THEN Described(r)
                 ELSE {job[r].uuid} \intersect DOMAIN entries
        mine  == {u \in DOMAIN entries : entries[u].by = r}
    IN  /\ At(r, "readback")
        /\ \/ \E u \in found :
                 /\ Record(r, u)
                 /\ stranded' = IF mine \subseteq {u} THEN stranded ELSE stranded \union {r}
                 /\ UNCHANGED budget
           \/ found = {} /\ Fail(r) /\ UNCHANGED <<stranded, budget>>
           \/ /\ Fault("read")
              /\ Fail(r)
              /\ stranded' = IF job[r].verb = "create" /\ mine # {}
                             THEN stranded \union {r} ELSE stranded
        /\ UNCHANGED <<entries, fresh, stage>>

----------------------------------------------------------------------------
(***************************************************************************)
(* UpdateReverseProxy and DeleteReverseProxy.                              *)
(***************************************************************************)
Current(r) ==
    LET u == known[r].uuid
    IN  /\ At(r, "current")
        /\ \/ /\ u \in DOMAIN entries
              /\ job' = [job EXCEPT ![r] = [@ EXCEPT !.pc = "set", !.raw = entries[u].http2]]
              /\ UNCHANGED <<known, mu, budget>>
           \/ u \notin DOMAIN entries /\ Fail(r) /\ UNCHANGED budget
           \/ Fault("read") /\ Fail(r)
        /\ UNCHANGED <<entries, fresh, stage, stranded>>

Update(r) ==
    LET u == known[r].uuid
    IN  /\ At(r, "set")
        /\ \/ /\ u \in DOMAIN entries /\ ~FrontTaken(r, u)
              /\ entries' = [entries EXCEPT ![u].front = Config[r].front,
                                            ![u].dest = Want(r).dest,
                                            ![u].http2 = EncodedHTTP2(Want(r), job[r].raw)]
              /\ \/ /\ job' = [job EXCEPT ![r] = ReadingBack("update", u)]
                    /\ UNCHANGED <<known, mu, budget>>
                 \/ RetryLost(r)
                 \/ LostForGood(r)
           \/ /\ u \notin DOMAIN entries \/ FrontTaken(r, u)
              /\ Fail(r)
              /\ UNCHANGED <<entries, budget>>
        /\ UNCHANGED <<fresh, stage, stranded>>

Exists(r) ==
    LET u == known[r].uuid
    IN  /\ At(r, "exists")
        /\ \/ u \in DOMAIN entries /\ Goto(r, "remove") /\ UNCHANGED <<known, mu, budget>>
           \/ u \notin DOMAIN entries /\ Forget(r) /\ UNCHANGED budget
           \/ Fault("read") /\ Fail(r)
        /\ UNCHANGED <<entries, fresh, stage, stranded>>

Delete(r) ==
    LET u == known[r].uuid
    IN  /\ At(r, "remove")
        /\ \/ /\ u \in DOMAIN entries
              /\ entries' = Drop(entries, u)
              /\ \/ Forget(r) /\ UNCHANGED budget
                 \/ RetryLost(r)
                 \/ LostForGood(r)
           \/ u \notin DOMAIN entries /\ Fail(r) /\ UNCHANGED <<entries, budget>>
        /\ UNCHANGED <<fresh, stage, stranded>>

----------------------------------------------------------------------------
(***************************************************************************)
(* What is not the provider.                                               *)
(***************************************************************************)
\* The configuration is edited between two applies.
Reconfigure(r) ==
    /\ At(r, "idle")
    /\ stage[r] < Len(Plans[r])
    /\ stage' = [stage EXCEPT ![r] = @ + 1]
    /\ UNCHANGED <<entries, fresh, known, mu, job, stranded, budget>>

\* terraform import, by UUID or description.
Import(r) ==
    /\ At(r, "idle") /\ known[r] = None
    /\ budget.hand > 0
    /\ budget' = [budget EXCEPT !.hand = @ - 1]
    /\ \E u \in Described(r) :
          /\ known' = [known EXCEPT ![r] = Parsed(u, FALSE, FALSE)]
          /\ entries' = [v \in DOMAIN entries |->
                            IF v \in Described(r) THEN [entries[v] EXCEPT !.open = @ \union {r}]
                            ELSE entries[v]]
          /\ stranded' = IF entries[u].by = r THEN stranded \ {r} ELSE stranded
    /\ UNCHANGED <<fresh, stage, mu, job>>

\* The resources that stand for an entry of this description, or are about to.
LookingFor(desc) ==
    {r \in Resources : /\ Config[r].desc = desc
                       /\ known[r] # None \/ job[r].pc \in {"create", "readback"}}

\* A person adds, removes or edits an entry in DSM's interface.
ByHand ==
    /\ budget.hand > 0
    /\ budget' = [budget EXCEPT !.hand = @ - 1]
    /\ \/ \E h \in HandMade :
            /\ fresh <= MaxUUID
            /\ \A u \in DOMAIN entries : entries[u].front # h.front
            /\ entries' = [u \in DOMAIN entries \union {fresh} |->
                  IF u # fresh THEN entries[u]
                  ELSE [desc |-> h.desc, front |-> h.front, dest |-> h.dest,
                        http2 |-> "unset", by |-> Hand, open |-> LookingFor(h.desc)]]
            /\ fresh' = fresh + 1
       \/ \E u \in DOMAIN entries :
            /\ \/ entries' = Drop(entries, u)
               \/ entries' = [entries EXCEPT ![u].dest = "by hand"]
            /\ UNCHANGED fresh
    /\ UNCHANGED <<known, stage, mu, job, stranded>>

\* The provider process ends.
Restart ==
    /\ Fault("restart")
    /\ mu' = NoOne
    /\ job' = [r \in Resources |-> Idle]
    /\ stranded' = stranded \union
         {r \in Resources : /\ known[r] = None /\ job[r].pc \in {"create", "readback"}
                            /\ \E u \in DOMAIN entries : entries[u].by = r}
    /\ UNCHANGED <<entries, fresh, known, stage>>

Step(r) ==
    \/ Read(r) \/ ReadByDescription(r) \/ ProfileNotFound(r)
    \/ Check(r) \/ Create(r) \/ AlreadyExists(r) \/ ReadBack(r)
    \/ Current(r) \/ Update(r) \/ Exists(r) \/ Delete(r) \/ Refused(r)

Next ==
    \/ \E r \in Resources : Begin(r) \/ TakeReverseProxyMu(r) \/ Step(r) \/ Reconfigure(r)
                          \/ Import(r)
    \/ ByHand \/ Restart

Spec == Init /\ [][Next]_vars

\* Requests are answered or time out, Go's mutex does not starve a waiter, and
\* terraform apply is run again.
FairSpec ==
    /\ Spec
    /\ \A r \in Resources : WF_vars(Begin(r)) /\ WF_vars(Step(r)) /\ SF_vars(TakeReverseProxyMu(r))

----------------------------------------------------------------------------
(***************************************************************************)
(* Properties.                                                             *)
(***************************************************************************)
Locked == {"check", "create", "readback", "current", "set", "exists", "remove"}

\* The types, and: whoever is past taking the lock holds it, and nobody else does.
TypeOK ==
    /\ DOMAIN entries \subseteq 1 .. MaxUUID /\ fresh \in 1 .. MaxUUID + 1
    /\ \A u \in DOMAIN entries : u < fresh
    /\ \A r \in Resources : known[r] # None => known[r].uuid \in 1 .. fresh - 1
    /\ \A r \in Resources : stage[r] \in DOMAIN Plans[r]
    /\ mu \in Resources \union {NoOne}
    /\ stranded \subseteq Resources
    /\ \A r \in Resources : job[r].pc \in
            {"idle", "read", "readByDescription", "queued"} \union Locked
    /\ \A r \in Resources : mu = r <=> job[r].pc \in Locked

\* An entry that a resource created is in Terraform's state, or its create is still
\* going on, or that create was cut off and has reported an error, or another entry of
\* the description appeared meanwhile: whatever is read, repeated or taken over, no
\* entry is left behind silently.
NothingLeftBehind ==
    \A u \in DOMAIN entries :
        LET r == entries[u].by
        IN  r # Hand /\ r \notin stranded =>
                \/ known[r] # None /\ known[r].uuid = u
                \/ job[r].pc \in {"create", "readback"}

\* The state stands for an entry made by hand only if that entry was made while the
\* resource was between its check and its read-back, or had an entry in the state
\* already, or it or another one of its description was imported.  Every update and
\* delete goes to the entry of the state.
HandsOff ==
    \A r \in Resources :
        known[r] # None /\ known[r].uuid \in DOMAIN entries =>
            LET e == entries[known[r].uuid] IN e.by = Hand => r \in e.open

\* What only a person can solve: an entry of that name or listener which no state has.
InTheWay(r) ==
    \/ known[r] = None /\ r \in stranded
    \/ known[r] = None /\ \E u \in Described(r) : entries[u].by # r
    \/ FrontTaken(r, known[r].uuid)

AsConfigured(r) ==
    IF Want(r) = Gone
    THEN known[r] = None /\ (r \in stranded \/ \A u \in DOMAIN entries : entries[u].by # r)
    ELSE /\ known[r] # None /\ known[r].uuid \in DOMAIN entries
         /\ ~known[r].tainted
         /\ LET e == entries[known[r].uuid]
            IN  /\ e.dest = Want(r).dest /\ e.front = Config[r].front
                /\ StoresHTTP2 /\ Want(r).http2 => e.http2 = "on"

\* Applying again ends with every entry as it is configured, lost answers, refused
\* requests and changes by hand included, unless something is in the way.  HTTP/2 is
\* switched on but never off again: the update carries what DSM had.
Converges == \A r \in Resources : <>[](AsConfigured(r) \/ InTheWay(r))
=============================================================================
