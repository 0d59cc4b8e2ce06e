----------------------------- MODULE WholeLists -----------------------------
(***************************************************************************)
(* Share permissions, user quotas and the clock settings, edited by        *)
(* reading the list, changing an entry and writing the list back whole,    *)
(* under Client.mu (client/share_permission.go, client/user_quota.go,      *)
(* client/system_settings.go), and what Terraform records of it            *)
(* (provider/resource_share_permission.go, provider/resource_user_quota.go,*)
(* provider/resource_system_settings.go).                                  *)
(***************************************************************************)
EXTENDS EditedLists

CONSTANTS
    Workers,
    InitLists,    \* the lists to begin with
    Recorded,     \* the resources Terraform's state has to begin with
    Faults,       \* what may go wrong, a subset of FaultKinds
    MaxFailures,  \* bound: how many calls fail
    MaxRestarts,  \* bound: how many times the provider process ends
    MaxForeign    \* bound: how many entries DSM's own interface removes

FaultKinds == {"read", "rejected", "lost", "verb"}

NoOne == "no one"

ASSUME FaultsAssumption == Faults \subseteq FaultKinds
ASSUME WorkersAssumption == NoOne \notin Workers
ASSUME BoundsAssumption == MaxFailures \in Nat /\ MaxRestarts \in Nat /\ MaxForeign \in Nat

\* Permissions and quotas are set for one name at a time; "clock" is no name of an entry.
ASSUME RequestsAssumption ==
    \A req \in Requests :
        /\ req.list \in DOMAIN InitLists
        /\ req.op \in {"set", "remove", "unlimit", "clock"}
        /\ req.op = "clock" <=> req.name = "clock"
        /\ req.op = "set" => DOMAIN req.fields = {req.name}
        /\ req.op = "clock" => /\ req.want \in {"keep", "on", "off"}
                               /\ "enable_ntp" \in DOMAIN InitLists[req.list]

\* Permissions, quotas and clocks are different lists, and a quota is a number.
ASSUME KindsAssumption ==
    \A req \in Requests :
        /\ req.op = "unlimit" =>
              \A n \in DOMAIN InitLists[req.list] : InitLists[req.list][n] \in Nat
        /\ \A other \in Requests : other.list = req.list =>
              /\ req.op = "clock" <=> other.op = "clock"
              /\ req.op = "unlimit" /\ other.op = "set" => other.fields[other.name] \in Nat

VARIABLES
    mu,     \* holder of Client.mu
    job,    \* where each worker is in its operation
    todo,   \* operations not yet run, or to be run again
    known,  \* Terraform's state: resource -> its value, as last read
    budget  \* what is left of the bounds

vars == <<lists, mu, job, todo, known, budget>>

Idle == [pc |-> "idle"]

Busy == {w \in Workers : job[w].pc # "idle"}

\* The Terraform resource an operation belongs to.
ResourceOf(req) == <<req.list, req.name>>

\* The clock resource is the whole list, the others are one entry of theirs.
IsThere(list, name) == name = "clock" \/ name \in DOMAIN list

ValueOf(list, name) == IF name = "clock" THEN list ELSE list[name]

Without(f, x) == [y \in DOMAIN f \ {x} |-> f[y]]

With(f, x, v) == [y \in DOMAIN f \union {x} |-> IF y = x THEN v ELSE f[y]]

ASSUME RecordedAssumption ==
    \A r \in Recorded : \E req \in Requests :
        r = ResourceOf(req) /\ IsThere(InitLists[req.list], req.name)

Init ==
    /\ lists = InitLists
    /\ mu = NoOne
    /\ job = [w \in Workers |-> Idle]
    /\ todo = Requests
    /\ known = [r \in Recorded |-> ValueOf(InitLists[r[1]], r[2])]
    /\ budget = [failures |-> MaxFailures, restarts |-> MaxRestarts, foreign |-> MaxForeign]

----------------------------------------------------------------------------
At(w, pc) == job[w].pc = pc

\* Mutants: nobody waits for the lock; nobody gives it back.
MuIgnored == TRUE
StayLocked(w) == UNCHANGED mu

MuFree == mu = NoOne

\* The unlock of the path that is taken; a read-back has given up the lock already.
Unlock(w) == mu' = IF mu = w THEN NoOne ELSE mu

Done(w) ==
    /\ job' = [job EXCEPT ![w] = Idle]
    /\ Unlock(w)
    /\ UNCHANGED <<todo, budget>>

\* A failed operation leaves Terraform's state as it was and is not tried again by
\* itself; a later apply runs it again.
Fail(w, fault) ==
    /\ fault \in Faults
    /\ budget.failures > 0
    /\ budget' = [budget EXCEPT !.failures = @ - 1]
    /\ job' = [job EXCEPT ![w] = Idle]
    /\ Unlock(w)
    /\ todo' = todo \union {job[w].req}
    /\ UNCHANGED known

\* A permission or a quota is taken away only where the state has one; what is asked
\* for is created if the state has none, and updated if it has.
Planned(req) == req.op \in {"remove", "unlimit"} => ResourceOf(req) \in DOMAIN known

Start(w, req) ==
    /\ At(w, "idle")
    /\ req \in todo /\ Planned(req)
    /\ \A v \in Busy : ResourceOf(job[v].req) # ResourceOf(req)
    /\ job' = [job EXCEPT ![w] = [pc |-> "queued", req |-> req]]
    /\ todo' = todo \ {req}
    /\ UNCHANGED <<lists, mu, known, budget>>

\* The lock is taken and the list is read.
LockAndList(w) ==
    /\ At(w, "queued")
    /\ MuFree
    /\ \/ /\ mu' = w
          /\ job' = [job EXCEPT ![w] = [pc |-> "listed", req |-> @.req,
                                        before |-> lists[@.req.list]]]
          /\ UNCHANGED <<todo, known, budget>>
       \/ Fail(w, "read")
    /\ UNCHANGED lists

\* A quota that is not there needs no write.
SkipWrite(w) ==
    /\ At(w, "listed")
    /\ LET req == job[w].req
       IN  /\ req.op = "unlimit"
           /\ req.name \notin DOMAIN job[w].before
           /\ known' = Without(known, ResourceOf(req))
    /\ Done(w)
    /\ UNCHANGED lists

\* The list becomes what was made of the one that was read.
PutList(req, before) == [lists EXCEPT ![req.list] = Edited(req, before)]

\* The write has its effect.  What was taken away leaves the state; a set gives up the
\* lock and reads its entry back without it, and the state stays until then.
WriteTakes(w) ==
    /\ lists' = PutList(job[w].req, job[w].before)
    /\ \/ /\ job[w].req.op \in {"remove", "unlimit"}
          /\ known' = Without(known, ResourceOf(job[w].req))
          /\ Done(w)
       \/ /\ job[w].req.op \in {"set", "clock"}
          /\ job' = [job EXCEPT ![w] = [pc |-> "readback", req |-> @.req]]
          /\ mu' = NoOne
          /\ UNCHANGED <<todo, known, budget>>

\* Mutant: what was asked for is recorded before the error is looked at.
RecordsAtOnce(w) ==
    /\ "rejected" \in Faults
    /\ budget.failures > 0
    /\ budget' = [budget EXCEPT !.failures = @ - 1]
    /\ known' = LET req  == job[w].req
                    list == Edited(req, job[w].before)
                IN  IF IsThere(list, req.name)
                    THEN With(known, ResourceOf(req), ValueOf(list, req.name))
                    ELSE Without(known, ResourceOf(req))
    /\ job' = [job EXCEPT ![w] = Idle]
    /\ Unlock(w)
    /\ todo' = todo \union {job[w].req}
    /\ UNCHANGED lists

\* The call failed, and DSM may have performed it all the same: the state keeps the
\* old value over DSM's new one.
WriteFails(w) ==
    \/ /\ Fail(w, "rejected")
       /\ UNCHANGED lists
    \/ /\ Fail(w, "lost")
       /\ lists' = PutList(job[w].req, job[w].before)

Write(w) ==
    /\ At(w, "listed")
    /\ job[w].req.op = "unlimit" => job[w].req.name \in DOMAIN job[w].before
    /\ WriteTakes(w) \/ WriteFails(w)

\* setRegionNTP: a POST answered with "wrong shape of call" is followed by a GET.
WrongVerb(w) ==
    /\ "verb" \in Faults
    /\ At(w, "listed")
    /\ job[w].req.op = "clock"
    /\ job' = [job EXCEPT ![w].pc = "fallback"]
    /\ UNCHANGED <<lists, mu, todo, known, budget>>

Fallback(w) ==
    /\ At(w, "fallback")
    /\ WriteTakes(w) \/ WriteFails(w)

\* The read-back of a set becomes Terraform's state; an entry that is not there by
\* then is an error like a list that does not answer.
ReadBack(w) ==
    /\ At(w, "readback")
    /\ LET req  == job[w].req
           list == lists[req.list]
       IN  \/ /\ IsThere(list, req.name)
              /\ known' = With(known, ResourceOf(req), ValueOf(list, req.name))
              /\ Done(w)
           \/ Fail(w, "read")
           \/ /\ ~IsThere(list, req.name)
              /\ job' = [job EXCEPT ![w] = Idle]
              /\ todo' = todo \union {req}
              /\ UNCHANGED <<mu, known, budget>>
    /\ UNCHANGED lists

\* terraform refresh: only a list that answered without the entry drops it.
Refresh(req) ==
    /\ \A v \in Busy : ResourceOf(job[v].req) # ResourceOf(req)
    /\ ResourceOf(req) \in DOMAIN known
    /\ known' = IF IsThere(lists[req.list], req.name)
                THEN With(known, ResourceOf(req), ValueOf(lists[req.list], req.name))
                ELSE Without(known, ResourceOf(req))
    /\ UNCHANGED <<lists, mu, job, todo, budget>>

Restart ==
    /\ budget.restarts > 0
    /\ budget' = [budget EXCEPT !.restarts = @ - 1]
    /\ mu' = NoOne
    /\ todo' = todo \union {job[w].req : w \in Busy}
    /\ job' = [w \in Workers |-> Idle]
    /\ UNCHANGED <<lists, known>>

\* DSM's own interface removes an entry.
ForeignRemove ==
    /\ budget.foreign > 0
    /\ budget' = [budget EXCEPT !.foreign = @ - 1]
    /\ \E req \in Requests :
        /\ req.op # "clock"
        /\ lists' = [lists EXCEPT ![req.list] = Without(@, req.name)]
    /\ UNCHANGED <<mu, job, todo, known>>

Terminating == (\A req \in todo : ~Planned(req)) /\ Busy = {} /\ UNCHANGED vars

Step(w) ==
    \/ LockAndList(w) \/ SkipWrite(w) \/ Write(w)
    \/ WrongVerb(w) \/ Fallback(w) \/ ReadBack(w)

Next ==
    \/ \E w \in Workers, req \in Requests : Start(w, req)
    \/ \E w \in Workers : Step(w)
    \/ \E req \in Requests : Refresh(req)
    \/ ForeignRemove
    \/ Restart
    \/ Terminating

Spec == Init /\ [][Next]_vars

\* An operation under way is carried on: every call is answered or times out, and
\* Go's mutex hands itself to a waiter.
FairSpec == Spec /\ \A w \in Workers : WF_vars(Step(w))

----------------------------------------------------------------------------
(***************************************************************************)
(* Properties.                                                             *)
(***************************************************************************)
\* A list is read and written back by one operation at a time.
OneEditor == \A w \in Workers : job[w].pc \in {"listed", "fallback"} <=> mu = w

\* The types, and OneEditor.
TypeOK ==
    /\ OneEditor
    /\ DOMAIN lists = DOMAIN InitLists
    /\ \A req \in Requests : req.op = "unlimit" =>
          \A n \in DOMAIN lists[req.list] : lists[req.list][n] \in Nat
    /\ mu \in Workers \union {NoOne}
    /\ \A w \in Workers :
          job[w].pc \in {"idle", "queued", "listed", "fallback", "readback"}
    /\ \A w \in Busy : job[w].req \in Requests
    /\ todo \subseteq Requests
    /\ DOMAIN known \subseteq {ResourceOf(req) : req \in Requests}
    /\ budget \in [failures : 0 .. MaxFailures, restarts : 0 .. MaxRestarts,
                    foreign : 0 .. MaxForeign]

NothingForeign == budget.foreign = MaxForeign

\* The list that is about to be written back was made from the one DSM has: no
\* entry that another operation set in the meantime is put back to what it was.
FreshList ==
    NothingForeign =>
        \A w \in Workers :
            job[w].pc \in {"listed", "fallback"} => job[w].before = lists[job[w].req.list]

\* As long as DSM's own interface changes nothing, every change of a list is one
\* operation's edit of it, done at once: no edit is lost, repeated or half done.
EditsAreAtomic == [][NothingForeign' => AnEdit]_lists

\* What Terraform's state says of a permission, a quota or the clock is what DSM has;
\* where it is not, DSM already has the whole of what an operation of that resource
\* asks for, and that operation is under way or, having ended in an error, is to be
\* run again.  So a failed update, the read-back that fails after a write and the
\* clock's second call that is lost never leave the state and DSM apart for good, and
\* no other operation's write ever does.
Outstanding == todo \union {job[w].req : w \in Busy}

HasTaken(req) == Edited(req, lists[req.list]) = lists[req.list]

StateIsTrue ==
    NothingForeign =>
        \A req \in Requests :
            LET r == ResourceOf(req)
            IN  r \in DOMAIN known =>
                    \/ /\ IsThere(lists[req.list], req.name)
                       /\ known[r] = ValueOf(lists[req.list], req.name)
                    \/ \E asked \in Outstanding : ResourceOf(asked) = r /\ HasTaken(asked)

\* The read-back happens without the lock and still answers with the very value
\* that was asked for.
AnswerIsOwn ==
    [][\A w \in Workers :
          /\ ReadBack(w) /\ NothingForeign
          /\ budget' = budget
          /\ job[w].req.op = "set"
          => /\ ResourceOf(job[w].req) \in DOMAIN known'
             /\ known'[ResourceOf(job[w].req)] = job[w].req.fields[job[w].req.name]]_vars

\* Whatever spelling DSM uses for it, a clock write leaves synchronisation on or
\* off as asked, and as it was if nothing was asked.
ClockAsAsked ==
    [][\A w \in Workers :
          job[w].pc \in {"listed", "fallback"} /\ job[w].req.op = "clock" =>
              LET was == ParseNTPEnabled(lists[job[w].req.list].enable_ntp)
                  is  == ParseNTPEnabled(lists'[job[w].req.list].enable_ntp)
              IN  is # was => job[w].req.want = IF is THEN "on" ELSE "off"]_vars

\* Every operation that is started ends: no path keeps the lock.
EveryOperationEnds == \A w \in Workers : job[w].pc # "idle" ~> job[w].pc = "idle"

\* A list changes by whole edits only, a clock by what was asked of it, and what a
\* set answers is what it asked for.
DoneAsAsked == EditsAreAtomic /\ AnswerIsOwn /\ ClockAsAsked
=============================================================================
