-------------------------- MODULE WholeLists_proofs --------------------------
(***************************************************************************)
(* For every set of lists, operations, workers and faults: operations that *)
(* rewrite a list exclude each other (OneEditor), what they write was made *)
(* from what DSM has (FreshList), and so every list changes by one whole   *)
(* edit at a time (EditsAreAtomic), as long as DSM's own interface changes *)
(* nothing meanwhile.  From that follow the types (TypeOK), that where     *)
(* Terraform's state is not what DSM has, DSM has what an operation still  *)
(* to be run asks for (StateIsTrue), and that what is asked for is done    *)
(* (DoneAsAsked).                                                          *)
(***************************************************************************)
EXTENDS WholeLists, TLAPS

Holding == {"listed", "fallback"}

Shaped(j) ==
    /\ j.pc \in {"idle", "queued", "listed", "fallback", "readback"}
    /\ "pc" \in DOMAIN j
    /\ j.pc # "idle" => "req" \in DOMAIN j /\ j.req \in Requests
    /\ j.pc = "listed" => "before" \in DOMAIN j

ForeignBudget ==
    /\ {"failures", "restarts", "foreign"} \subseteq DOMAIN budget
    /\ budget.foreign \in Nat
    /\ budget.foreign <= MaxForeign

\* The inductive invariant.
IInv ==
    /\ mu \in Workers \union {NoOne}
    /\ job = [w \in Workers |-> job[w]]
    /\ todo \subseteq Requests
    /\ \A w \in Workers : Shaped(job[w])
    /\ ForeignBudget
    /\ OneEditor
    /\ FreshList

LEMMA InitIInv == Init => IInv
  BY WorkersAssumption, BoundsAssumption
  DEF Init, IInv, Shaped, ForeignBudget, OneEditor, FreshList, Idle

\* Handing the lock back, or ending without it, leaves the others as they were.
LEMMA EndsIInv ==
  ASSUME NEW w \in Workers, IInv, job[w].pc \in {"queued", "listed", "fallback", "readback"},
         job' = [job EXCEPT ![w] = Idle], Unlock(w), ForeignBudget', todo' \subseteq Requests,
         budget'.foreign = budget.foreign,
         job[w].pc \in Holding \/ UNCHANGED lists
  PROVE  IInv'
<1>1. job'[w] = Idle /\ \A v \in Workers : v # w => job'[v] = job[v]
  BY DEF IInv
<1>2. OneEditor'
  BY <1>1, WorkersAssumption DEF IInv, OneEditor, Unlock, Idle, Holding
<1>3. FreshList'
  <2>1. CASE job[w].pc \in Holding
    BY <1>1, <2>1 DEF IInv, OneEditor, FreshList, Idle, Holding
  <2>2. CASE UNCHANGED lists
    BY <1>1, <2>2 DEF IInv, FreshList, NothingForeign, Idle
  <2> QED
    BY <2>1, <2>2
<1> QED
  BY <1>1, <1>2, <1>3 DEF IInv, Unlock, Shaped, Idle

LEMMA FailIInv ==
  ASSUME NEW w \in Workers, NEW fault, IInv, Fail(w, fault), UNCHANGED lists,
         job[w].pc \in {"queued", "listed", "fallback", "readback"}
  PROVE  IInv'
<1>1. todo' \subseteq Requests
  BY DEF IInv, Fail, Shaped
<1>2. ForeignBudget' /\ budget'.foreign = budget.foreign
  BY DEF IInv, Fail, ForeignBudget
<1> QED
  BY <1>1, <1>2, EndsIInv DEF Fail

LEMMA DoneIInv ==
  ASSUME NEW w \in Workers, IInv, Done(w),
         job[w].pc \in Holding \/ (job[w].pc = "readback" /\ UNCHANGED lists)
  PROVE  IInv'
<1>1. todo' \subseteq Requests /\ ForeignBudget' /\ budget'.foreign = budget.foreign
  BY DEF IInv, Done, ForeignBudget
<1> QED
  BY <1>1, EndsIInv DEF Done, Holding

----------------------------------------------------------------------------
LEMMA LockAndListIInv ==
  ASSUME NEW w \in Workers, IInv, LockAndList(w)
  PROVE  IInv'
<1>1. CASE Fail(w, "read")
  BY <1>1, FailIInv DEF LockAndList, At
<1>2. CASE /\ mu' = w
           /\ job' = [job EXCEPT ![w] = [pc |-> "listed", req |-> @.req,
                                         before |-> lists[@.req.list]]]
           /\ UNCHANGED <<todo, known, budget>>
  <2>1. /\ job'[w] = [pc |-> "listed", req |-> job[w].req, before |-> lists[job[w].req.list]]
        /\ \A v \in Workers : v # w => job'[v] = job[v]
    BY <1>2 DEF IInv
  <2>2. \A v \in Workers : v # w => job[v].pc \notin Holding
    BY WorkersAssumption DEF LockAndList, MuFree, IInv, OneEditor, Holding
  <2>3. OneEditor' /\ FreshList'
    BY <1>2, <2>1, <2>2 DEF LockAndList, OneEditor, FreshList, Holding
  <2>4. Shaped(job'[w])
    BY <2>1 DEF LockAndList, At, IInv, Shaped
  <2> QED
    BY <1>2, <2>1, <2>3, <2>4 DEF IInv, ForeignBudget
<1> QED
  BY <1>1, <1>2 DEF LockAndList

LEMMA WriteIInv ==
  ASSUME NEW w \in Workers, IInv, job[w].pc \in Holding, WriteTakes(w) \/ WriteFails(w)
  PROVE  IInv'
<1>1. CASE Done(w)
  BY <1>1, DoneIInv
<1>2. CASE Fail(w, "rejected") /\ UNCHANGED lists
  BY <1>2, FailIInv DEF Holding
<1>3. CASE /\ job' = [job EXCEPT ![w] = [pc |-> "readback", req |-> @.req]]
           /\ mu' = NoOne
           /\ UNCHANGED <<todo, budget>>
  <2>1. /\ job'[w] = [pc |-> "readback", req |-> job[w].req]
        /\ \A v \in Workers : v # w => job'[v] = job[v]
    BY <1>3 DEF IInv
  <2>2. \A v \in Workers : v # w => job[v].pc \notin Holding
    BY DEF IInv, OneEditor, Holding
  <2>3. OneEditor' /\ FreshList'
    BY <1>3, <2>1, <2>2, WorkersAssumption DEF OneEditor, FreshList, Holding
  <2>4. Shaped(job'[w])
    BY <2>1 DEF IInv, Shaped, Holding
  <2> QED
    BY <1>3, <2>1, <2>3, <2>4 DEF IInv, ForeignBudget
<1>4. CASE Fail(w, "lost")
  <2>1. todo' \subseteq Requests
    BY <1>4 DEF Fail, IInv, Shaped, Holding
  <2>2. ForeignBudget' /\ budget'.foreign = budget.foreign
    BY <1>4 DEF Fail, IInv, ForeignBudget
  <2> QED
    BY <1>4, <2>1, <2>2, EndsIInv DEF Fail, Holding
<1> QED
  BY <1>1, <1>2, <1>3, <1>4 DEF WriteTakes, WriteFails

LEMMA WrongVerbIInv ==
  ASSUME NEW w \in Workers, IInv, WrongVerb(w)
  PROVE  IInv'
<1>1. /\ job'[w] = [job[w] EXCEPT !.pc = "fallback"]
      /\ \A v \in Workers : v # w => job'[v] = job[v]
  BY DEF IInv, WrongVerb
<1>2. /\ job'[w].pc = "fallback" /\ job'[w].req = job[w].req /\ job'[w].before = job[w].before
      /\ Shaped(job'[w])
  BY <1>1 DEF IInv, WrongVerb, At, Shaped
<1>3. OneEditor' /\ FreshList'
  BY <1>1, <1>2 DEF IInv, WrongVerb, At, OneEditor, FreshList, NothingForeign
<1> QED
  BY <1>1, <1>2, <1>3 DEF IInv, WrongVerb, ForeignBudget

LEMMA ReadBackIInv ==
  ASSUME NEW w \in Workers, IInv, ReadBack(w)
  PROVE  IInv'
<1>1. CASE Done(w) \/ Fail(w, "read")
  BY <1>1, DoneIInv, FailIInv DEF ReadBack, At
<1>2. CASE /\ job' = [job EXCEPT ![w] = Idle]
           /\ todo' = todo \union {job[w].req}
           /\ UNCHANGED <<mu, known, budget>>
  <2>1. job[w].pc = "readback" /\ UNCHANGED lists
    BY DEF ReadBack, At
  <2>2. Unlock(w)
    BY <1>2, <2>1 DEF Unlock, IInv, OneEditor
  <2>3. todo' \subseteq Requests /\ ForeignBudget'
    BY <1>2, <2>1 DEF IInv, Shaped, ForeignBudget
  <2> QED
    BY <1>2, <2>1, <2>2, <2>3, EndsIInv
<1> QED
  BY <1>1, <1>2 DEF ReadBack

LEMMA StepIInv ==
  ASSUME NEW w \in Workers, IInv, Step(w)
  PROVE  IInv'
<1>1. CASE SkipWrite(w)
  BY <1>1, DoneIInv DEF SkipWrite, At, Holding
<1>2. CASE Write(w) \/ Fallback(w)
  BY <1>2, WriteIInv DEF Write, Fallback, At, Holding
<1> QED
  BY <1>1, <1>2, LockAndListIInv, WrongVerbIInv, ReadBackIInv DEF Step

----------------------------------------------------------------------------
THEOREM NextIInv == IInv /\ [Next]_vars => IInv'
<1> SUFFICES ASSUME IInv, [Next]_vars PROVE IInv'
  OBVIOUS
<1>1. ASSUME NEW w \in Workers, NEW req \in Requests, Start(w, req) PROVE IInv'
  <2>1. /\ job'[w] = [pc |-> "queued", req |-> req]
        /\ \A v \in Workers : v # w => job'[v] = job[v]
    BY <1>1 DEF IInv, Start
  <2>2. Shaped(job'[w])
    BY <2>1 DEF Shaped
  <2>3. OneEditor' /\ FreshList'
    BY <1>1, <2>1 DEF IInv, Start, At, OneEditor, FreshList, NothingForeign
  <2> QED
    BY <1>1, <2>1, <2>2, <2>3 DEF IInv, Start, ForeignBudget
<1>2. ASSUME NEW w \in Workers, Step(w) PROVE IInv'
  BY <1>2, StepIInv
<1>3. CASE ForeignRemove
  <2>1. budget'.foreign = budget.foreign - 1 /\ budget'.foreign # MaxForeign
    BY <1>3, BoundsAssumption DEF IInv, ForeignRemove, ForeignBudget
  <2> QED
    BY <1>3, <2>1, BoundsAssumption
    DEF IInv, ForeignRemove, ForeignBudget, OneEditor, FreshList, NothingForeign
<1>4. CASE Restart
  <2>1. todo' \subseteq Requests
    BY <1>4 DEF IInv, Restart, Busy, Shaped
  <2> QED
    BY <1>4, <2>1, WorkersAssumption
    DEF IInv, Restart, Shaped, ForeignBudget, OneEditor, FreshList, Idle
<1>5. ASSUME NEW req \in Requests, Refresh(req) PROVE IInv'
  BY <1>5 DEF Refresh, IInv, ForeignBudget, OneEditor, FreshList, NothingForeign
<1>6. CASE UNCHANGED vars
  BY <1>6 DEF vars, IInv, ForeignBudget, OneEditor, FreshList, NothingForeign
<1> QED
  BY <1>1, <1>2, <1>3, <1>4, <1>5, <1>6 DEF Next, Terminating

\* Rewriting a list is exclusive.
THEOREM MutualExclusion == Spec => []OneEditor
<1>1. IInv => OneEditor
  BY DEF IInv
<1> QED
  BY InitIInv, NextIInv, <1>1, PTL DEF Spec

\* No operation writes back a list that another one has changed since.
THEOREM NoLostUpdate == Spec => []FreshList
<1>1. IInv => FreshList
  BY DEF IInv
<1> QED
  BY InitIInv, NextIInv, <1>1, PTL DEF Spec

\* Every step leaves the lists alone or is one whole edit of one of them, unless
\* DSM's interface has had a hand in it.
LEMMA StepEdits ==
  ASSUME IInv, [Next]_vars
  PROVE  [NothingForeign' => AnEdit]_lists
<1>1. ASSUME NEW w \in Workers, Step(w), NothingForeign'
      PROVE  UNCHANGED lists \/ AnEdit
  <2>1. CASE Write(w) \/ Fallback(w)
    <3>1. job[w].pc \in Holding /\ job[w].req \in Requests
      BY <2>1 DEF IInv, Shaped, Write, Fallback, At, Holding
    <3>2. NothingForeign
      BY <1>1, <2>1
      DEF NothingForeign, IInv, ForeignBudget, Write, Fallback, WriteTakes, WriteFails,
          Done, Fail
    <3>3. job[w].before = lists[job[w].req.list]
      BY <3>1, <3>2 DEF IInv, FreshList, Holding
    <3>4. \/ UNCHANGED lists
          \/ lists' = [lists EXCEPT ![job[w].req.list] = Edited(job[w].req, job[w].before)]
      BY <2>1 DEF Write, Fallback, WriteTakes, WriteFails, PutList
    <3> QED
      BY <3>1, <3>3, <3>4 DEF Edit, AnEdit
  <2> QED
    BY <1>1, <2>1 DEF Step, LockAndList, SkipWrite, WrongVerb, ReadBack
<1>2. CASE ForeignRemove
  BY <1>2, BoundsAssumption DEF IInv, ForeignBudget, ForeignRemove, NothingForeign
<1> QED
  BY <1>1, <1>2 DEF Next, Start, Refresh, Restart, Terminating, vars

\* What the client does to a list is a sequence of whole edits.
THEOREM Implements == Spec => EditsAreAtomic
<1>1. IInv /\ [Next]_vars => [NothingForeign' => AnEdit]_lists
  BY StepEdits
<1> QED
  BY InitIInv, NextIInv, <1>1, PTL DEF Spec, EditsAreAtomic

----------------------------------------------------------------------------
(***************************************************************************)
(* What a step may do to the lists, to Terraform's state and to a worker's *)
(* operation.  The invariants below follow from these two lemmas and need  *)
(* not look at the actions again.                                          *)
(***************************************************************************)
Reread(req) ==
    /\ IsThere(lists[req.list], req.name)
    /\ known' = With(known, ResourceOf(req), ValueOf(lists[req.list], req.name))

KnownStep ==
    \/ UNCHANGED known
    \/ \E req \in Requests : known' = Without(known, ResourceOf(req)) \/ Reread(req)

\* A write takes its resource out of the state, or leaves the state alone and is
\* outstanding still.
Written(w) ==
    /\ job[w].pc \in Holding
    /\ lists' = PutList(job[w].req, job[w].before)
    /\ \/ known' = Without(known, ResourceOf(job[w].req))
       \/ UNCHANGED known /\ job[w].req \in Outstanding'
    /\ \A v \in Workers : v # w => job'[v] = job[v]
    /\ job'[w] \in {Idle, [pc |-> "readback", req |-> job[w].req]}

LEMMA ListStep ==
  ASSUME IInv, [Next]_vars
  PROVE  \/ UNCHANGED lists /\ KnownStep
         \/ \E w \in Workers : Written(w)
         \/ ForeignRemove
<1>1. ASSUME NEW w \in Workers, Step(w)
      PROVE  (UNCHANGED lists /\ KnownStep) \/ Written(w)
  <2>1. job[w].pc # "idle" => job[w].req \in Requests
    BY DEF IInv, Shaped
  <2>2. CASE Write(w) \/ Fallback(w)
    <3>1. job[w].pc \in Holding
      BY <2>2 DEF Write, Fallback, At, Holding
    <3>2. CASE /\ lists' = PutList(job[w].req, job[w].before)
               /\ known' = Without(known, ResourceOf(job[w].req))
               /\ Done(w)
      BY <3>1, <3>2 DEF Written, Done, IInv
    <3>3. CASE /\ lists' = PutList(job[w].req, job[w].before)
               /\ job' = [job EXCEPT ![w] = [pc |-> "readback", req |-> @.req]]
               /\ UNCHANGED known
      <4>1. /\ job'[w] = [pc |-> "readback", req |-> job[w].req]
            /\ \A v \in Workers : v # w => job'[v] = job[v]
        BY <3>3 DEF IInv
      <4>2. job[w].req \in Outstanding'
        BY <4>1 DEF Outstanding, Busy
      <4> QED
        BY <3>1, <3>3, <4>1, <4>2 DEF Written
    <3>4. CASE WriteFails(w)
      <4>1. job[w].req \in Outstanding' /\ UNCHANGED known
        BY <3>4 DEF WriteFails, Fail, Outstanding
      <4> QED
        BY <3>1, <3>4, <4>1 DEF WriteFails, Written, Fail, IInv, KnownStep
    <3> QED
      BY <2>2, <3>2, <3>3, <3>4 DEF Write, Fallback, WriteTakes
  <2>3. CASE ReadBack(w)
    BY <2>1, <2>3 DEF ReadBack, At, KnownStep, Reread, Fail
  <2>4. CASE SkipWrite(w)
    BY <2>1, <2>4 DEF SkipWrite, At, KnownStep
  <2> QED
    BY <1>1, <2>2, <2>3, <2>4 DEF Step, LockAndList, WrongVerb, Fail, KnownStep
<1>2. ASSUME NEW req \in Requests, Refresh(req)
      PROVE  UNCHANGED lists /\ KnownStep
  BY <1>2 DEF Refresh, KnownStep, Reread
<1> QED
  BY <1>1, <1>2 DEF Next, Start, Restart, Terminating, vars, KnownStep

\* An operation is done with only when its resource is out of the state, or in it
\* with what DSM has.
Settled(req) ==
    \/ known' = Without(known, ResourceOf(req))
    \/ Reread(req) /\ UNCHANGED lists

LEMMA OutstandingStep ==
  ASSUME IInv, [Next]_vars, NEW req \in Outstanding
  PROVE  req \in Outstanding' \/ Settled(req)
<1>1. ASSUME NEW w \in Workers, Step(w)
      PROVE  req \in Outstanding' \/ Settled(req)
  <2>1. \A v \in Workers : v # w => job'[v] = job[v]
    BY <1>1 DEF IInv, Step, LockAndList, SkipWrite, Write, WriteTakes, WriteFails, WrongVerb,
       Fallback, ReadBack, Done, Fail
  <2>2. todo \subseteq todo'
    BY <1>1 DEF Step, LockAndList, SkipWrite, Write, WriteTakes, WriteFails, WrongVerb,
       Fallback, ReadBack, Done, Fail
  <2>3. \/ job[w].req \in todo'
        \/ job'[w].pc # "idle" /\ job'[w].req = job[w].req
        \/ Settled(job[w].req)
    <3>1. CASE LockAndList(w)
      BY <3>1 DEF IInv, LockAndList, Fail
    <3>2. CASE Write(w) \/ Fallback(w)
      BY <3>2 DEF IInv, Write, Fallback, WriteTakes, WriteFails, Fail, Settled
    <3>3. CASE WrongVerb(w)
      BY <3>3 DEF IInv, WrongVerb, At, Shaped
    <3>4. CASE ReadBack(w)
      BY <3>4 DEF ReadBack, Fail, Settled, Reread
    <3>5. CASE SkipWrite(w)
      BY <3>5 DEF SkipWrite, Settled
    <3> QED
      BY <1>1, <3>1, <3>2, <3>3, <3>4, <3>5 DEF Step
  <2> QED
    BY <2>1, <2>2, <2>3 DEF Outstanding, Busy
<1>2. ASSUME NEW w \in Workers, NEW other \in Requests, Start(w, other)
      PROVE  req \in Outstanding'
  <2>1. /\ job'[w].pc = "queued" /\ job'[w].req = other
        /\ \A v \in Workers : v # w => job'[v] = job[v]
    BY <1>2 DEF IInv, Start
  <2>2. job[w].pc = "idle" /\ todo' = todo \ {other}
    BY <1>2 DEF Start, At
  <2> QED
    BY <2>1, <2>2 DEF Outstanding, Busy
<1>3. CASE Restart
  BY <1>3 DEF Restart, Outstanding
<1> QED
  BY <1>1, <1>2, <1>3 DEF Next, Refresh, ForeignRemove, Terminating, vars, Outstanding, Busy

Begun(w) ==
    \E req \in Requests :
        /\ job'[w] = [pc |-> "queued", req |-> req]
        /\ \A v \in Busy : ResourceOf(job[v].req) # ResourceOf(req)
        /\ \A v \in Workers : v # w => job'[v] = job[v]

Listed(w) ==
    /\ job[w].pc = "queued"
    /\ job'[w] = [pc |-> "listed", req |-> job[w].req, before |-> lists[job[w].req.list]]
    /\ UNCHANGED lists

FellBack(w) ==
    /\ job[w].pc = "listed"
    /\ job'[w] = [job[w] EXCEPT !.pc = "fallback"]
    /\ UNCHANGED lists

WrittenBack(w) ==
    /\ job[w].pc \in Holding
    /\ job'[w] = [pc |-> "readback", req |-> job[w].req]
    /\ lists' = PutList(job[w].req, job[w].before)

JobStep(w) ==
    \/ job'[w] = job[w]
    \/ job'[w] = Idle
    \/ Begun(w) \/ Listed(w) \/ FellBack(w) \/ WrittenBack(w)

LEMMA EveryJobSteps ==
  ASSUME IInv, [Next]_vars, NEW w \in Workers
  PROVE  JobStep(w)
<1> USE DEF JobStep
<1>1. ASSUME NEW v \in Workers, Step(v), v # w
      PROVE  job'[w] = job[w]
  BY <1>1 DEF IInv, Step, LockAndList, SkipWrite, Write, WriteTakes, WriteFails, WrongVerb,
     Fallback, ReadBack, Done, Fail
<1>2. CASE Step(w)
  <2>1. CASE LockAndList(w)
    BY <2>1 DEF IInv, LockAndList, At, Fail, Listed
  <2>2. CASE Write(w) \/ Fallback(w)
    <3>1. job[w].pc \in Holding
      BY <2>2 DEF Write, Fallback, At, Holding
    <3>2. CASE WriteTakes(w)
      BY <3>1, <3>2 DEF WriteTakes, WrittenBack, Done, IInv
    <3>3. CASE WriteFails(w)
      BY <3>3 DEF WriteFails, Fail, IInv
    <3> QED
      BY <2>2, <3>2, <3>3 DEF Write, Fallback
  <2>3. CASE WrongVerb(w)
    BY <2>3 DEF IInv, WrongVerb, At, FellBack
  <2> QED
    BY <1>2, <2>1, <2>2, <2>3 DEF IInv, Step, SkipWrite, ReadBack, Done, Fail
<1>3. ASSUME NEW v \in Workers, NEW req \in Requests, Start(v, req)
      PROVE  JobStep(w)
  BY <1>3 DEF IInv, Start, Begun
<1>4. CASE Restart
  BY <1>4 DEF Restart
<1> QED
  BY <1>1, <1>2, <1>3, <1>4 DEF Next, Refresh, ForeignRemove, Terminating, vars

\* What DSM's interface has not touched yet, it had not touched before.
LEMMA ForeignFalls ==
  ASSUME IInv, [Next]_vars
  PROVE  /\ NothingForeign' => NothingForeign
         /\ ForeignRemove => ~NothingForeign'
<1>1. ForeignRemove => budget'.foreign # MaxForeign
  BY BoundsAssumption DEF ForeignRemove, IInv, ForeignBudget
<1>2. ~ForeignRemove => budget'.foreign = budget.foreign
  BY DEF Next, Start, Step, LockAndList, SkipWrite, Write, WriteTakes, WriteFails, WrongVerb,
     Fallback, ReadBack, Refresh, Restart, Terminating, Done, Fail, vars, IInv, ForeignBudget
<1> QED
  BY <1>1, <1>2 DEF NothingForeign

----------------------------------------------------------------------------
(***************************************************************************)
(* What editing a list keeps.                                              *)
(***************************************************************************)
\* Quotas stay numbers, and a clock keeps its mode.
ListOK(l, list) ==
    \A req \in Requests : req.list = l =>
        /\ req.op = "clock" => "enable_ntp" \in DOMAIN list
        /\ req.op = "unlimit" => \A n \in DOMAIN list : list[n] \in Nat

LEMMA EditedOK ==
  ASSUME NEW req \in Requests, NEW list, ListOK(req.list, list)
  PROVE  ListOK(req.list, Edited(req, list))
<1> DEFINE new == Edited(req, list)
<1> SUFFICES ASSUME NEW other \in Requests, other.list = req.list
             PROVE  /\ other.op = "clock" => "enable_ntp" \in DOMAIN new
                    /\ other.op = "unlimit" => \A n \in DOMAIN new : new[n] \in Nat
  BY DEF ListOK
<1>1. CASE req.op = "clock"
  <2>1. new = [Overlay(list, req.fields) EXCEPT !.enable_ntp =
                 ResolveNTPMode(list.enable_ntp, req.want)]
    BY <1>1 DEF Edited
  <2>2. other.op # "unlimit" /\ "enable_ntp" \in DOMAIN list
    BY <1>1, KindsAssumption DEF ListOK
  <2> QED
    BY <2>1, <2>2 DEF Overlay
<1>2. CASE req.op # "clock"
  <2>1. other.op # "clock"
    BY <1>2, KindsAssumption
  <2>2. ASSUME other.op = "unlimit" PROVE \A n \in DOMAIN new : new[n] \in Nat
    <3>1. \A n \in DOMAIN list : list[n] \in Nat
      BY <2>2 DEF ListOK
    <3>2. CASE req.op = "set"
      <4>1. new = Overlay(list, req.fields)
        BY <3>2 DEF Edited
      <4>2. req.fields[req.name] \in Nat /\ DOMAIN req.fields = {req.name}
        BY <2>2, <3>2, KindsAssumption, RequestsAssumption
      <4> QED
        BY <3>1, <4>1, <4>2 DEF Overlay
    <3>3. CASE req.op \in {"remove", "unlimit"}
      BY <3>1, <3>3 DEF Edited, Unlimited
    <3> QED
      BY <1>2, <3>2, <3>3, RequestsAssumption
  <2> QED
    BY <2>1, <2>2
<1> QED
  BY <1>1, <1>2

\* An edit of one entry leaves the others where and what they are.
LEMMA EditedElsewhere ==
  ASSUME NEW req \in Requests, NEW list, NEW n \in DOMAIN list,
         req.op # "clock", n # req.name
  PROVE  n \in DOMAIN Edited(req, list) /\ Edited(req, list)[n] = list[n]
<1>1. req.op \in {"set", "remove", "unlimit"}
  BY RequestsAssumption
<1>2. CASE req.op = "set"
  BY <1>2, RequestsAssumption DEF Edited, Overlay
<1>3. CASE req.op = "remove"
  BY <1>3 DEF Edited
<1>4. CASE req.op = "unlimit"
  BY <1>4 DEF Edited
<1> QED
  BY <1>1, <1>2, <1>3, <1>4

\* A mode that has been resolved is resolved.
LEMMA ResolvedTwice ==
  ASSUME NEW v, NEW want \in {"keep", "on", "off"}
  PROVE  ResolveNTPMode(ResolveNTPMode(v, want), want) = ResolveNTPMode(v, want)
<1> DEFINE m == ResolveNTPMode(v, want)
           n == NTPModeString(v)
<1>1. /\ NTPModeString("ntp") = "ntp" /\ NTPModeString("manual") = "manual"
      /\ ParseNTPEnabled("ntp") /\ ~ParseNTPEnabled("manual")
  BY DEF NTPModeString, ParseNTPEnabled
<1>2. ASSUME n # ""
      PROVE  NTPModeString(n) = n /\ (ParseNTPEnabled(n) <=> ParseNTPEnabled(v))
  <2>1. CASE v = "#true"
    <3>1. n = "ntp"
      BY <2>1 DEF NTPModeString
    <3> QED
      BY <1>1, <2>1, <3>1 DEF ParseNTPEnabled
  <2>2. CASE v = "#false"
    <3>1. n = "manual"
      BY <2>2 DEF NTPModeString
    <3> QED
      BY <1>1, <2>2, <3>1 DEF ParseNTPEnabled
  <2>3. v \notin {"#1", "#0"}
    BY <1>2 DEF NTPModeString
  <2>4. CASE v \notin {"#true", "#false", "#1", "#0"}
    <3>1. n = v
      BY <2>4 DEF NTPModeString
    <3> QED
      BY <3>1
  <2> QED
    BY <2>1, <2>2, <2>3, <2>4
<1>3. CASE want = "on"
  BY <1>3 DEF ResolveNTPMode
<1>4. CASE want = "off"
  <2>1. m = IF n # "" /\ ~ParseNTPEnabled(v) THEN n ELSE "manual"
    BY <1>4 DEF ResolveNTPMode
  <2>2. NTPModeString(m) = m /\ ~ParseNTPEnabled(m) /\ m # ""
    BY <1>1, <1>2, <2>1
  <2> HIDE DEF m
  <2>3. ResolveNTPMode(m, want) = m
    BY <1>4, <2>2 DEF ResolveNTPMode
  <2> QED
    BY <2>3 DEF m
<1>5. CASE want = "keep"
  <2>1. m = IF n # "" THEN n ELSE IF ParseNTPEnabled(v) THEN "ntp" ELSE "manual"
    BY <1>5 DEF ResolveNTPMode
  <2>2. NTPModeString(m) = m /\ m # ""
    BY <1>1, <1>2, <2>1
  <2> HIDE DEF m
  <2>3. ResolveNTPMode(m, want) = m
    BY <1>5, <2>2 DEF ResolveNTPMode
  <2> QED
    BY <2>3 DEF m
<1> QED
  BY <1>3, <1>4, <1>5

\* An edit that has been made has nothing left to do.
LEMMA EditedTwice ==
  ASSUME NEW req \in Requests, NEW list, ListOK(req.list, list)
  PROVE  Edited(req, Edited(req, list)) = Edited(req, list)
<1> DEFINE new == Edited(req, list)
           again == Edited(req, new)
<1>1. CASE req.op = "set"
  <2>1. new = Overlay(list, req.fields) /\ again = Overlay(new, req.fields)
    BY <1>1 DEF Edited
  <2>2. /\ DOMAIN again = DOMAIN new
        /\ again = [n \in DOMAIN again |-> again[n]] /\ new = [n \in DOMAIN new |-> new[n]]
    BY <2>1 DEF Overlay
  <2>3. \A n \in DOMAIN new : again[n] = new[n]
    BY <2>1 DEF Overlay
  <2> QED
    BY <2>2, <2>3
<1>2. CASE req.op = "remove"
  <2>1. /\ new = [n \in DOMAIN list \ {req.name} |-> list[n]]
        /\ again = [n \in DOMAIN new \ {req.name} |-> new[n]]
    BY <1>2 DEF Edited
  <2> QED
    BY <2>1
<1>3. CASE req.op = "unlimit"
  <2>1. /\ new = [n \in DOMAIN list |-> IF n = req.name THEN Unlimited ELSE list[n]]
        /\ again = [n \in DOMAIN new |-> IF n = req.name THEN Unlimited ELSE new[n]]
    BY <1>3 DEF Edited
  <2> QED
    BY <2>1
<1>4. CASE req.op = "clock"
  <2> DEFINE m == ResolveNTPMode(list.enable_ntp, req.want)
  <2>1. /\ new = [Overlay(list, req.fields) EXCEPT !.enable_ntp = m]
        /\ again = [Overlay(new, req.fields) EXCEPT !.enable_ntp =
                       ResolveNTPMode(new.enable_ntp, req.want)]
    BY <1>4 DEF Edited
  <2>2. "enable_ntp" \in DOMAIN list
    BY <1>4 DEF ListOK
  <2>3. new.enable_ntp = m /\ "enable_ntp" \in DOMAIN new
    BY <2>1, <2>2 DEF Overlay
  <2>4. ResolveNTPMode(new.enable_ntp, req.want) = m
    BY <1>4, <2>3, ResolvedTwice, RequestsAssumption
  <2>5. again = [Overlay(new, req.fields) EXCEPT !.enable_ntp = m]
    BY <2>1, <2>4
  <2> HIDE DEF m
  <2>6. /\ DOMAIN again = DOMAIN new
        /\ again = [n \in DOMAIN again |-> again[n]] /\ new = [n \in DOMAIN new |-> new[n]]
    BY <2>1, <2>2, <2>5 DEF Overlay
  <2>7. \A n \in DOMAIN new : again[n] = new[n]
    BY <2>1, <2>3, <2>5 DEF Overlay
  <2> QED
    BY <2>6, <2>7
<1> QED
  BY <1>1, <1>2, <1>3, <1>4, RequestsAssumption

\* When an edit of one entry has nothing left to do.
Made(req, list) ==
    CASE req.op = "set" ->
            req.name \in DOMAIN list /\ list[req.name] = req.fields[req.name]
      [] req.op = "remove" -> req.name \notin DOMAIN list
      [] OTHER -> req.name \in DOMAIN list => list[req.name] = Unlimited

LEMMA MadeIsTaken ==
  ASSUME NEW req \in Requests, req.op # "clock", NEW list, list = [n \in DOMAIN list |-> list[n]]
  PROVE  Edited(req, list) = list <=> Made(req, list)
<1> DEFINE new == Edited(req, list)
<1>1. CASE req.op = "set"
  <2>1. new = Overlay(list, req.fields) /\ DOMAIN req.fields = {req.name}
    BY <1>1, RequestsAssumption DEF Edited
  <2>2. ASSUME new = list PROVE Made(req, list)
    BY <1>1, <2>1, <2>2 DEF Overlay, Made
  <2>3. ASSUME Made(req, list) PROVE new = list
    <3>1. DOMAIN new = DOMAIN list /\ \A n \in DOMAIN list : new[n] = list[n]
      BY <1>1, <2>1, <2>3 DEF Overlay, Made
    <3>2. new = [n \in DOMAIN new |-> new[n]]
      BY <2>1 DEF Overlay
    <3> QED
      BY <3>1, <3>2
  <2> QED
    BY <2>2, <2>3
<1>2. CASE req.op = "remove"
  <2>1. new = [n \in DOMAIN list \ {req.name} |-> list[n]]
    BY <1>2 DEF Edited
  <2>2. Made(req, list) <=> req.name \notin DOMAIN list
    BY <1>2 DEF Made
  <2>3. ASSUME req.name \notin DOMAIN list PROVE new = list
    <3>1. DOMAIN list \ {req.name} = DOMAIN list
      BY <2>3
    <3> QED
      BY <2>1, <3>1
  <2>4. ASSUME new = list PROVE req.name \notin DOMAIN list
    BY <2>1, <2>4
  <2> QED
    BY <2>2, <2>3, <2>4
<1>3. CASE req.op = "unlimit"
  <2>1. new = [n \in DOMAIN list |-> IF n = req.name THEN Unlimited ELSE list[n]]
    BY <1>3 DEF Edited
  <2>2. Made(req, list) <=> (req.name \in DOMAIN list => list[req.name] = Unlimited)
    BY <1>3 DEF Made
  <2> QED
    BY <2>1, <2>2
<1> QED
  BY <1>1, <1>2, <1>3, RequestsAssumption

\* What one operation has had made of a list, an edit of another entry leaves made.
LEMMA TakenStays ==
  ASSUME NEW req \in Requests, NEW other \in Requests, NEW list,
         req.list = other.list, req.name # other.name, Edited(req, list) = list
  PROVE  Edited(req, Edited(other, list)) = Edited(other, list)
<1> DEFINE new == Edited(other, list)
<1>1. req.op \in {"set", "remove", "unlimit"} /\ other.op \in {"set", "remove", "unlimit"}
  BY RequestsAssumption, KindsAssumption
<1>2. list = [n \in DOMAIN list |-> list[n]] /\ new = [n \in DOMAIN new |-> new[n]]
  <2>1. ASSUME NEW asked \in Requests, asked.op \in {"set", "remove", "unlimit"}
        PROVE  Edited(asked, list) = [n \in DOMAIN Edited(asked, list) |-> Edited(asked, list)[n]]
    <3>1. CASE asked.op = "set"
      BY <3>1 DEF Edited, Overlay
    <3>2. CASE asked.op = "remove"
      BY <3>2 DEF Edited
    <3>3. CASE asked.op = "unlimit"
      BY <3>3 DEF Edited
    <3> QED
      BY <2>1, <3>1, <3>2, <3>3
  <2>2. Edited(req, list) = [n \in DOMAIN Edited(req, list) |-> Edited(req, list)[n]]
    BY <1>1, <2>1
  <2>3. new = [n \in DOMAIN new |-> new[n]]
    BY <1>1, <2>1
  <2> QED
    BY <2>2, <2>3
<1>3. Made(req, list)
  BY <1>1, <1>2, MadeIsTaken
<1>4. req.name \in DOMAIN list => req.name \in DOMAIN new /\ new[req.name] = list[req.name]
  BY <1>1, EditedElsewhere
<1>5. req.name \notin DOMAIN list => req.name \notin DOMAIN new
  <2>1. CASE other.op = "set"
    BY <2>1, RequestsAssumption DEF Edited, Overlay
  <2>2. CASE other.op = "remove"
    BY <2>2 DEF Edited
  <2>3. CASE other.op = "unlimit"
    BY <2>3 DEF Edited
  <2> QED
    BY <1>1, <2>1, <2>2, <2>3
<1> HIDE DEF new
<1>6. Made(req, new)
  BY <1>1, <1>3, <1>4, <1>5 DEF Made
<1>7. Edited(req, new) = new
  BY <1>1, <1>2, <1>6, MadeIsTaken
<1> QED
  BY <1>7 DEF new

\* Whatever spelling DSM uses, the mode that is sent back is on or off as asked,
\* and as it was if nothing was asked.
LEMMA ResolvedAsAsked ==
  ASSUME NEW v, NEW want \in {"keep", "on", "off"},
         ParseNTPEnabled(ResolveNTPMode(v, want)) # ParseNTPEnabled(v)
  PROVE  want = IF ParseNTPEnabled(ResolveNTPMode(v, want)) THEN "on" ELSE "off"
<1>1. CASE want = "on"
  BY <1>1 DEF ParseNTPEnabled, ResolveNTPMode
<1>2. ASSUME NTPModeString(v) # ""
      PROVE  ParseNTPEnabled(NTPModeString(v)) = ParseNTPEnabled(v)
  <2>1. CASE v \in {"#true", "#false", "#1", "#0"}
    <3>1. CASE v = "#true"
      BY <3>1 DEF NTPModeString, ParseNTPEnabled
    <3>2. CASE v = "#false"
      BY <3>2 DEF NTPModeString, ParseNTPEnabled
    <3>3. CASE v \in {"#1", "#0"}
      BY <1>2, <3>3 DEF NTPModeString
    <3> QED
      BY <2>1, <3>1, <3>2, <3>3
  <2>2. CASE v \notin {"#true", "#false", "#1", "#0"}
    <3>1. NTPModeString(v) = v
      BY <2>2 DEF NTPModeString
    <3> QED
      BY <3>1
  <2> QED
    BY <2>1, <2>2
<1>3. CASE want = "off"
  <2>1. ~ParseNTPEnabled(ResolveNTPMode(v, want))
    BY <1>2, <1>3 DEF ResolveNTPMode, ParseNTPEnabled
  <2> QED
    BY <1>3, <2>1
<1>4. CASE want = "keep"
  <2>1. ParseNTPEnabled("ntp") /\ ~ParseNTPEnabled("manual")
    BY DEF ParseNTPEnabled
  <2>2. ResolveNTPMode(v, want) =
          IF NTPModeString(v) # "" THEN NTPModeString(v)
          ELSE IF ParseNTPEnabled(v) THEN "ntp" ELSE "manual"
    BY <1>4 DEF ResolveNTPMode
  <2>3. ParseNTPEnabled(ResolveNTPMode(v, want)) <=> ParseNTPEnabled(v)
    BY <1>2, <2>1, <2>2
  <2> QED
    BY <2>3 DEF ParseNTPEnabled
<1> QED
  BY <1>1, <1>3, <1>4

----------------------------------------------------------------------------
(***************************************************************************)
(* The types.                                                              *)
(***************************************************************************)
DataInv ==
    /\ DOMAIN lists = DOMAIN InitLists
    /\ \A l \in DOMAIN lists : ListOK(l, lists[l])
    /\ \A w \in Workers : job[w].pc \in Holding => ListOK(job[w].req.list, job[w].before)
    /\ DOMAIN known \subseteq {ResourceOf(req) : req \in Requests}
    /\ budget \in [failures : 0 .. MaxFailures, restarts : 0 .. MaxRestarts,
                    foreign : 0 .. MaxForeign]

LEMMA InitDataInv == Init => DataInv
<1> SUFFICES ASSUME Init PROVE DataInv
  OBVIOUS
<1>1. \A l \in DOMAIN lists : ListOK(l, lists[l])
  BY RequestsAssumption, KindsAssumption DEF Init, ListOK
<1>2. DOMAIN known \subseteq {ResourceOf(req) : req \in Requests}
  BY RecordedAssumption DEF Init
<1> QED
  BY <1>1, <1>2, BoundsAssumption DEF Init, DataInv, Idle, Holding

LEMMA BudgetStep ==
  ASSUME IInv, DataInv, [Next]_vars
  PROVE  budget' \in [failures : 0 .. MaxFailures, restarts : 0 .. MaxRestarts,
                      foreign : 0 .. MaxForeign]
<1> DEFINE Budgets == [failures : 0 .. MaxFailures, restarts : 0 .. MaxRestarts,
                       foreign : 0 .. MaxForeign]
<1>1. budget \in Budgets
  BY DEF DataInv
<1>2. \/ UNCHANGED budget
      \/ budget.failures > 0 /\ budget' = [budget EXCEPT !.failures = @ - 1]
      \/ budget.restarts > 0 /\ budget' = [budget EXCEPT !.restarts = @ - 1]
      \/ budget.foreign > 0 /\ budget' = [budget EXCEPT !.foreign = @ - 1]
  BY DEF Next, Start, Step, LockAndList, SkipWrite, Write, WriteTakes, WriteFails, WrongVerb,
     Fallback, ReadBack, Refresh, ForeignRemove, Restart, Terminating, Done, Fail, vars
<1> HIDE DEF Budgets
<1> QED
  BY <1>1, <1>2, BoundsAssumption DEF Budgets

LEMMA NextDataInv ==
  ASSUME IInv, DataInv, [Next]_vars
  PROVE  DataInv'
<1>1. DOMAIN lists' = DOMAIN InitLists
  BY ListStep DEF DataInv, Written, PutList, ForeignRemove
<1>2. \A l \in DOMAIN lists' : ListOK(l, lists'[l])
  <2>1. CASE UNCHANGED lists
    BY <2>1 DEF DataInv
  <2>2. ASSUME NEW w \in Workers, Written(w)
        PROVE  \A l \in DOMAIN lists' : ListOK(l, lists'[l])
    <3>1. job[w].req \in Requests
      BY <2>2 DEF IInv, Shaped, Written, Holding
    <3>2. ListOK(job[w].req.list, Edited(job[w].req, job[w].before))
      BY <2>2, <3>1, EditedOK DEF DataInv, Written
    <3> QED
      BY <2>2, <3>2 DEF DataInv, Written, PutList
  <2>3. CASE ForeignRemove
    <3>1. PICK req \in Requests : /\ req.op # "clock"
                                  /\ lists' = [lists EXCEPT ![req.list] = Without(@, req.name)]
      BY <2>3 DEF ForeignRemove
    <3>2. ListOK(req.list, lists[req.list])
      BY RequestsAssumption DEF DataInv
    <3>3. ListOK(req.list, Without(lists[req.list], req.name))
      BY <3>1, <3>2, KindsAssumption DEF ListOK, Without
    <3> QED
      BY <3>1, <3>3 DEF DataInv
  <2> QED
    BY <2>1, <2>2, <2>3, ListStep
<1>3. ASSUME NEW w \in Workers, job'[w].pc \in Holding
      PROVE  ListOK(job'[w].req.list, job'[w].before)
  <2>1. CASE Listed(w)
    <3>1. job[w].req \in Requests
      BY <2>1 DEF IInv, Shaped, Listed
    <3> QED
      BY <2>1, <3>1, RequestsAssumption DEF DataInv, Listed
  <2>2. CASE FellBack(w)
    <3>1. job'[w].req = job[w].req /\ job'[w].before = job[w].before
      BY <2>2 DEF FellBack, IInv, Shaped
    <3> QED
      BY <2>2, <3>1 DEF DataInv, FellBack, Holding
  <2>3. CASE job'[w] = job[w]
    BY <1>3, <2>3 DEF DataInv
  <2>4. ~Begun(w) /\ ~WrittenBack(w) /\ job'[w] # Idle
    <3>1. Begun(w) => job'[w].pc = "queued"
      BY DEF Begun
    <3>2. WrittenBack(w) => job'[w].pc = "readback"
      BY DEF WrittenBack
    <3>3. job'[w] = Idle => job'[w].pc = "idle"
      BY DEF Idle
    <3> QED
      BY <1>3, <3>1, <3>2, <3>3 DEF Holding
  <2> QED
    BY <2>1, <2>2, <2>3, <2>4, EveryJobSteps DEF JobStep
<1>4. DOMAIN known' \subseteq {ResourceOf(req) : req \in Requests}
  <2>1. CASE KnownStep
    BY <2>1 DEF DataInv, KnownStep, Reread, With, Without
  <2>2. ASSUME NEW w \in Workers, Written(w)
        PROVE  DOMAIN known' \subseteq DOMAIN known
    BY <2>2 DEF Written, Without
  <2>3. ForeignRemove => UNCHANGED known
    BY DEF ForeignRemove
  <2> QED
    BY <2>1, <2>2, <2>3, ListStep DEF DataInv
<1> QED
  BY <1>1, <1>2, <1>3, <1>4, BudgetStep DEF DataInv

\* Every variable keeps its type, and only the holder of Client.mu is between the
\* reading and the writing of a list.
THEOREM TypeCorrect == Spec => []TypeOK
<1>1. IInv /\ DataInv => TypeOK
  <2> SUFFICES ASSUME IInv, DataInv PROVE TypeOK
    OBVIOUS
  <2>1. \A req \in Requests : req.op = "unlimit" =>
          \A n \in DOMAIN lists[req.list] : lists[req.list][n] \in Nat
    BY RequestsAssumption DEF DataInv, ListOK
  <2> QED
    BY <2>1 DEF IInv, DataInv, TypeOK, Shaped, Busy
<1> QED
  BY InitIInv, NextIInv, InitDataInv, NextDataInv, <1>1, PTL DEF Spec

----------------------------------------------------------------------------
(***************************************************************************)
(* Terraform's state, what a set answers, and the clock.                   *)
(***************************************************************************)
\* Operations of one resource do not overlap; what a set wrote is there until it is
\* read back; and nobody but the holder of the lock changes a clock.
Apart == \A v, w \in Busy : v # w => ResourceOf(job[v].req) # ResourceOf(job[w].req)

SetStays ==
    NothingForeign =>
        \A w \in Workers :
            job[w].pc = "readback" /\ job[w].req.op = "set" =>
                LET req == job[w].req
                IN  /\ req.name \in DOMAIN lists[req.list]
                    /\ lists[req.list][req.name] = req.fields[req.name]

ClockFresh ==
    \A w \in Workers :
        job[w].pc \in Holding /\ job[w].req.op = "clock" => job[w].before = lists[job[w].req.list]

AskInv == Apart /\ SetStays /\ ClockFresh /\ StateIsTrue

LEMMA InitAskInv == Init => AskInv
<1> SUFFICES ASSUME Init PROVE AskInv
  OBVIOUS
<1>1. Apart /\ SetStays /\ ClockFresh
  BY DEF Init, Apart, SetStays, ClockFresh, Busy, Idle, Holding
<1>2. ASSUME NEW req \in Requests, ResourceOf(req) \in DOMAIN known
      PROVE  /\ IsThere(lists[req.list], req.name)
             /\ known[ResourceOf(req)] = ValueOf(lists[req.list], req.name)
  <2>1. ResourceOf(req) \in Recorded
    BY <1>2 DEF Init
  <2>2. PICK other \in Requests :
          ResourceOf(req) = ResourceOf(other) /\ IsThere(InitLists[other.list], other.name)
    BY <2>1, RecordedAssumption
  <2>3. other.list = req.list /\ other.name = req.name
    BY <2>2 DEF ResourceOf
  <2>4. known[ResourceOf(req)] = ValueOf(InitLists[req.list], req.name)
    BY <2>1 DEF Init, ResourceOf
  <2> QED
    BY <2>2, <2>3, <2>4 DEF Init
<1> QED
  BY <1>1, <1>2 DEF AskInv, StateIsTrue

LEMMA ApartStays ==
  ASSUME IInv, Apart, [Next]_vars
  PROVE  Apart'
<1> SUFFICES ASSUME NEW v \in Workers, NEW w \in Workers, v # w,
                    job'[v].pc # "idle", job'[w].pc # "idle"
             PROVE  ResourceOf(job'[v].req) # ResourceOf(job'[w].req)
  BY DEF Apart, Busy
<1> DEFINE Goes(u) == job[u].pc # "idle" /\ job'[u].req = job[u].req
<1>1. \A u \in {v, w} : Begun(u) \/ Goes(u)
  <2> SUFFICES ASSUME NEW u \in {v, w} PROVE Begun(u) \/ Goes(u)
    OBVIOUS
  <2>1. Listed(u) => Goes(u)
    BY DEF Listed
  <2>2. FellBack(u) => Goes(u)
    BY DEF FellBack, IInv, Shaped
  <2>3. WrittenBack(u) => Goes(u)
    BY DEF WrittenBack, Holding
  <2>4. job'[u] # Idle
    BY DEF Idle
  <2> QED
    BY <2>1, <2>2, <2>3, <2>4, EveryJobSteps DEF JobStep
<1>2. CASE Goes(v) /\ Goes(w)
  BY <1>2 DEF Apart, Busy
<1>3. \A u \in {v, w}, t \in {v, w} :
        Begun(u) /\ t # u => job'[t].req = job[t].req
          /\ ResourceOf(job[t].req) # ResourceOf(job'[u].req)
  <2> SUFFICES ASSUME NEW u \in {v, w}, NEW t \in {v, w}, Begun(u), t # u
               PROVE  /\ job'[t].req = job[t].req
                      /\ ResourceOf(job[t].req) # ResourceOf(job'[u].req)
    OBVIOUS
  <2>1. job'[t] = job[t]
    BY DEF Begun
  <2>2. t \in Busy
    BY <2>1 DEF Busy
  <2>3. \E req \in Requests : job'[u].req = req /\ ResourceOf(job[t].req) # ResourceOf(req)
    BY <2>2 DEF Begun
  <2> QED
    BY <2>1, <2>3
<1> QED
  BY <1>1, <1>2, <1>3

\* What one operation writes leaves the resources of the others as they are.
LEMMA WrittenElsewhere ==
  ASSUME IInv, DataInv, NothingForeign, NEW w \in Workers, Written(w),
         NEW req \in Requests, ResourceOf(req) # ResourceOf(job[w].req),
         IsThere(lists[req.list], req.name)
  PROVE  /\ IsThere(lists'[req.list], req.name)
         /\ ValueOf(lists'[req.list], req.name) = ValueOf(lists[req.list], req.name)
<1> DEFINE own == job[w].req
<1>1. own \in Requests /\ job[w].before = lists[own.list]
  BY DEF IInv, Shaped, FreshList, Written, Holding
<1>2. lists' = [lists EXCEPT ![own.list] = Edited(own, lists[own.list])]
  BY <1>1 DEF Written, PutList
<1>3. CASE req.list # own.list
  BY <1>2, <1>3
<1>4. CASE req.list = own.list
  <2>1. req.name # own.name
    BY <1>4 DEF ResourceOf
  <2>2. own.op # "clock" /\ req.name # "clock"
    BY <1>1, <1>4, <2>1, RequestsAssumption, KindsAssumption
  <2>3. req.name \in DOMAIN lists[req.list]
    BY <2>2 DEF IsThere
  <2>4. lists'[req.list] = Edited(own, lists[req.list])
    BY <1>2, <1>4, RequestsAssumption DEF DataInv
  <2>5. /\ req.name \in DOMAIN lists'[req.list]
        /\ lists'[req.list][req.name] = lists[req.list][req.name]
    BY <1>1, <2>1, <2>2, <2>3, <2>4, EditedElsewhere
  <2> QED
    BY <2>2, <2>5 DEF IsThere, ValueOf
<1> QED
  BY <1>3, <1>4

LEMMA SetStaysThere ==
  ASSUME IInv, DataInv, Apart, SetStays, [Next]_vars
  PROVE  SetStays'
<1> SUFFICES ASSUME NothingForeign', NEW w \in Workers,
                    job'[w].pc = "readback", job'[w].req.op = "set"
             PROVE  /\ job'[w].req.name \in DOMAIN lists'[job'[w].req.list]
                    /\ lists'[job'[w].req.list][job'[w].req.name]
                         = job'[w].req.fields[job'[w].req.name]
  BY DEF SetStays
<1>1. NothingForeign /\ ~ForeignRemove
  BY ForeignFalls
<1>2. ~Begun(w) /\ ~Listed(w) /\ ~FellBack(w) /\ job'[w] # Idle
  <2>1. Begun(w) => job'[w].pc = "queued"
    BY DEF Begun
  <2>2. Listed(w) => job'[w].pc = "listed"
    BY DEF Listed
  <2>3. FellBack(w) => job'[w].pc = "fallback"
    BY DEF FellBack, IInv, Shaped
  <2>4. job'[w] = Idle => job'[w].pc = "idle"
    BY DEF Idle
  <2> QED
    BY <2>1, <2>2, <2>3, <2>4
<1>3. CASE WrittenBack(w)
  <2> DEFINE req == job[w].req
  <2>1. req \in Requests /\ job'[w].req = req /\ req.op = "set"
    BY <1>3 DEF WrittenBack, IInv, Shaped, Holding
  <2>2. lists'[req.list] = Overlay(job[w].before, req.fields)
    BY <1>3, <2>1, RequestsAssumption DEF WrittenBack, PutList, Edited, DataInv
  <2> QED
    BY <2>1, <2>2, RequestsAssumption DEF Overlay
<1>4. CASE job'[w] = job[w]
  <2> DEFINE req == job[w].req
  <2>1. req \in Requests /\ w \in Busy
    BY <1>4 DEF IInv, Shaped, Busy
  <2>2. /\ req.name \in DOMAIN lists[req.list]
        /\ lists[req.list][req.name] = req.fields[req.name]
    BY <1>1, <1>4 DEF SetStays
  <2>3. req.name # "clock"
    BY <1>4, <2>1, RequestsAssumption
  <2>4. ASSUME NEW v \in Workers, Written(v)
        PROVE  /\ req.name \in DOMAIN lists'[req.list]
               /\ lists'[req.list][req.name] = lists[req.list][req.name]
    <3>1. v # w /\ v \in Busy
      BY <1>4, <2>4 DEF Written, Holding, Busy
    <3>2. ResourceOf(req) # ResourceOf(job[v].req)
      BY <2>1, <3>1 DEF Apart
    <3>3. IsThere(lists[req.list], req.name)
      BY <2>2 DEF IsThere
    <3> QED
      BY <1>1, <2>1, <2>3, <2>4, <3>2, <3>3, WrittenElsewhere DEF IsThere, ValueOf
  <2> QED
    BY <1>1, <1>4, <2>2, <2>4, ListStep
<1> QED
  BY <1>2, <1>3, <1>4, EveryJobSteps DEF JobStep

\* DSM's interface removes permissions and quotas, never a clock.
LEMMA ClockFreshStays ==
  ASSUME IInv, DataInv, ClockFresh, [Next]_vars
  PROVE  ClockFresh'
<1> SUFFICES ASSUME NEW w \in Workers, job'[w].pc \in Holding, job'[w].req.op = "clock"
             PROVE  job'[w].before = lists'[job'[w].req.list]
  BY DEF ClockFresh
<1>1. CASE Listed(w)
  BY <1>1 DEF Listed
<1>2. CASE FellBack(w)
  <2>1. job'[w].req = job[w].req /\ job'[w].before = job[w].before
    BY <1>2 DEF FellBack, IInv, Shaped
  <2> QED
    BY <1>2, <2>1 DEF FellBack, ClockFresh, Holding
<1>3. CASE job'[w] = job[w]
  <2> DEFINE req == job[w].req
  <2>1. req \in Requests /\ job[w].before = lists[req.list]
    BY <1>3 DEF IInv, Shaped, ClockFresh, Holding
  <2>2. ASSUME NEW v \in Workers, Written(v) PROVE FALSE
    <3>1. v = w
      BY <1>3, <2>2 DEF IInv, OneEditor, Written, Holding
    <3>2. job'[w].pc \notin Holding
      BY <2>2, <3>1 DEF Written, Idle, Holding
    <3> QED
      BY <3>2
  <2>3. CASE ForeignRemove
    <3>1. PICK other \in Requests :
            /\ other.op # "clock"
            /\ lists' = [lists EXCEPT ![other.list] = Without(@, other.name)]
      BY <2>3 DEF ForeignRemove
    <3>2. other.list # req.list
      BY <1>3, <2>1, <3>1, KindsAssumption
    <3> QED
      BY <1>3, <2>1, <3>1, <3>2
  <2> QED
    BY <1>3, <2>1, <2>2, <2>3, ListStep
<1>4. ~Begun(w) /\ ~WrittenBack(w) /\ job'[w] # Idle
  <2>1. Begun(w) => job'[w].pc = "queued"
    BY DEF Begun
  <2>2. WrittenBack(w) => job'[w].pc = "readback"
    BY DEF WrittenBack
  <2>3. job'[w] = Idle => job'[w].pc = "idle"
    BY DEF Idle
  <2> QED
    BY <2>1, <2>2, <2>3 DEF Holding
<1> QED
  BY <1>1, <1>2, <1>3, <1>4, EveryJobSteps DEF JobStep

\* What Terraform has of one resource is what DSM has, or will be.
TrueOf(req) ==
    /\ IsThere(lists[req.list], req.name)
    /\ known[ResourceOf(req)] = ValueOf(lists[req.list], req.name)

TakenOf(req) ==
    \E asked \in Outstanding : ResourceOf(asked) = ResourceOf(req) /\ HasTaken(asked)

LEMMA StateStaysTrue ==
  ASSUME IInv, DataInv, StateIsTrue, [Next]_vars
  PROVE  StateIsTrue'
<1> SUFFICES ASSUME NothingForeign', NEW req \in Requests, ResourceOf(req) \in DOMAIN known'
             PROVE  TrueOf(req)' \/ TakenOf(req)'
  BY DEF StateIsTrue, TrueOf, TakenOf
<1> DEFINE r == ResourceOf(req)
<1>1. NothingForeign /\ ~ForeignRemove
  BY ForeignFalls
<1>2. r \in DOMAIN known => TrueOf(req) \/ TakenOf(req)
  BY <1>1 DEF StateIsTrue, TrueOf, TakenOf
<1>3. ASSUME NEW asked \in Outstanding
      PROVE  asked \in Requests
  BY DEF Outstanding, Busy, IInv, Shaped
<1>4. CASE UNCHANGED lists /\ KnownStep
  <2>1. ASSUME NEW other \in Requests, known' = Without(known, ResourceOf(other))
        PROVE  r # ResourceOf(other) /\ r \in DOMAIN known /\ known'[r] = known[r]
    BY <2>1 DEF Without
  <2>2. ASSUME NEW other \in Requests, Reread(other)
        PROVE  (r \in DOMAIN known /\ known'[r] = known[r]) \/ TrueOf(req)'
    BY <1>4, <2>2 DEF Reread, With, ResourceOf, TrueOf
  <2>3. (r \in DOMAIN known /\ known'[r] = known[r]) \/ TrueOf(req)'
    BY <1>4, <2>1, <2>2 DEF KnownStep
  <2>4. ASSUME r \in DOMAIN known, known'[r] = known[r], TrueOf(req)
        PROVE  TrueOf(req)'
    BY <1>4, <2>4 DEF TrueOf
  <2>5. ASSUME NEW asked \in Outstanding, ResourceOf(asked) = r, HasTaken(asked)
        PROVE  TrueOf(req)' \/ TakenOf(req)'
    <3>1. CASE asked \in Outstanding'
      BY <1>4, <2>5, <3>1 DEF TakenOf, HasTaken
    <3>2. CASE known' = Without(known, r)
      BY <3>2 DEF Without
    <3>3. CASE Reread(asked)
      BY <1>3, <1>4, <2>5, <3>3 DEF Reread, With, ResourceOf, TrueOf
    <3> QED
      BY <2>5, <3>1, <3>2, <3>3, OutstandingStep DEF Settled
  <2> QED
    BY <1>2, <2>3, <2>4, <2>5 DEF TakenOf
<1>5. ASSUME NEW w \in Workers, Written(w)
      PROVE  TrueOf(req)' \/ TakenOf(req)'
  <2> DEFINE own == job[w].req
  <2>1. own \in Requests /\ own.list \in DOMAIN lists /\ job[w].before = lists[own.list]
    BY <1>1, <1>5, RequestsAssumption DEF IInv, Shaped, FreshList, DataInv, Written, Holding
  <2>2. lists' = [lists EXCEPT ![own.list] = Edited(own, lists[own.list])]
    BY <1>5, <2>1 DEF Written, PutList
  <2>3. CASE r = ResourceOf(own)
    <3>1. own \in Outstanding'
      BY <1>5, <2>3 DEF Written, Without
    <3>2. lists'[own.list] = Edited(own, lists[own.list])
      BY <2>1, <2>2
    <3>3. Edited(own, lists'[own.list]) = lists'[own.list]
      BY <2>1, <3>2, EditedTwice DEF DataInv
    <3> QED
      BY <2>3, <3>1, <3>3 DEF TakenOf, HasTaken
  <2>4. CASE r # ResourceOf(own)
    <3>1. r \in DOMAIN known /\ known'[r] = known[r]
      BY <1>5, <2>4 DEF Written, Without
    <3>2. ASSUME TrueOf(req) PROVE TrueOf(req)'
      BY <1>1, <1>5, <2>4, <3>1, <3>2, WrittenElsewhere DEF TrueOf
    <3>3. ASSUME NEW asked \in Outstanding, ResourceOf(asked) = r, HasTaken(asked)
          PROVE  TrueOf(req)' \/ TakenOf(req)'
      <4>1. asked \in Requests /\ asked.list = req.list /\ asked.name = req.name
        BY <1>3, <3>3 DEF ResourceOf
      <4>2. asked \in Outstanding' \/ TrueOf(req)'
        <5>1. known' # Without(known, r)
          BY DEF Without
        <5>2. ASSUME Reread(asked), UNCHANGED lists PROVE TrueOf(req)'
          BY <3>3, <4>1, <5>2 DEF Reread, With, TrueOf
        <5> QED
          BY <3>3, <5>1, <5>2, OutstandingStep DEF Settled
      <4>3. Edited(asked, lists'[asked.list]) = lists'[asked.list]
        <5>1. CASE asked.list # own.list
          BY <2>2, <3>3, <5>1 DEF HasTaken
        <5>2. CASE asked.list = own.list
          <6>1. asked.name # own.name
            BY <2>4, <3>3, <5>2 DEF ResourceOf
          <6>2. lists'[asked.list] = Edited(own, lists[asked.list])
            BY <2>1, <2>2, <5>2
          <6> QED
            BY <2>1, <3>3, <4>1, <5>2, <6>1, <6>2, TakenStays DEF HasTaken
        <5> QED
          BY <5>1, <5>2
      <4> QED
        BY <3>3, <4>2, <4>3 DEF TakenOf, HasTaken
    <3> QED
      BY <1>2, <3>1, <3>2, <3>3 DEF TakenOf
  <2> QED
    BY <2>3, <2>4
<1> QED
  BY <1>1, <1>4, <1>5, ListStep

LEMMA NextAskInv ==
  ASSUME IInv, DataInv, AskInv, [Next]_vars
  PROVE  AskInv'
BY ApartStays, SetStaysThere, ClockFreshStays, StateStaysTrue DEF AskInv

\* Terraform's state of a permission, a quota or the clock is what DSM has, or DSM has
\* what an operation of it that is still to be run asks for, whatever failed and
\* whatever other operations did, unless DSM's interface removed something.
THEOREM StateStays == Spec => []StateIsTrue
<1>1. AskInv => StateIsTrue
  BY DEF AskInv
<1> QED
  BY InitIInv, NextIInv, InitDataInv, NextDataInv, InitAskInv, NextAskInv, <1>1, PTL DEF Spec

LEMMA AnswerStep ==
  ASSUME IInv, DataInv, AskInv, NEW w \in Workers,
         ReadBack(w), NothingForeign, budget' = budget, job[w].req.op = "set"
  PROVE  /\ ResourceOf(job[w].req) \in DOMAIN known'
         /\ known'[ResourceOf(job[w].req)] = job[w].req.fields[job[w].req.name]
<1> DEFINE req == job[w].req
<1>1. job[w].pc = "readback" /\ req \in Requests
  BY DEF ReadBack, At, IInv, Shaped
<1>2. /\ req.name \in DOMAIN lists[req.list]
      /\ lists[req.list][req.name] = req.fields[req.name]
  BY <1>1 DEF AskInv, SetStays
<1>3. ~Fail(w, "read")
  <2> SUFFICES ASSUME Fail(w, "read") PROVE FALSE
    OBVIOUS
  <2>1. budget'.failures = budget.failures - 1
    BY DEF Fail, DataInv
  <2> QED
    BY <2>1, BoundsAssumption DEF DataInv
<1>4. known' = With(known, ResourceOf(req), ValueOf(lists[req.list], req.name))
  BY <1>2, <1>3 DEF ReadBack, IsThere
<1>5. req.name # "clock"
  BY <1>1, RequestsAssumption
<1> QED
  BY <1>2, <1>4, <1>5 DEF With, ValueOf

LEMMA ClockStep ==
  ASSUME IInv, DataInv, AskInv, [Next]_vars, NEW w \in Workers,
         job[w].pc \in Holding, job[w].req.op = "clock",
         ParseNTPEnabled(lists'[job[w].req.list].enable_ntp)
            # ParseNTPEnabled(lists[job[w].req.list].enable_ntp)
  PROVE  job[w].req.want =
            IF ParseNTPEnabled(lists'[job[w].req.list].enable_ntp) THEN "on" ELSE "off"
<1> DEFINE req == job[w].req
<1>1. req \in Requests /\ req.list \in DOMAIN lists
  BY RequestsAssumption DEF IInv, Shaped, DataInv, Holding
<1>2. ~ForeignRemove
  <2> SUFFICES ASSUME ForeignRemove PROVE lists'[req.list] = lists[req.list]
    OBVIOUS
  <2>1. PICK other \in Requests :
          /\ other.op # "clock"
          /\ lists' = [lists EXCEPT ![other.list] = Without(@, other.name)]
    BY DEF ForeignRemove
  <2>2. other.list # req.list
    BY <1>1, <2>1, KindsAssumption
  <2> QED
    BY <1>1, <2>1, <2>2
<1>3. PICK v \in Workers : Written(v)
  BY <1>2, ListStep
<1>4. v = w /\ job[w].before = lists[req.list]
  BY <1>3 DEF IInv, OneEditor, AskInv, ClockFresh, Written, Holding
<1>5. lists'[req.list] = [Overlay(lists[req.list], req.fields) EXCEPT !.enable_ntp =
                            ResolveNTPMode(lists[req.list].enable_ntp, req.want)]
  BY <1>1, <1>3, <1>4 DEF Written, PutList, Edited
<1>6. "enable_ntp" \in DOMAIN lists[req.list]
  BY <1>1 DEF DataInv, ListOK
<1>7. lists'[req.list].enable_ntp = ResolveNTPMode(lists[req.list].enable_ntp, req.want)
  BY <1>5, <1>6 DEF Overlay
<1>8. req.want \in {"keep", "on", "off"}
  BY <1>1, RequestsAssumption
<1> QED
  BY <1>7, <1>8, ResolvedAsAsked

\* Every list changes by whole edits, a set answers with what it asked for although it
\* reads back without the lock, and a clock is switched on or off only as asked.
THEOREM AsAsked == Spec => DoneAsAsked
<1>1. IInv /\ DataInv /\ AskInv /\ [Next]_vars =>
        [\A w \in Workers :
          /\ ReadBack(w) /\ NothingForeign
          /\ budget' = budget
          /\ job[w].req.op = "set"
          => /\ ResourceOf(job[w].req) \in DOMAIN known'
             /\ known'[ResourceOf(job[w].req)] = job[w].req.fields[job[w].req.name]]_vars
  BY AnswerStep
<1>2. IInv /\ DataInv /\ AskInv /\ [Next]_vars =>
        [\A w \in Workers :
          job[w].pc \in {"listed", "fallback"} /\ job[w].req.op = "clock" =>
              LET was == ParseNTPEnabled(lists[job[w].req.list].enable_ntp)
                  is  == ParseNTPEnabled(lists'[job[w].req.list].enable_ntp)
              IN  is # was => job[w].req.want = IF is THEN "on" ELSE "off"]_vars
  BY ClockStep DEF Holding
<1>3. Spec => AnswerIsOwn
  BY InitIInv, NextIInv, InitDataInv, NextDataInv, InitAskInv, NextAskInv, <1>1, PTL
  DEF Spec, AnswerIsOwn
<1>4. Spec => ClockAsAsked
  BY InitIInv, NextIInv, InitDataInv, NextDataInv, InitAskInv, NextAskInv, <1>2, PTL
  DEF Spec, ClockAsAsked
<1> QED
  BY <1>3, <1>4, Implements DEF DoneAsAsked
=============================================================================
