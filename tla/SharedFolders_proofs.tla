------------------------ MODULE SharedFolders_proofs ------------------------
(***************************************************************************)
(* For any shares, configuration, number of workers and faults: DSM never  *)
(* sees two mutations of this process at once, Terraform forgets a share   *)
(* only when it is gone, and what was made by hand is neither changed nor  *)
(* destroyed.                                                              *)
(***************************************************************************)
EXTENDS SharedFolders, TLAPS

\* A read is one of the four that Use knows what to do with.
Shaped(j) ==
    /\ "pc" \in DOMAIN j
    /\ j.pc = "get" => j.verb \in {"refresh", "created", "updated", "adopt"}

\* The inductive invariant: the mutation under way is the lock holder's.
IInv ==
    /\ mu \in Workers \union {NoOne}
    /\ job = [w \in Workers |-> job[w]]
    /\ \A w \in Workers : Shaped(job[w])
    /\ OneMutation

\* A worker that is not mutating goes on to something that is not a mutation.
Elsewhere(w) ==
    /\ job[w].pc # "mutate"
    /\ \E j : job' = [job EXCEPT ![w] = j] /\ j.pc # "mutate" /\ Shaped(j)
    /\ mu' = mu

\* The mutating worker is done with it, and gives the lock back.
Finishes(w) ==
    /\ job[w].pc = "mutate"
    /\ \E j : job' = [job EXCEPT ![w] = j] /\ j.pc # "mutate" /\ Shaped(j)
    /\ mu' = NoOne

\* The mutating worker tries again.
Repeats(w) ==
    /\ job[w].pc = "mutate"
    /\ \E j : job' = [job EXCEPT ![w] = j] /\ j.pc = "mutate" /\ Shaped(j)
    /\ mu' = mu

----------------------------------------------------------------------------
LEMMA InitIInv == Init => IInv
  BY WorkersAssumption DEF Init, IInv, OneMutation, At, Idle, Shaped

LEMMA IdleIsShaped == Idle.pc # "mutate" /\ Shaped(Idle)
  BY DEF Idle, Shaped

LEMMA MoveIInv ==
  ASSUME NEW w \in Workers, IInv, Elsewhere(w) \/ Finishes(w) \/ Repeats(w)
  PROVE  IInv'
<1>1. PICK j : job' = [job EXCEPT ![w] = j]
  BY DEF Elsewhere, Finishes, Repeats
<1>2. job'[w] = j /\ \A v \in Workers : v # w => job'[v] = job[v]
  BY <1>1 DEF IInv
<1> QED
  BY <1>1, <1>2, WorkersAssumption
  DEF IInv, OneMutation, At, Elsewhere, Finishes, Repeats

LEMMA ReadMoves ==
  ASSUME NEW w \in Workers, IInv, GetShare(w) \/ ConfirmAbsence(w)
  PROVE  Elsewhere(w)
<1>1. job[w].pc \in {"get", "list"} /\ mu' = mu
  BY DEF GetShare, ConfirmAbsence, At
<1>2. CASE Absent(w) \/ job' = [job EXCEPT ![w] = Idle]
  BY <1>1, <1>2, IdleIsShaped DEF Absent, Elsewhere
<1>3. CASE Goto(w, "list")
  <2> DEFINE j == [job[w] EXCEPT !.pc = "list"]
  <2>1. job' = [job EXCEPT ![w] = j]
    BY <1>3 DEF Goto
  <2>2. Shaped(j) /\ j.pc = "list"
    BY DEF IInv, Shaped
  <2> HIDE DEF j
  <2> QED
    BY <1>1, <2>1, <2>2 DEF Elsewhere
<1>4. ASSUME NEW share, At(w, "get"), Use(w, share) PROVE Elsewhere(w)
  <2>1. job[w].verb \in {"refresh", "created", "updated", "adopt"}
    BY <1>4 DEF IInv, Shaped, At
  <2>2. PICK j : /\ job' = [job EXCEPT ![w] = j]
                 /\ j = Idle \/ \E verb : j = [pc |-> "queued", verb |-> verb, name |-> job[w].name]
    BY <1>4, <2>1 DEF Use
  <2>3. j.pc # "mutate" /\ Shaped(j)
    BY <2>2 DEF Idle, Shaped
  <2> QED
    BY <1>1, <2>2, <2>3 DEF Elsewhere
<1> QED
  BY <1>2, <1>3, <1>4 DEF GetShare, ConfirmAbsence

LEMMA EndFinishes ==
  ASSUME NEW w \in Workers, IInv, At(w, "mutate"), End(w)
  PROVE  Finishes(w)
<1>1. mu' = NoOne
  BY DEF IInv, OneMutation, End, Unlock
<1> QED
  BY <1>1, IdleIsShaped DEF End, Finishes, At

LEMMA MutateMoves ==
  ASSUME NEW w \in Workers, IInv, Mutate(w)
  PROVE  Finishes(w) \/ Repeats(w)
<1>1. At(w, "mutate") /\ job[w].pc = "mutate"
  BY DEF Mutate, At
<1>2. CASE Succeed(w)
  <2>1. PICK j : /\ job' = [job EXCEPT ![w] = j]
                 /\ \/ j = Idle
                    \/ \E verb \in {"created", "updated"} :
                          j = [pc |-> "get", name |-> job[w].name, verb |-> verb]
    BY <1>2 DEF Succeed
  <2>2. j.pc # "mutate" /\ Shaped(j)
    BY <2>1 DEF Idle, Shaped
  <2> QED
    BY <1>1, <1>2, <2>1, <2>2 DEF Succeed, Finishes
<1>3. CASE Fail(w)
  BY <1>1, <1>3, EndFinishes DEF Fail
<1>4. CASE UNCHANGED <<known, mu, job>>
  <2>1. job' = [job EXCEPT ![w] = job[w]]
    BY <1>4 DEF IInv
  <2> QED
    BY <1>1, <1>4, <2>1 DEF Repeats, IInv
<1> QED
  BY <1>2, <1>3, <1>4 DEF Mutate

LEMMA RefusalMoves ==
  ASSUME NEW w \in Workers, IInv,
         Refused(w) \/ Busy(w) \/ RetriesRejection(w) \/ TakesAtFaceValue(w) \/ Impossible(w)
  PROVE  Finishes(w) \/ Repeats(w)
<1>1. At(w, "mutate") /\ job[w].pc = "mutate"
  BY DEF Refused, Busy, RetriesRejection, TakesAtFaceValue, GeneralRejection, Impossible, At
<1>2. CASE Fail(w)
  BY <1>1, <1>2, EndFinishes DEF Fail
<1>3. CASE job' = [job EXCEPT ![w].attempt = @ + 1] /\ mu' = mu
  <2> DEFINE j == [job[w] EXCEPT !.attempt = @ + 1]
  <2>1. job' = [job EXCEPT ![w] = j]
    BY <1>3
  <2>2. j.pc = "mutate" /\ Shaped(j)
    BY <1>1 DEF IInv, Shaped
  <2> HIDE DEF j
  <2> QED
    BY <1>1, <1>3, <2>1, <2>2 DEF Repeats
<1>4. CASE Impossible(w)
  <2>1. PICK j : /\ job' = [job EXCEPT ![w] = j]
                 /\ j = Idle \/ j = [pc |-> "get", verb |-> "adopt", name |-> job[w].name]
    BY <1>4 DEF Impossible
  <2>2. j.pc # "mutate" /\ Shaped(j)
    BY <2>1 DEF Idle, Shaped
  <2> QED
    BY <1>1, <1>4, <2>1, <2>2 DEF Impossible, Finishes
<1> QED
  BY <1>2, <1>3, <1>4 DEF Refused, Busy, RetriesRejection, TakesAtFaceValue

LEMMA BeginMoves ==
  ASSUME NEW w \in Workers, NEW n \in Names, IInv, Begin(w, n)
  PROVE  Elsewhere(w)
<1>1. PICK j : /\ job' = [job EXCEPT ![w] = j]
               /\ \/ j = [pc |-> "get", verb |-> "refresh", name |-> n]
                  \/ j = [pc |-> "queued", verb |-> "create", name |-> n]
  BY DEF Begin
<1>2. j.pc # "mutate" /\ Shaped(j)
  BY <1>1 DEF Shaped
<1> QED
  BY <1>1, <1>2 DEF Begin, At, Elsewhere

LEMMA TakeIInv ==
  ASSUME NEW w \in Workers, IInv, TakeShareMu(w)
  PROVE  IInv'
<1>1. /\ job'[w].pc = "mutate" /\ mu' = w /\ Shaped(job'[w])
      /\ \A v \in Workers : v # w => job'[v] = job[v] /\ job[v].pc # "mutate"
  BY WorkersAssumption DEF IInv, OneMutation, TakeShareMu, At, MuFree, Shaped
<1> QED
  BY <1>1 DEF IInv, OneMutation, TakeShareMu, At

----------------------------------------------------------------------------
\* The inductive step, one case per action.
THEOREM NextIInv == IInv /\ [Next]_vars => IInv'
<1> SUFFICES ASSUME IInv, [Next]_vars PROVE IInv'
  OBVIOUS
<1>1. ASSUME NEW w \in Workers, NEW n \in Names, Begin(w, n) PROVE IInv'
  BY <1>1, BeginMoves, MoveIInv
<1>2. ASSUME NEW w \in Workers, TakeShareMu(w) PROVE IInv'
  BY <1>2, TakeIInv
<1>3. ASSUME NEW w \in Workers, Step(w) PROVE IInv'
  BY <1>3, ReadMoves, MutateMoves, RefusalMoves, MoveIInv DEF Step
<1>4. CASE Settle \/ Foreign \/ UNCHANGED vars
  BY <1>4 DEF IInv, OneMutation, At, Settle, Foreign, vars
<1>5. CASE Restart
  BY <1>5, WorkersAssumption DEF IInv, OneMutation, At, Restart, Idle, Shaped
<1> QED
  BY <1>1, <1>2, <1>3, <1>4, <1>5 DEF Next

\* DSM is never sent two mutations at once (shareMu is held through the retries).
THEOREM MutationsExclude == Spec => []OneMutation
<1>1. IInv => OneMutation
  BY DEF IInv
<1> QED
  BY InitIInv, NextIInv, <1>1, PTL DEF Spec

----------------------------------------------------------------------------
\* Only an answer without the share, a list without it or its own delete takes a
\* share out of Terraform's state (removeIfGone, Delete).
LEMMA ForgetsOnlyTheGone ==
  ASSUME NEW w \in Workers, IInv, Step(w), NEW n \in DOMAIN known, n \notin DOMAIN known'
  PROVE  n \notin DOMAIN shares'
<1>1. CASE GetShare(w) \/ ConfirmAbsence(w)
  <2>1. shares' = shares
    BY <1>1 DEF GetShare, ConfirmAbsence
  <2>2. ASSUME NEW share, At(w, "get"), Use(w, share) PROVE FALSE
    <3>1. job[w].verb \in {"refresh", "created", "updated", "adopt"}
      BY <2>2 DEF IInv, Shaped, At
    <3>2. known' = known \/ \E v : known' = Put(known, job[w].name, v)
      BY <2>2, <3>1 DEF Use
    <3> QED
      BY <3>2 DEF Put
  <2>3. Absent(w) /\ job[w].name \notin DOMAIN shares
    BY <1>1, <2>2 DEF GetShare, ConfirmAbsence
  <2>4. n = job[w].name
    BY <2>3 DEF Absent, Drop
  <2> QED
    BY <2>1, <2>3, <2>4
<1>2. CASE Mutate(w)
  <2>1. Succeed(w)
    BY <1>2 DEF Mutate, Fail
  <2>2. job[w].verb = "delete" /\ n = job[w].name
    BY <2>1 DEF Succeed, Drop
  <2>3. shares' = Drop(shares, job[w].name)
    BY <1>2, <2>2 DEF Mutate, Performed
  <2> QED
    BY <2>2, <2>3 DEF Drop
<1>3. CASE Refused(w) \/ Busy(w) \/ RetriesRejection(w) \/ TakesAtFaceValue(w) \/ Impossible(w)
  BY <1>3 DEF Refused, Busy, RetriesRejection, TakesAtFaceValue, Impossible, Fail
<1> QED
  BY <1>1, <1>2, <1>3 DEF Step

\* A refused or lost read never makes Terraform forget a share that is there.
THEOREM AbsenceIsProved == Spec => NeverForgotten
<1>1. ASSUME IInv, [Next]_vars, NEW n \in DOMAIN known, n \notin DOMAIN known'
      PROVE  n \notin DOMAIN shares'
  <2>1. known' # known
    BY <1>1
  <2>2. PICK w \in Workers : Step(w)
    BY <1>1, <2>1
    DEF Next, vars, Begin, TakeShareMu, Settle, Foreign, Restart
  <2> QED
    BY <1>1, <2>2, ForgetsOnlyTheGone
<1>2. IInv /\ [Next]_vars =>
          [\A n \in DOMAIN known : n \notin DOMAIN known' => n \notin DOMAIN shares']_vars
  BY <1>1
<1> QED
  BY InitIInv, NextIInv, <1>2, PTL DEF Spec, NeverForgotten

----------------------------------------------------------------------------
(***************************************************************************)
(* The types, on top of IInv.                                              *)
(***************************************************************************)
Typed(j) ==
    /\ j.pc \in {"idle", "queued", "mutate", "get", "list"}
    /\ j.pc # "idle" => {"name", "verb"} \subseteq DOMAIN j /\ j.name \in Names
    /\ j.pc \in {"queued", "mutate"} => j.verb \in {"create", "update", "delete"}
    /\ j.pc = "mutate" => "attempt" \in DOMAIN j /\ j.attempt \in 0 .. ShareBusyAttempts - 1

MapsTyped == DOMAIN shares \subseteq Names /\ DOMAIN known \subseteq Names /\ settling \in BOOLEAN

BudgetTyped == budget \in [faults : 0 .. MaxFaults, foreign : 0 .. MaxForeign]

TypeInv ==
    /\ IInv
    /\ \A w \in Workers : Typed(job[w])
    /\ MapsTyped
    /\ BudgetTyped

\* What is to be shown of a worker's step: where it goes to is typed.
BecomesTyped(w) == \E j : job' = [job EXCEPT ![w] = j] /\ Typed(j)

LEMMA IdleIsTyped == Typed(Idle)
  BY DEF Typed, Idle

LEMMA FaultTyped ==
  ASSUME BudgetTyped, NEW kind, Fault(kind)
  PROVE  BudgetTyped'
  BY BoundsAssumption DEF BudgetTyped, Fault

LEMMA GotoListTyped ==
  ASSUME TypeInv, NEW w \in Workers, At(w, "get"), Goto(w, "list")
  PROVE  BecomesTyped(w)
<1> DEFINE j == [job[w] EXCEPT !.pc = "list"]
<1>1. job' = [job EXCEPT ![w] = j]
  BY DEF Goto
<1>2. Typed(j)
  BY DEF TypeInv, IInv, Shaped, Typed, At
<1> HIDE DEF j
<1> QED
  BY <1>1, <1>2 DEF BecomesTyped

LEMMA AbsentTyped ==
  ASSUME TypeInv, NEW w \in Workers, Absent(w)
  PROVE  BecomesTyped(w) /\ DOMAIN known' \subseteq Names
  BY IdleIsTyped DEF TypeInv, MapsTyped, Absent, BecomesTyped, Drop

LEMMA UseTyped ==
  ASSUME TypeInv, NEW w \in Workers, At(w, "get"), NEW share, Use(w, share)
  PROVE  BecomesTyped(w) /\ DOMAIN known' \subseteq Names
<1>1. job[w].name \in Names /\ job[w].verb \in {"refresh", "created", "updated", "adopt"}
  BY DEF TypeInv, IInv, Typed, Shaped, At
<1>2. PICK j : /\ job' = [job EXCEPT ![w] = j]
               /\ \/ j = Idle
                  \/ \E verb \in {"update", "delete"} :
                        j = [pc |-> "queued", verb |-> verb, name |-> job[w].name]
  BY <1>1 DEF Use, PlannedVerb
<1>3. Typed(j)
  BY <1>1, <1>2 DEF Typed, Idle
<1>4. known' = known \/ \E v : known' = Put(known, job[w].name, v)
  BY <1>1 DEF Use
<1>5. DOMAIN known' \subseteq Names
  BY <1>1, <1>4 DEF Put, TypeInv, MapsTyped
<1> QED
  BY <1>2, <1>3, <1>5 DEF BecomesTyped

LEMMA ReadTyped ==
  ASSUME TypeInv, NEW w \in Workers, GetShare(w) \/ ConfirmAbsence(w)
  PROVE  BecomesTyped(w) /\ MapsTyped' /\ BudgetTyped'
<1>1. MapsTyped /\ BudgetTyped
  BY DEF TypeInv
<1>2. BudgetTyped'
  BY <1>1, FaultTyped DEF GetShare, ConfirmAbsence, BudgetTyped
<1>3. shares' = shares /\ settling' = settling
  BY DEF GetShare, ConfirmAbsence
<1>4. CASE Absent(w)
  BY <1>1, <1>2, <1>3, <1>4, AbsentTyped DEF MapsTyped
<1>5. CASE job' = [job EXCEPT ![w] = Idle] /\ known' = known
  BY <1>1, <1>2, <1>3, <1>5, IdleIsTyped DEF MapsTyped, BecomesTyped
<1>6. CASE At(w, "get") /\ Goto(w, "list") /\ known' = known
  BY <1>1, <1>2, <1>3, <1>6, GotoListTyped DEF MapsTyped
<1>7. ASSUME NEW share, At(w, "get"), Use(w, share) PROVE BecomesTyped(w) /\ MapsTyped'
  BY <1>1, <1>3, <1>7, UseTyped DEF MapsTyped
<1> QED
  BY <1>2, <1>4, <1>5, <1>6, <1>7 DEF GetShare, ConfirmAbsence

LEMMA SucceedTyped ==
  ASSUME TypeInv, NEW w \in Workers, At(w, "mutate"), Succeed(w)
  PROVE  BecomesTyped(w) /\ DOMAIN known' \subseteq Names
<1>1. job[w].name \in Names
  BY DEF TypeInv, Typed, At
<1>2. PICK j : /\ job' = [job EXCEPT ![w] = j]
               /\ \/ j = Idle
                  \/ \E verb : j = [pc |-> "get", name |-> job[w].name, verb |-> verb]
  BY DEF Succeed
<1>3. Typed(j)
  BY <1>1, <1>2 DEF Typed, Idle
<1>4. DOMAIN known' \subseteq Names
  BY DEF Succeed, Drop, TypeInv, MapsTyped
<1> QED
  BY <1>2, <1>3, <1>4 DEF BecomesTyped

LEMMA MutateTyped ==
  ASSUME TypeInv, NEW w \in Workers, Mutate(w)
  PROVE  BecomesTyped(w) /\ MapsTyped' /\ BudgetTyped'
<1>1. At(w, "mutate") /\ Typed(job[w]) /\ MapsTyped /\ BudgetTyped
  BY DEF Mutate, TypeInv
<1>2. job[w].name \in Names /\ job[w].verb \in {"create", "update", "delete"}
  BY <1>1 DEF Typed, At
<1>3. DOMAIN shares' \subseteq Names /\ settling' \in BOOLEAN
  BY <1>1, <1>2 DEF Mutate, Performed, Put, Drop, MapsTyped
<1>4. BudgetTyped'
  BY <1>1, FaultTyped DEF Mutate, BudgetTyped
<1>5. BecomesTyped(w) /\ DOMAIN known' \subseteq Names
  <2>1. CASE Succeed(w)
    BY <1>1, <2>1, SucceedTyped
  <2>2. CASE Fail(w)
    BY <1>1, <2>2, IdleIsTyped DEF Fail, End, BecomesTyped, MapsTyped
  <2>3. CASE known' = known /\ job' = job
    <3>1. job' = [job EXCEPT ![w] = job[w]]
      BY <2>3 DEF TypeInv, IInv
    <3> QED
      BY <1>1, <2>3, <3>1 DEF BecomesTyped, MapsTyped
  <2> QED
    BY <2>1, <2>2, <2>3 DEF Mutate
<1> QED
  BY <1>3, <1>4, <1>5 DEF MapsTyped

LEMMA AttemptTyped ==
  ASSUME TypeInv, NEW w \in Workers, At(w, "mutate"),
         job' = [job EXCEPT ![w].attempt = @ + 1],
         job[w].attempt + 1 < ShareBusyAttempts
  PROVE  BecomesTyped(w)
<1> DEFINE j == [job[w] EXCEPT !.attempt = @ + 1]
<1>1. Typed(job[w])
  BY DEF TypeInv
<1>2. job[w].attempt \in Nat /\ j.attempt = job[w].attempt + 1
  BY <1>1 DEF Typed, At, ShareBusyAttempts
<1>3. Typed(j)
  BY <1>1, <1>2 DEF Typed, At, ShareBusyAttempts
<1>4. job' = [job EXCEPT ![w] = j]
  OBVIOUS
<1> HIDE DEF j
<1> QED
  BY <1>3, <1>4 DEF BecomesTyped

LEMMA RefusalTyped ==
  ASSUME TypeInv, NEW w \in Workers,
         Refused(w) \/ Busy(w) \/ RetriesRejection(w) \/ TakesAtFaceValue(w) \/ Impossible(w)
  PROVE  BecomesTyped(w) /\ MapsTyped' /\ BudgetTyped'
<1>1. At(w, "mutate") /\ Typed(job[w]) /\ MapsTyped /\ BudgetTyped
  BY DEF Refused, Busy, RetriesRejection, TakesAtFaceValue, GeneralRejection, Impossible, TypeInv
<1>2. MapsTyped'
  BY <1>1 DEF Refused, Busy, RetriesRejection, TakesAtFaceValue, Impossible, Fail, MapsTyped
<1>3. BudgetTyped'
  BY <1>1, FaultTyped
  DEF Refused, Busy, RetriesRejection, TakesAtFaceValue, Impossible, BudgetTyped
<1>4. CASE Fail(w)
  BY <1>2, <1>3, <1>4, IdleIsTyped DEF Fail, End, BecomesTyped
<1>5. CASE Busy(w) \/ RetriesRejection(w)
  <2>1. \/ Fail(w)
        \/ /\ job' = [job EXCEPT ![w].attempt = @ + 1]
           /\ job[w].attempt + 1 < ShareBusyAttempts
    BY <1>1, <1>5 DEF Busy, RetriesRejection, Typed, At, ShareBusyAttempts,
                      ShareGeneralRejectionAttempts
  <2> QED
    BY <1>1, <1>2, <1>3, <1>4, <2>1, AttemptTyped
<1>6. CASE Impossible(w)
  <2>1. job[w].name \in Names
    BY <1>1 DEF Typed, At
  <2>2. PICK j : /\ job' = [job EXCEPT ![w] = j]
                 /\ j = Idle \/ j = [pc |-> "get", verb |-> "adopt", name |-> job[w].name]
    BY <1>6 DEF Impossible
  <2>3. Typed(j)
    BY <2>1, <2>2 DEF Typed, Idle
  <2> QED
    BY <1>2, <1>3, <2>2, <2>3 DEF BecomesTyped
<1> QED
  BY <1>4, <1>5, <1>6 DEF Refused, TakesAtFaceValue

LEMMA BeginTyped ==
  ASSUME TypeInv, NEW w \in Workers, NEW n \in Names, Begin(w, n)
  PROVE  BecomesTyped(w) /\ MapsTyped' /\ BudgetTyped'
<1>1. PICK j : /\ job' = [job EXCEPT ![w] = j]
               /\ \/ j = [pc |-> "get", verb |-> "refresh", name |-> n]
                  \/ j = [pc |-> "queued", verb |-> "create", name |-> n]
  BY DEF Begin
<1>2. Typed(j)
  BY <1>1 DEF Typed
<1> QED
  BY <1>1, <1>2 DEF Begin, BecomesTyped, TypeInv, MapsTyped, BudgetTyped

LEMMA TakeTyped ==
  ASSUME TypeInv, NEW w \in Workers, TakeShareMu(w)
  PROVE  BecomesTyped(w) /\ MapsTyped' /\ BudgetTyped'
<1> DEFINE j == [pc |-> "mutate", verb |-> job[w].verb, name |-> job[w].name, attempt |-> 0]
<1>1. job' = [job EXCEPT ![w] = j]
  BY DEF TakeShareMu
<1>2. Typed(j)
  BY DEF TypeInv, Typed, TakeShareMu, At, ShareBusyAttempts
<1> HIDE DEF j
<1> QED
  BY <1>1, <1>2 DEF TakeShareMu, BecomesTyped, TypeInv, MapsTyped, BudgetTyped

\* A typed step of one worker leaves the others typed.
LEMMA WorkerTyped ==
  ASSUME TypeInv, IInv', NEW w \in Workers, BecomesTyped(w), MapsTyped', BudgetTyped'
  PROVE  TypeInv'
<1>1. PICK j : job' = [job EXCEPT ![w] = j] /\ Typed(j)
  BY DEF BecomesTyped
<1>2. \A v \in Workers : job'[v] = IF v = w THEN j ELSE job[v]
  BY <1>1 DEF TypeInv, IInv
<1> QED
  BY <1>1, <1>2 DEF TypeInv, Typed

LEMMA EnvironmentTyped ==
  ASSUME TypeInv, IInv', Settle \/ Foreign \/ Restart
  PROVE  TypeInv'
<1>1. MapsTyped /\ BudgetTyped
  BY DEF TypeInv
<1>2. CASE Settle
  BY <1>1, <1>2 DEF Settle, TypeInv, Typed, MapsTyped, BudgetTyped
<1>3. CASE Foreign
  <2>1. PICK n \in DOMAIN Config :
           shares' = Drop(shares, n) \/ \E v : shares' = Put(shares, n, v)
    BY <1>3 DEF Foreign
  <2>3. n \in Names
    BY DEF Names
  <2>4. DOMAIN shares' \subseteq Names
    BY <1>1, <2>1, <2>3 DEF Put, Drop, MapsTyped
  <2>2. BudgetTyped'
    <3>1. budget.foreign > 0 /\ budget' = [budget EXCEPT !.foreign = @ - 1]
      BY <1>3 DEF Foreign
    <3> QED
      BY <1>1, <3>1, BoundsAssumption DEF BudgetTyped
  <2>5. settling' = TRUE /\ known' = known /\ job' = job
    BY <1>3 DEF Foreign
  <2>6. MapsTyped'
    BY <1>1, <2>4, <2>5 DEF MapsTyped
  <2> QED
    BY <2>2, <2>5, <2>6 DEF TypeInv, Typed
<1>4. CASE Restart
  BY <1>1, <1>4, FaultTyped, IdleIsTyped DEF Restart, TypeInv, Typed, MapsTyped
<1> QED
  BY <1>2, <1>3, <1>4

LEMMA InitTypes == Init => TypeInv
<1> SUFFICES ASSUME Init PROVE TypeInv
  OBVIOUS
<1>1. \A w \in Workers : Typed(job[w])
  BY IdleIsTyped DEF Init
<1>2. MapsTyped
  BY DEF Init, MapsTyped, Names
<1>3. BudgetTyped
  BY BoundsAssumption DEF Init, BudgetTyped
<1> QED
  BY <1>1, <1>2, <1>3, InitIInv DEF TypeInv

THEOREM NextTypes == TypeInv /\ [Next]_vars => TypeInv'
<1> SUFFICES ASSUME TypeInv, [Next]_vars PROVE TypeInv'
  OBVIOUS
<1>1. IInv'
  BY NextIInv DEF TypeInv
<1>2. CASE UNCHANGED vars
  BY <1>1, <1>2 DEF vars, TypeInv, Typed, MapsTyped, BudgetTyped
<1>3. ASSUME NEW w \in Workers, NEW n \in Names, Begin(w, n) PROVE TypeInv'
  BY <1>1, <1>3, BeginTyped, WorkerTyped
<1>4. ASSUME NEW w \in Workers, TakeShareMu(w) \/ Step(w) PROVE TypeInv'
  BY <1>1, <1>4, TakeTyped, ReadTyped, MutateTyped, RefusalTyped, WorkerTyped DEF Step
<1> QED
  BY <1>1, <1>2, <1>3, <1>4, EnvironmentTyped DEF Next

\* The types hold, for any workers, shares, configuration and faults, and DSM is never
\* sent two mutations at once.
THEOREM TypeCorrect == Spec => []TypeOK
<1>1. TypeInv => TypeOK
  BY DEF TypeInv, IInv, Typed, MapsTyped, BudgetTyped, TypeOK, At
<1> QED
  BY <1>1, InitTypes, NextTypes, PTL DEF Spec

----------------------------------------------------------------------------
(***************************************************************************)
(* What was made by hand.  The invariant speaks of one name at a time: of  *)
(* what operations under way are about it for, of the share of that name,  *)
(* of whether Terraform has it, and of the changes by hand that are left.  *)
(***************************************************************************)
\* Terraform does not have it, and nothing under way would change it if it is there.
Untouched(verbs, has) == ~has /\ verbs \subseteq {"create", "adopt"}

\* Why operations are under way: only what Terraform has is refreshed or deleted, only
\* what is configured is written, and what is written without Terraform having it is
\* being adopted, on its volume.
Purposes(n, verbs, there, share, has) ==
    /\ verbs \subseteq {"refresh", "delete"} \/ n \in DOMAIN Config
    /\ verbs \cap {"refresh", "delete"} # {} => has
    /\ "adopt" \in verbs => MayAdopt(n)
    /\ "update" \in verbs /\ ~has => MayAdopt(n) /\ (there => Adoptable(n, share))
    /\ has => n \in DOMAIN Config \union DOMAIN InitKnown

\* The share is not as configured, in a way that only a replacement could mend.
Misfit(n, share) == NeedsReplacement(Settings(share), Config[n])

\* A name that is configured and was not Terraform's to begin with: what is on another
\* volume is left alone; unless it lacks its flag, it is never replaced; and if it may
\* not be adopted, then it is Terraform's only while a person has not put it there.
Respected(n, verbs, there, share, has, left) ==
    /\ there /\ ~Adoptable(n, share) => Untouched(verbs, has)
    /\ ~LacksFlag(n) =>
          /\ "delete" \notin verbs
          /\ there /\ Misfit(n, share) =>
                Untouched(verbs, has) /\ ~(MayAdopt(n) /\ Adoptable(n, share))
    /\ ~MayAdopt(n) =>
          /\ left = MaxForeign /\ ~there => Untouched(verbs, has)
          /\ left + 1 >= MaxForeign /\ there /\ share.origin = "hand" => Untouched(verbs, has)

Fits(n, verbs, there, share, has, left) ==
    /\ Purposes(n, verbs, there, share, has)
    /\ n \in DOMAIN Config \ DOMAIN InitKnown => Respected(n, verbs, there, share, has, left)

AtWork(n) == {w \in Workers : job[w].pc # "idle" /\ job[w].name = n}

Verbs(n) == {job[w].verb : w \in AtWork(n)}

Fit(n) == Fits(n, Verbs(n), n \in DOMAIN shares, shares[n], n \in DOMAIN known, budget.foreign)

\* At most one operation is about a share.
Alone == \A n \in Names : \A v, w \in AtWork(n) : v = w

WholeShares == \A n \in DOMAIN shares : IsShare(shares[n])

HandInv ==
    /\ TypeInv
    /\ Alone
    /\ WholeShares
    /\ \A n \in Names : Fit(n)

----------------------------------------------------------------------------
LEMMA Fewer ==
  ASSUME NEW n, NEW A, NEW B \in SUBSET A, NEW there, NEW share, NEW has, NEW left,
         Fits(n, A, there, share, has, left)
  PROVE  Fits(n, B, there, share, has, left)
  BY DEF Fits, Purposes, Respected, Untouched

\* What a step of w about m does to the operations under way.
Turns(w, m) ==
    /\ m \in Names
    /\ job[w].pc # "idle" => job[w].name = m
    /\ job[w].pc = "idle" => AtWork(m) = {}
    /\ \E j : job' = [job EXCEPT ![w] = j] /\ (j.pc # "idle" => j.name = m)

LEMMA TurnsVerbs ==
  ASSUME HandInv, NEW w \in Workers, NEW m, Turns(w, m)
  PROVE  /\ Verbs(m) = IF job[w].pc = "idle" THEN {} ELSE {job[w].verb}
         /\ Verbs(m)' = IF job'[w].pc = "idle" THEN {} ELSE {job'[w].verb}
         /\ \A n \in Names : n # m => Verbs(n)' = Verbs(n)
         /\ Alone'
<1>1. PICK j : job' = [job EXCEPT ![w] = j] /\ (j.pc # "idle" => j.name = m)
  BY DEF Turns
<1>2. \A v \in Workers : job'[v] = IF v = w THEN j ELSE job[v]
  BY <1>1 DEF HandInv, TypeInv, IInv
<1>3. AtWork(m) = IF job[w].pc = "idle" THEN {} ELSE {w}
  BY DEF Turns, HandInv, Alone, AtWork
<1>4. AtWork(m)' = IF j.pc = "idle" THEN {} ELSE {w}
  BY <1>1, <1>2, <1>3 DEF AtWork
<1>5. ASSUME NEW n \in Names, n # m
      PROVE  AtWork(n)' = AtWork(n) /\ w \notin AtWork(n)
  BY <1>1, <1>2, <1>5 DEF AtWork, Turns
<1>6. Alone'
  BY <1>4, <1>5 DEF HandInv, Alone
<1>7. \A n \in Names : n # m => Verbs(n)' = Verbs(n)
  BY <1>2, <1>5 DEF Verbs, AtWork
<1> QED
  BY <1>2, <1>3, <1>4, <1>6, <1>7 DEF Verbs

\* A step about m leaves the others as they are.
Leaves(m) ==
    /\ \A n \in Names : n # m =>
          /\ n \in DOMAIN shares' <=> n \in DOMAIN shares
          /\ n \in DOMAIN shares => shares'[n] = shares[n]
          /\ n \in DOMAIN known' <=> n \in DOMAIN known
    /\ budget'.foreign = budget.foreign

LEMMA AbsentShare ==
  ASSUME NEW n, NEW A, NEW share, NEW other, NEW has, NEW left,
         Fits(n, A, FALSE, share, has, left)
  PROVE  Fits(n, A, FALSE, other, has, left)
  BY DEF Fits, Purposes, Respected

\* Nothing changes for a name but that operations on it come to their end.
LEMMA FitStays ==
  ASSUME NEW n, Fit(n), Verbs(n)' \subseteq Verbs(n),
         n \in DOMAIN shares' <=> n \in DOMAIN shares,
         n \in DOMAIN shares => shares'[n] = shares[n],
         n \in DOMAIN known' <=> n \in DOMAIN known,
         budget'.foreign = budget.foreign
  PROVE  Fit(n)'
<1> DEFINE f(A, share) == Fits(n, A, n \in DOMAIN shares, share, n \in DOMAIN known, budget.foreign)
<1>1. f(Verbs(n), shares[n])
  BY DEF Fit
<1>2. f(Verbs(n)', shares[n])
  BY <1>1, Fewer
<1>3. f(Verbs(n)', shares'[n])
  <2>1. CASE n \in DOMAIN shares
    BY <1>2, <2>1
  <2>2. CASE n \notin DOMAIN shares
    <3>1. (n \in DOMAIN shares) = FALSE
      BY <2>2
    <3> QED
      BY <1>2, <3>1, AbsentShare
  <2> QED
    BY <2>1, <2>2
<1>4. (n \in DOMAIN shares') = (n \in DOMAIN shares) /\ (n \in DOMAIN known') = (n \in DOMAIN known)
  OBVIOUS
<1> QED
  BY <1>3, <1>4 DEF Fit

LEMMA StepFits ==
  ASSUME HandInv, TypeInv', NEW w \in Workers, NEW m, Turns(w, m), Leaves(m), WholeShares',
         Fits(m, IF job'[w].pc = "idle" THEN {} ELSE {job'[w].verb},
              m \in DOMAIN shares', shares'[m], m \in DOMAIN known', budget'.foreign)
  PROVE  HandInv'
<1>1. Alone' /\ Fit(m)'
  BY TurnsVerbs DEF Fit
<1>2. ASSUME NEW n \in Names, n # m PROVE Fit(n)'
  <2>1. Verbs(n)' \subseteq Verbs(n) /\ Fit(n)
    BY <1>2, TurnsVerbs DEF HandInv
  <2> QED
    BY <1>2, <2>1, FitStays DEF Leaves
<1> QED
  BY <1>1, <1>2 DEF HandInv

----------------------------------------------------------------------------
\* What the steps of one operation do to the name it is about.
LEMMA BeginFits ==
  ASSUME NEW n, NEW there, NEW share, NEW has, NEW left, Fits(n, {}, there, share, has, left)
  PROVE  /\ has => Fits(n, {"refresh"}, there, share, has, left)
         /\ ~has /\ n \in DOMAIN Config => Fits(n, {"create"}, there, share, has, left)
  BY DEF Fits, Purposes, Respected, Untouched

LEMMA AbsentFits ==
  ASSUME NEW n, NEW verb, NEW share, NEW has, NEW left, Fits(n, {verb}, FALSE, share, has, left)
  PROVE  /\ Fits(n, {}, FALSE, share, FALSE, left)
         /\ Fits(n, {}, FALSE, share, has, left)
  BY DEF Fits, Purposes, Respected, Untouched

LEMMA RefreshFits ==
  ASSUME NEW n, NEW share, NEW has, NEW left, NEW plan,
         Fits(n, {"refresh"}, TRUE, share, has, left), plan = PlannedVerb(n, Settings(share))
  PROVE  /\ Fits(n, {}, TRUE, share, TRUE, left)
         /\ plan # "nothing" => Fits(n, {plan}, TRUE, share, TRUE, left)
<1>1. has
  BY DEF Fits, Purposes
<1>2. Fits(n, {}, TRUE, share, TRUE, left)
  BY <1>1 DEF Fits, Purposes, Respected, Untouched
<1>3. CASE plan = "delete"
  <2>1. n \notin DOMAIN Config \/ Misfit(n, share)
    BY <1>3 DEF PlannedVerb, Misfit
  <2>2. Purposes(n, {plan}, TRUE, share, TRUE)
    BY <1>1, <1>3 DEF Fits, Purposes
  <2>3. n \in DOMAIN Config \ DOMAIN InitKnown => Respected(n, {plan}, TRUE, share, TRUE, left)
    BY <1>1, <1>3, <2>1 DEF Fits, Respected, Untouched
  <2> QED
    BY <1>2, <2>2, <2>3 DEF Fits
<1>4. CASE plan = "update"
  <2>1. n \in DOMAIN Config
    BY <1>4 DEF PlannedVerb
  <2> QED
    BY <1>1, <1>2, <1>4, <2>1 DEF Fits, Purposes, Respected, Untouched
<1> QED
  BY <1>2, <1>3, <1>4 DEF PlannedVerb

LEMMA ReadBackFits ==
  ASSUME NEW n, NEW verb \in {"created", "updated"}, NEW share, NEW has, NEW left,
         Fits(n, {verb}, TRUE, share, has, left)
  PROVE  Fits(n, {}, TRUE, share, TRUE, left)
  BY DEF Fits, Purposes, Respected, Untouched

LEMMA AdoptFits ==
  ASSUME NEW n, NEW share, NEW has, NEW left, Fits(n, {"adopt"}, TRUE, share, has, left),
         Adoptable(n, share)
  PROVE  Fits(n, {"update"}, TRUE, share, has, left)
<1>1. MayAdopt(n) /\ n \in DOMAIN Config
  BY DEF Fits, Purposes
<1>2. Purposes(n, {"update"}, TRUE, share, has)
  BY <1>1 DEF Fits, Purposes
<1>3. n \in DOMAIN Config \ DOMAIN InitKnown => Respected(n, {"update"}, TRUE, share, has, left)
  BY <1>1 DEF Fits, Respected
<1> QED
  BY <1>2, <1>3 DEF Fits

Created(n) == [vol |-> Config[n].vol, desc |-> Config[n].desc, cow |-> Config[n].cow,
               origin |-> "terraform"]

LEMMA CreateFits ==
  ASSUME NEW n, NEW has, NEW other, NEW left, NEW verb \in {"create", "created"},
         Fits(n, {"create"}, FALSE, other, has, left)
  PROVE  Fits(n, {verb}, TRUE, Created(n), has, left)
<1>1. n \in DOMAIN Config
  BY DEF Fits, Purposes
<1>2. Adoptable(n, Created(n)) /\ ~Misfit(n, Created(n)) /\ Created(n).origin = "terraform"
  BY <1>1, ConfigAssumption DEF Adoptable, Misfit, Created, NeedsReplacement, Settings
<1> HIDE DEF Created
<1>3. Purposes(n, {verb}, TRUE, Created(n), has)
  BY <1>1 DEF Fits, Purposes
<1>4. n \in DOMAIN Config \ DOMAIN InitKnown => Respected(n, {verb}, TRUE, Created(n), has, left)
  BY <1>2 DEF Respected
<1> QED
  BY <1>3, <1>4 DEF Fits

Updated(n, share) == [share EXCEPT !.desc = Config[n].desc, !.cow = @ /\ Config[n].cow]

LEMMA UpdateFits ==
  ASSUME NEW n, NEW share, IsShare(share), NEW has, NEW left, NEW verb \in {"update", "updated"},
         Fits(n, {"update"}, TRUE, share, has, left)
  PROVE  /\ Fits(n, {verb}, TRUE, Updated(n, share), has, left)
         /\ IsShare(Updated(n, share))
<1>1. n \in DOMAIN Config
  BY DEF Fits, Purposes
<1>2. Config[n].cow \in BOOLEAN
  BY <1>1, ConfigAssumption
<1>3. /\ Updated(n, share).vol = share.vol /\ Updated(n, share).origin = share.origin
      /\ Updated(n, share).cow = (share.cow /\ Config[n].cow)
      /\ DOMAIN Updated(n, share) = DOMAIN share
  BY DEF Updated, IsShare
<1> HIDE DEF Updated
<1>4. IsShare(Updated(n, share))
  BY <1>2, <1>3 DEF IsShare
<1>5. Adoptable(n, Updated(n, share)) = Adoptable(n, share)
  BY <1>3 DEF Adoptable
<1>6. Misfit(n, Updated(n, share)) => Misfit(n, share)
  BY <1>2, <1>3 DEF Misfit, NeedsReplacement, Settings, IsShare
<1>7. Purposes(n, {verb}, TRUE, Updated(n, share), has)
  BY <1>1, <1>5 DEF Fits, Purposes
<1>8. n \in DOMAIN Config \ DOMAIN InitKnown =>
         Respected(n, {verb}, TRUE, Updated(n, share), has, left)
  BY <1>3, <1>5, <1>6 DEF Fits, Respected, Untouched
<1> QED
  BY <1>4, <1>7, <1>8 DEF Fits

LEMMA DeleteFits ==
  ASSUME NEW n, NEW share, NEW other, NEW has, NEW left, Fits(n, {"delete"}, TRUE, share, has, left)
  PROVE  /\ Fits(n, {"delete"}, FALSE, other, has, left)
         /\ Fits(n, {}, FALSE, other, FALSE, left)
<1>1. n \in DOMAIN Config \ DOMAIN InitKnown => LacksFlag(n) /\ MayAdopt(n)
  BY DEF Fits, Respected, LacksFlag
<1> QED
  BY <1>1 DEF Fits, Purposes, Respected

LEMMA ImpossibleFits ==
  ASSUME NEW n, NEW there, NEW share, NEW has, NEW left, MayAdopt(n),
         Fits(n, {"create"}, there, share, has, left)
  PROVE  Fits(n, {"adopt"}, there, share, has, left)
  BY DEF Fits, Purposes, Respected, Untouched

----------------------------------------------------------------------------
\* A change by hand.
LEMMA ElsewhereFits ==
  ASSUME NEW n, NEW A, NEW there, NEW share, NEW has, NEW left \in 1 .. MaxForeign,
         Fits(n, A, there, share, has, left)
  PROVE  /\ Fits(n, A, there, share, has, left - 1)
         /\ Fits(n, A, FALSE, share, has, left - 1)
<1>1. left - 1 # MaxForeign /\ (left - 1 + 1 >= MaxForeign => left + 1 >= MaxForeign)
  BY BoundsAssumption
<1> QED
  BY <1>1 DEF Fits, Purposes, Respected

ByHand(n) == [vol |-> Config[n].vol, desc |-> "by hand", cow |-> Config[n].cow, origin |-> "hand"]

LEMMA ByHandFits ==
  ASSUME NEW n \in DOMAIN Config, NEW A, NEW share, NEW has, NEW left \in 1 .. MaxForeign,
         Fits(n, A, FALSE, share, has, left)
  PROVE  Fits(n, A, TRUE, ByHand(n), has, left - 1)
<1>1. Adoptable(n, ByHand(n)) /\ ~Misfit(n, ByHand(n))
  BY ConfigAssumption DEF Adoptable, Misfit, ByHand, NeedsReplacement, Settings
<1> HIDE DEF ByHand
<1>2. left - 1 # MaxForeign /\ (left - 1 + 1 >= MaxForeign => left = MaxForeign)
  BY BoundsAssumption
<1>3. Purposes(n, A, TRUE, ByHand(n), has)
  BY <1>1 DEF Fits, Purposes
<1>4. n \in DOMAIN Config \ DOMAIN InitKnown => Respected(n, A, TRUE, ByHand(n), has, left - 1)
  BY <1>1, <1>2 DEF Fits, Respected
<1> QED
  BY <1>3, <1>4 DEF Fits

----------------------------------------------------------------------------
(***************************************************************************)
(* The actions.                                                            *)
(***************************************************************************)
\* The fit of the name an operation is about, before and after its step.
FitsNow(m, verbs) ==
    Fits(m, verbs, m \in DOMAIN shares, shares[m], m \in DOMAIN known, budget.foreign)

FitsNext(m, verbs) ==
    Fits(m, verbs, m \in DOMAIN shares', shares'[m], m \in DOMAIN known', budget'.foreign)

\* An operation under way goes on, or ends, and is still about its share.
GoesOn(w) ==
    LET n == job[w].name
    IN  \/ job' = [job EXCEPT ![w] = Idle]
        \/ \E j : /\ job' = [job EXCEPT ![w] = j]
                  /\ j.pc # "idle" /\ j.name = n

\* The verb an operation has after its step.
NextVerbs(w) == IF job'[w].pc = "idle" THEN {} ELSE {job'[w].verb}

LEMMA GoesOnTurns ==
  ASSUME HandInv, NEW w \in Workers, job[w].pc # "idle", GoesOn(w)
  PROVE  Turns(w, job[w].name)
<1>1. job[w].name \in Names
  BY DEF HandInv, TypeInv, Typed
<1> QED
  BY <1>1 DEF GoesOn, Turns, Idle

LEMMA UnderWayFits ==
  ASSUME HandInv, NEW w \in Workers, job[w].pc # "idle"
  PROVE  FitsNow(job[w].name, {job[w].verb})
<1>1. job[w].name \in Names
  BY DEF HandInv, TypeInv, Typed
<1>2. AtWork(job[w].name) = {w}
  BY <1>1 DEF AtWork, HandInv, Alone
<1>3. Verbs(job[w].name) = {job[w].verb}
  BY <1>2 DEF Verbs
<1> QED
  BY <1>1, <1>3 DEF HandInv, Fit, FitsNow

LEMMA WorkerFits ==
  ASSUME HandInv, TypeInv', NEW w \in Workers, job[w].pc # "idle", GoesOn(w),
         Leaves(job[w].name), WholeShares',
         FitsNow(job[w].name, {job[w].verb}) => FitsNext(job[w].name, NextVerbs(w))
  PROVE  HandInv'
<1>1. Turns(w, job[w].name) /\ job[w].name \in Names
  BY GoesOnTurns DEF Turns
<1>2. Verbs(job[w].name) = {job[w].verb} /\ Fit(job[w].name)
  BY <1>1, TurnsVerbs DEF HandInv
<1>3. FitsNext(job[w].name, NextVerbs(w))
  BY <1>2 DEF Fit, FitsNow
<1> QED
  BY <1>1, <1>3, StepFits DEF FitsNext, NextVerbs

\* Nothing changes but that the operation ends, or goes on with the same purpose.
LEMMA KeepsPurpose ==
  ASSUME HandInv, TypeInv', NEW w \in Workers, job[w].pc # "idle",
         shares' = shares, known' = known, budget'.foreign = budget.foreign,
         \/ job' = [job EXCEPT ![w] = Idle]
         \/ \E j : /\ job' = [job EXCEPT ![w] = j]
                   /\ j.pc # "idle" /\ j.name = job[w].name /\ j.verb = job[w].verb
  PROVE  HandInv'
<1>1. NextVerbs(w) \subseteq {job[w].verb}
  BY DEF NextVerbs, Idle, HandInv, TypeInv, IInv
<1>2. FitsNow(job[w].name, {job[w].verb}) => FitsNext(job[w].name, NextVerbs(w))
  BY <1>1, Fewer DEF FitsNow, FitsNext
<1>3. WholeShares' /\ Leaves(job[w].name)
  BY DEF HandInv, WholeShares, Leaves
<1>4. GoesOn(w)
  BY DEF GoesOn
<1> QED
  BY <1>2, <1>3, <1>4, WorkerFits

LEMMA FaultKeepsForeign ==
  ASSUME TypeInv, NEW kind, Fault(kind)
  PROVE  budget'.foreign = budget.foreign
  BY DEF TypeInv, BudgetTyped, Fault

LEMMA BeginHand ==
  ASSUME HandInv, TypeInv', NEW w \in Workers, NEW n \in Names, Begin(w, n)
  PROVE  HandInv'
<1>1. PICK j :
         /\ \/ j.verb = "refresh" /\ n \in DOMAIN known
            \/ j.verb = "create" /\ n \notin DOMAIN known /\ n \in DOMAIN Config
         /\ j.pc # "idle" /\ j.name = n
         /\ job' = [job EXCEPT ![w] = j]
  BY DEF Begin
<1>2. job[w].pc = "idle" /\ AtWork(n) = {}
  BY DEF Begin, At, AtWork
<1>3. Turns(w, n)
  BY <1>1, <1>2 DEF Turns
<1>4. Verbs(n) = {} /\ Fit(n)
  BY <1>2, <1>3, TurnsVerbs DEF HandInv
<1>5. Fits(n, {j.verb}, n \in DOMAIN shares, shares[n], n \in DOMAIN known, budget.foreign)
  BY <1>1, <1>4, BeginFits DEF Fit
<1>6. job'[w] = j
  BY <1>1 DEF HandInv, TypeInv, IInv
<1>7. WholeShares' /\ Leaves(n) /\ shares' = shares /\ known' = known /\ budget' = budget
  BY DEF HandInv, WholeShares, Leaves, Begin
<1> QED
  BY <1>1, <1>3, <1>5, <1>6, <1>7, StepFits

LEMMA TakeHand ==
  ASSUME HandInv, TypeInv', NEW w \in Workers, TakeShareMu(w)
  PROVE  HandInv'
<1> DEFINE j == [pc |-> "mutate", verb |-> job[w].verb, name |-> job[w].name, attempt |-> 0]
<1>1. job' = [job EXCEPT ![w] = j] /\ j.pc # "idle" /\ j.name = job[w].name /\ j.verb = job[w].verb
  BY DEF TakeShareMu
<1> HIDE DEF j
<1>2. job[w].pc # "idle" /\ shares' = shares /\ known' = known /\ budget'.foreign = budget.foreign
  BY DEF TakeShareMu, At
<1> QED
  BY <1>1, <1>2, KeepsPurpose

LEMMA GotoListKeeps ==
  ASSUME HandInv, NEW w \in Workers, At(w, "get"), Goto(w, "list")
  PROVE  \E j : /\ job' = [job EXCEPT ![w] = j]
                /\ j.pc # "idle" /\ j.name = job[w].name /\ j.verb = job[w].verb
<1> DEFINE j == [job[w] EXCEPT !.pc = "list"]
<1>1. job' = [job EXCEPT ![w] = j]
  BY DEF Goto
<1>2. j.pc # "idle" /\ j.name = job[w].name /\ j.verb = job[w].verb
  BY DEF HandInv, TypeInv, IInv, Shaped, Typed, At
<1> HIDE DEF j
<1> QED
  BY <1>1, <1>2

LEMMA AbsentHand ==
  ASSUME HandInv, TypeInv', NEW w \in Workers, job[w].pc # "idle", Absent(w),
         job[w].name \notin DOMAIN shares, shares' = shares, budget' = budget
  PROVE  HandInv'
<1>1. GoesOn(w) /\ NextVerbs(w) = {}
  BY DEF Absent, GoesOn, NextVerbs, Idle, HandInv, TypeInv, IInv
<1>2. WholeShares'
  BY DEF HandInv, WholeShares
<1>3. Leaves(job[w].name)
  BY DEF Leaves, Absent, Drop
<1>4. (job[w].name \in DOMAIN known') = FALSE \/ known' = known
  BY DEF Absent, Drop
<1>5. (job[w].name \in DOMAIN shares) = FALSE /\ (job[w].name \in DOMAIN shares') = FALSE
  OBVIOUS
<1>6. ASSUME FitsNow(job[w].name, {job[w].verb}) PROVE FitsNext(job[w].name, NextVerbs(w))
  <2>1. /\ Fits(job[w].name, {}, FALSE, shares[job[w].name], FALSE, budget.foreign)
        /\ Fits(job[w].name, {}, FALSE, shares[job[w].name], job[w].name \in DOMAIN known,
               budget.foreign)
    BY <1>5, <1>6, AbsentFits DEF FitsNow
  <2> QED
    BY <1>1, <1>4, <1>5, <2>1 DEF FitsNext
<1> QED
  BY <1>1, <1>2, <1>3, <1>6, WorkerFits

\* Where an operation goes to, and with which verb.
LEMMA GoesTo ==
  ASSUME HandInv, NEW w \in Workers, NEW j, job' = [job EXCEPT ![w] = j],
         j = Idle \/ (j.pc # "idle" /\ j.name = job[w].name)
  PROVE  GoesOn(w) /\ NextVerbs(w) = IF j = Idle THEN {} ELSE {j.verb}
<1>1. job'[w] = j
  BY DEF HandInv, TypeInv, IInv
<1>2. GoesOn(w)
  BY DEF GoesOn
<1>3. CASE j = Idle
  BY <1>1, <1>2, <1>3 DEF NextVerbs, Idle
<1>4. CASE j # Idle
  BY <1>1, <1>2, <1>4 DEF NextVerbs
<1> QED
  BY <1>3, <1>4

LEMMA UseRefreshed ==
  ASSUME HandInv, NEW w \in Workers, NEW share, Use(w, share), job[w].verb = "refresh",
         NEW n, n = job[w].name, NEW left, Fits(n, {"refresh"}, TRUE, share, n \in DOMAIN known,
             left)
  PROVE  /\ GoesOn(w) /\ known' = Put(known, n, Settings(share))
         /\ Fits(n, NextVerbs(w), TRUE, share, TRUE, left)
<1> DEFINE plan == PlannedVerb(n, Settings(share))
           j == IF plan = "nothing" THEN Idle ELSE [pc |-> "queued", verb |-> plan, name |-> n]
<1>1. known' = Put(known, n, Settings(share)) /\ job' = [job EXCEPT ![w] = j]
  BY DEF Use
<1>2. /\ Fits(n, {}, TRUE, share, TRUE, left)
      /\ plan # "nothing" => Fits(n, {plan}, TRUE, share, TRUE, left)
  BY RefreshFits
<1>3. CASE plan = "nothing"
  <2>1. j = Idle
    BY <1>3
  <2> HIDE DEF j
  <2> QED
    BY <1>1, <1>2, <2>1, GoesTo
<1>4. CASE plan # "nothing"
  <2>1. j # Idle /\ j.pc # "idle" /\ j.name = job[w].name /\ j.verb = plan
    BY <1>4 DEF Idle
  <2> HIDE DEF j, plan
  <2> QED
    BY <1>1, <1>2, <1>4, <2>1, GoesTo
<1> QED
  BY <1>3, <1>4

LEMMA UseReadBack ==
  ASSUME HandInv, NEW w \in Workers, NEW share, Use(w, share), job[w].verb \in {"created",
             "updated"},
         NEW n, n = job[w].name, NEW left, Fits(n, {job[w].verb}, TRUE, share,
             n \in DOMAIN known, left)
  PROVE  /\ GoesOn(w) /\ known' = Put(known, n, AfterWrite(n, share))
         /\ Fits(n, NextVerbs(w), TRUE, share, TRUE, left)
<1>1. known' = Put(known, n, AfterWrite(n, share)) /\ job' = [job EXCEPT ![w] = Idle]
  BY DEF Use
<1>2. Fits(n, {}, TRUE, share, TRUE, left)
  BY ReadBackFits
<1> QED
  BY <1>1, <1>2, GoesTo

LEMMA UseToAdopt ==
  ASSUME HandInv, NEW w \in Workers, NEW share, Use(w, share), job[w].verb = "adopt",
         NEW n, n = job[w].name, NEW left, NEW has, Fits(n, {"adopt"}, TRUE, share, has, left)
  PROVE  /\ GoesOn(w) /\ known' = known
         /\ Fits(n, NextVerbs(w), TRUE, share, has, left)
<1> DEFINE j == [pc |-> "queued", verb |-> "update", name |-> n]
<1>1. known' = known /\ job' = [job EXCEPT ![w] = IF Adoptable(n, share) THEN j ELSE Idle]
  BY DEF Use
<1>2. j # Idle /\ j.pc # "idle" /\ j.name = job[w].name /\ j.verb = "update"
  BY DEF Idle
<1> HIDE DEF j
<1>3. CASE Adoptable(n, share)
  <2>1. Fits(n, {"update"}, TRUE, share, has, left)
    BY <1>3, AdoptFits
  <2> QED
    BY <1>1, <1>2, <1>3, <2>1, GoesTo
<1>4. CASE ~Adoptable(n, share)
  <2>1. Fits(n, {}, TRUE, share, has, left)
    BY Fewer
  <2> QED
    BY <1>1, <1>4, <2>1, GoesTo
<1> QED
  BY <1>3, <1>4

LEMMA UseHand ==
  ASSUME HandInv, TypeInv', NEW w \in Workers, At(w, "get"), NEW n, n = job[w].name,
         n \in DOMAIN shares, Use(w, shares[n]), shares' = shares, budget' = budget
  PROVE  HandInv'
<1>1. /\ job[w].pc # "idle" /\ job[w].verb \in {"refresh", "created", "updated", "adopt"}
      /\ (n \in DOMAIN shares) = TRUE
  BY DEF HandInv, TypeInv, IInv, Shaped, At
<1>2. WholeShares'
  BY DEF HandInv, WholeShares
<1>3. ASSUME FitsNow(n, {job[w].verb})
      PROVE  GoesOn(w) /\ Leaves(n) /\ FitsNext(n, NextVerbs(w))
  <2>1. Fits(n, {job[w].verb}, TRUE, shares[n], n \in DOMAIN known, budget.foreign)
    BY <1>1, <1>3 DEF FitsNow
  <2>2. CASE job[w].verb # "adopt"
    <3>1. PICK v : known' = Put(known, n, v) /\ GoesOn(w)
                 /\ Fits(n, NextVerbs(w), TRUE, shares[n], TRUE, budget.foreign)
      BY <1>1, <2>1, <2>2, UseRefreshed, UseReadBack
    <3>2. (n \in DOMAIN known') = TRUE /\ \A x : x # n =>
              (x \in DOMAIN known' <=> x \in DOMAIN known)
      BY <3>1 DEF Put
    <3> QED
      BY <1>1, <3>1, <3>2 DEF FitsNext, Leaves
  <2>3. CASE job[w].verb = "adopt"
    <3>1. known' = known /\ GoesOn(w)
            /\ Fits(n, NextVerbs(w), TRUE, shares[n], n \in DOMAIN known, budget.foreign)
      BY <2>1, <2>3, UseToAdopt
    <3> QED
      BY <1>1, <3>1 DEF FitsNext, Leaves
  <2> QED
    BY <2>2, <2>3
<1>4. FitsNow(n, {job[w].verb})
  BY <1>1, UnderWayFits
<1> QED
  BY <1>1, <1>2, <1>3, <1>4, WorkerFits

LEMMA ReadHand ==
  ASSUME HandInv, TypeInv', NEW w \in Workers, GetShare(w) \/ ConfirmAbsence(w)
  PROVE  HandInv'
<1>1. job[w].pc # "idle" /\ shares' = shares /\ budget'.foreign = budget.foreign
  BY FaultKeepsForeign DEF GetShare, ConfirmAbsence, At, HandInv
<1>2. CASE Absent(w) /\ job[w].name \notin DOMAIN shares /\ budget' = budget
  BY <1>1, <1>2, AbsentHand
<1>3. CASE job' = [job EXCEPT ![w] = Idle] /\ known' = known
  BY <1>1, <1>3, KeepsPurpose
<1>4. CASE At(w, "get") /\ Goto(w, "list") /\ known' = known
  BY <1>1, <1>4, GotoListKeeps, KeepsPurpose
<1>5. CASE /\ At(w, "get") /\ job[w].name \in DOMAIN shares
           /\ Use(w, shares[job[w].name]) /\ budget' = budget
  BY <1>1, <1>5, UseHand
<1> QED
  BY <1>2, <1>3, <1>4, <1>5 DEF GetShare, ConfirmAbsence

LEMMA PerformedFits ==
  ASSUME HandInv, NEW w \in Workers, Mutate(w), NEW n, n = job[w].name,
         FitsNow(n, {job[w].verb})
  PROVE  /\ WholeShares' /\ Leaves(n)
         /\ Fits(n, {job[w].verb}, n \in DOMAIN shares', shares'[n], n \in DOMAIN known,
                budget.foreign)
         /\ job[w].verb = "delete" =>
               Fits(n, {}, n \in DOMAIN shares', shares'[n], FALSE, budget.foreign)
         /\ job[w].verb = "create" =>
               Fits(n, {"created"}, n \in DOMAIN shares', shares'[n], n \in DOMAIN known,
                   budget.foreign)
         /\ job[w].verb = "update" =>
               Fits(n, {"updated"}, n \in DOMAIN shares', shares'[n], n \in DOMAIN known,
                   budget.foreign)
<1> DEFINE has == n \in DOMAIN known
           left == budget.foreign
<1>1. /\ job[w].verb \in {"create", "update", "delete"}
      /\ Performable(job[w].verb, n) /\ shares' = Performed(job[w].verb, n)
      /\ budget'.foreign = left
      /\ n \in Names
  BY FaultKeepsForeign DEF Mutate, HandInv, TypeInv, Typed, At
<1>2. \A x \in Names : x # n => (x \in DOMAIN known' <=> x \in DOMAIN known)
  BY DEF Mutate, Succeed, Fail, Drop
<1>3. CASE job[w].verb = "create"
  <2>1. n \notin DOMAIN shares /\ shares' = Put(shares, n, Created(n))
    BY <1>1, <1>3 DEF Performable, Performed, Created
  <2>2. /\ (n \in DOMAIN shares') = TRUE /\ (n \in DOMAIN shares) = FALSE
        /\ shares'[n] = Created(n)
        /\ \A x : x # n => (x \in DOMAIN shares' <=> x \in DOMAIN shares)
                           /\ (x \in DOMAIN shares => shares'[x] = shares[x])
    BY <2>1 DEF Put
  <2>3. n \in DOMAIN Config
    BY <1>3 DEF FitsNow, Fits, Purposes
  <2>4. IsShare(Created(n))
    BY <2>3, ConfigAssumption DEF IsShare, Created
  <2>5. WholeShares'
    BY <2>2, <2>4 DEF HandInv, WholeShares
  <2>6. Fits(n, {"create"}, TRUE, Created(n), has, left)
          /\ Fits(n, {"created"}, TRUE, Created(n), has, left)
    BY <1>3, <2>2, CreateFits DEF FitsNow
  <2>7. Leaves(n)
    BY <1>1, <1>2, <2>2 DEF Leaves
  <2> QED
    BY <1>3, <2>2, <2>5, <2>6, <2>7
<1>4. CASE job[w].verb = "update"
  <2>1. n \in DOMAIN shares /\ shares' = [shares EXCEPT ![n] = Updated(n, shares[n])]
    BY <1>1, <1>4 DEF Performable, Performed, Updated
  <2>2. /\ (n \in DOMAIN shares') = TRUE /\ (n \in DOMAIN shares) = TRUE
        /\ shares'[n] = Updated(n, shares[n])
        /\ \A x : x # n => (x \in DOMAIN shares' <=> x \in DOMAIN shares)
                           /\ (x \in DOMAIN shares => shares'[x] = shares[x])
    BY <2>1
  <2>3. IsShare(shares[n])
    BY <2>1 DEF HandInv, WholeShares
  <2>4. /\ Fits(n, {"update"}, TRUE, Updated(n, shares[n]), has, left)
        /\ Fits(n, {"updated"}, TRUE, Updated(n, shares[n]), has, left)
        /\ IsShare(Updated(n, shares[n]))
    BY <1>4, <2>2, <2>3, UpdateFits DEF FitsNow
  <2>5. WholeShares'
    BY <2>2, <2>4 DEF HandInv, WholeShares
  <2>6. Leaves(n)
    BY <1>1, <1>2, <2>2 DEF Leaves
  <2> QED
    BY <1>4, <2>2, <2>4, <2>5, <2>6
<1>5. CASE job[w].verb = "delete"
  <2>1. n \in DOMAIN shares /\ shares' = Drop(shares, n)
    BY <1>1, <1>5 DEF Performable, Performed
  <2>2. /\ (n \in DOMAIN shares') = FALSE /\ (n \in DOMAIN shares) = TRUE
        /\ \A x : x # n => (x \in DOMAIN shares' <=> x \in DOMAIN shares)
                           /\ (x \in DOMAIN shares => shares'[x] = shares[x])
    BY <2>1 DEF Drop
  <2>3. Fits(n, {"delete"}, FALSE, shares'[n], has, left)
          /\ Fits(n, {}, FALSE, shares'[n], FALSE, left)
    BY <1>5, <2>2, DeleteFits DEF FitsNow
  <2>4. WholeShares'
    BY <2>2 DEF HandInv, WholeShares
  <2>5. Leaves(n)
    BY <1>1, <1>2, <2>2 DEF Leaves
  <2> QED
    BY <1>5, <2>2, <2>3, <2>4, <2>5
<1> QED
  BY <1>1, <1>3, <1>4, <1>5

LEMMA MutateHand ==
  ASSUME HandInv, TypeInv', NEW w \in Workers, Mutate(w)
  PROVE  HandInv'
<1> DEFINE n == job[w].name
           f(verbs, has) == Fits(n, verbs, n \in DOMAIN shares', shares'[n], has, budget.foreign)
<1>1. /\ job[w].pc # "idle" /\ job[w].verb \in {"create", "update", "delete"}
      /\ job = [v \in Workers |-> job[v]] /\ budget'.foreign = budget.foreign
  BY FaultKeepsForeign DEF Mutate, HandInv, TypeInv, Typed, IInv, At
<1>2. FitsNow(n, {job[w].verb})
  BY <1>1, UnderWayFits
<1>3. /\ WholeShares' /\ Leaves(n) /\ f({job[w].verb}, n \in DOMAIN known)
      /\ job[w].verb = "delete" => f({}, FALSE)
      /\ job[w].verb = "create" => f({"created"}, n \in DOMAIN known)
      /\ job[w].verb = "update" => f({"updated"}, n \in DOMAIN known)
  BY <1>2, PerformedFits
<1>4. f({}, n \in DOMAIN known)
  BY <1>3, Fewer
<1>5. GoesOn(w) /\ f(NextVerbs(w), n \in DOMAIN known')
  <2>1. CASE Fail(w)
    <3>1. NextVerbs(w) = {} /\ known' = known /\ GoesOn(w)
      BY <1>1, <2>1 DEF Fail, End, NextVerbs, GoesOn, Idle
    <3> QED
      BY <1>4, <3>1
  <2>2. CASE UNCHANGED <<known, mu, job>>
    <3>1. job' = [job EXCEPT ![w] = job[w]]
      BY <1>1, <2>2
    <3>2. NextVerbs(w) = {job[w].verb} /\ GoesOn(w)
      BY <1>1, <2>2, <3>1 DEF NextVerbs, GoesOn
    <3> QED
      BY <1>3, <2>2, <3>2
  <2>3. CASE Succeed(w) /\ job[w].verb = "delete"
    <3>1. NextVerbs(w) = {} /\ (n \in DOMAIN known') = FALSE /\ GoesOn(w)
      BY <1>1, <2>3 DEF Succeed, Drop, NextVerbs, GoesOn, Idle
    <3> QED
      BY <1>3, <2>3, <3>1
  <2>4. CASE Succeed(w) /\ job[w].verb # "delete"
    <3> DEFINE verb == IF job[w].verb = "create" THEN "created" ELSE "updated"
    <3> DEFINE j == [pc |-> "get", name |-> n, verb |-> verb]
    <3>1. job' = [job EXCEPT ![w] = j] /\ known' = known
      BY <2>4 DEF Succeed
    <3>3. j # Idle /\ j.pc # "idle" /\ j.name = job[w].name /\ j.verb = verb
      BY DEF Idle
    <3> HIDE DEF j
    <3>2. NextVerbs(w) = {verb} /\ GoesOn(w)
      BY <3>1, <3>3, GoesTo
    <3> QED
      BY <1>1, <1>3, <2>4, <3>1, <3>2
  <2> QED
    BY <2>1, <2>2, <2>3, <2>4 DEF Mutate
<1>6. FitsNext(n, NextVerbs(w))
  BY <1>1, <1>5 DEF FitsNext
<1> QED
  BY <1>1, <1>3, <1>5, <1>6, WorkerFits

LEMMA RefusalHand ==
  ASSUME HandInv, TypeInv', NEW w \in Workers,
         Refused(w) \/ Busy(w) \/ RetriesRejection(w) \/ TakesAtFaceValue(w)
  PROVE  HandInv'
<1>1. job[w].pc # "idle" /\ At(w, "mutate") /\ shares' = shares /\ known' = known
      /\ budget'.foreign = budget.foreign
  BY FaultKeepsForeign
  DEF HandInv, Refused, Busy, RetriesRejection, TakesAtFaceValue, GeneralRejection, Fail, At
<1>2. CASE Fail(w)
  BY <1>1, <1>2, KeepsPurpose DEF Fail, End
<1>3. CASE job' = [job EXCEPT ![w].attempt = @ + 1]
  <2> DEFINE j == [job[w] EXCEPT !.attempt = @ + 1]
  <2>1. job' = [job EXCEPT ![w] = j]
    BY <1>3
  <2>2. j.pc # "idle" /\ j.name = job[w].name /\ j.verb = job[w].verb
    BY <1>1 DEF HandInv, TypeInv, IInv, Shaped, Typed, At
  <2> HIDE DEF j
  <2> QED
    BY <1>1, <2>1, <2>2, KeepsPurpose
<1> QED
  BY <1>2, <1>3 DEF Refused, Busy, RetriesRejection, TakesAtFaceValue

LEMMA ImpossibleHand ==
  ASSUME HandInv, TypeInv', NEW w \in Workers, Impossible(w)
  PROVE  HandInv'
<1> DEFINE n == job[w].name
           adopts == job[w].verb = "create" /\ MayAdopt(n)
           j == [pc |-> "get", verb |-> "adopt", name |-> n]
<1>1. /\ job[w].pc # "idle" /\ shares' = shares /\ known' = known /\ budget' = budget
      /\ job' = [job EXCEPT ![w] = IF adopts THEN j ELSE Idle]
  BY DEF Impossible, At
<1>2. CASE ~adopts
  BY <1>1, <1>2, KeepsPurpose
<1>3. CASE adopts
  <2>1. j # Idle /\ j.pc # "idle" /\ j.name = job[w].name /\ j.verb = "adopt"
    BY DEF Idle
  <2> HIDE DEF j
  <2>2. GoesOn(w) /\ NextVerbs(w) = {"adopt"}
    BY <1>1, <1>3, <2>1, GoesTo
  <2>3. FitsNow(n, {job[w].verb}) => FitsNext(n, NextVerbs(w))
    BY <1>1, <1>3, <2>2, ImpossibleFits DEF FitsNow, FitsNext
  <2>4. WholeShares' /\ Leaves(n)
    BY <1>1 DEF HandInv, WholeShares, Leaves
  <2> QED
    BY <1>1, <2>2, <2>3, <2>4, WorkerFits
<1> QED
  BY <1>2, <1>3

LEMMA ForeignCounts ==
  ASSUME TypeInv, Foreign
  PROVE  /\ budget.foreign \in 1 .. MaxForeign
         /\ budget'.foreign = budget.foreign - 1 /\ budget'.foreign # budget.foreign
<1>1. /\ DOMAIN budget = {"faults", "foreign"} /\ budget.foreign \in 0 .. MaxForeign
      /\ budget.foreign > 0 /\ budget' = [budget EXCEPT !.foreign = @ - 1]
  BY DEF TypeInv, BudgetTyped, Foreign
<1>2. budget'.foreign = budget.foreign - 1
  BY <1>1
<1> QED
  BY <1>1, <1>2, BoundsAssumption

LEMMA ForeignHand ==
  ASSUME HandInv, TypeInv', Foreign
  PROVE  HandInv'
<1>1. PICK n \in DOMAIN Config :
         \/ n \in DOMAIN shares /\ shares' = Drop(shares, n)
         \/ n \notin DOMAIN shares /\ shares' = Put(shares, n, ByHand(n))
  BY DEF Foreign, ByHand
<1>2. /\ job' = job /\ known' = known
      /\ budget.foreign \in 1 .. MaxForeign /\ budget'.foreign = budget.foreign - 1
  BY ForeignCounts DEF Foreign, HandInv
<1>3. Alone' /\ \A x \in Names : Verbs(x)' = Verbs(x)
  BY <1>2 DEF HandInv, Alone, Verbs, AtWork
<1>4. \A x : x # n => (x \in DOMAIN shares' <=> x \in DOMAIN shares)
                      /\ (x \in DOMAIN shares => shares'[x] = shares[x])
  BY <1>1 DEF Drop, Put
<1>5. \/ (n \in DOMAIN shares') = FALSE
      \/ (n \in DOMAIN shares) = FALSE /\ (n \in DOMAIN shares') = TRUE /\ shares'[n] = ByHand(n)
  BY <1>1 DEF Drop, Put
<1>6. WholeShares'
  <2>1. IsShare(ByHand(n))
    BY ConfigAssumption DEF IsShare, ByHand
  <2> QED
    BY <1>4, <1>5, <2>1 DEF HandInv, WholeShares
<1>7. ASSUME NEW x \in Names PROVE Fit(x)'
  <2> DEFINE f(there, share, left) == Fits(x, Verbs(x), there, share, x \in DOMAIN known, left)
  <2>1. f(x \in DOMAIN shares, shares[x], budget.foreign)
    BY DEF HandInv, Fit
  <2>2. /\ f(x \in DOMAIN shares, shares[x], budget.foreign - 1)
        /\ f(FALSE, shares[x], budget.foreign - 1)
    BY <1>2, <2>1, ElsewhereFits
  <2>3. f(FALSE, shares'[x], budget.foreign - 1)
    BY <2>2, AbsentShare
  <2>4. f(x \in DOMAIN shares', shares'[x], budget.foreign - 1)
    <3>1. CASE x \notin DOMAIN shares'
      <4>1. (x \in DOMAIN shares') = FALSE
        BY <3>1
      <4> QED
        BY <2>3, <4>1
    <3>2. CASE x # n /\ x \in DOMAIN shares'
      <4>1. (x \in DOMAIN shares') = (x \in DOMAIN shares) /\ shares'[x] = shares[x]
        BY <1>4, <3>2
      <4> QED
        BY <2>2, <4>1
    <3>3. CASE x = n /\ x \in DOMAIN shares'
      <4>1. (x \in DOMAIN shares) = FALSE /\ (x \in DOMAIN shares') = TRUE /\ shares'[x] = ByHand(x)
        BY <1>5, <3>3
      <4>2. x \in DOMAIN Config
        BY <3>3
      <4>3. Fits(x, Verbs(x), FALSE, shares[x], x \in DOMAIN known, budget.foreign)
        BY <2>1, <4>1
      <4>4. Fits(x, Verbs(x), TRUE, ByHand(x), x \in DOMAIN known, budget.foreign - 1)
        BY <1>2, <4>2, <4>3, ByHandFits
      <4> QED
        BY <4>1, <4>4
    <3> QED
      BY <3>1, <3>2, <3>3
  <2> QED
    BY <1>2, <1>3, <2>4 DEF Fit
<1> QED
  BY <1>3, <1>6, <1>7 DEF HandInv

\* Every operation ends, or the world goes on without it.
LEMMA QuietHand ==
  ASSUME HandInv, TypeInv', Settle \/ Restart \/ UNCHANGED vars
  PROVE  HandInv'
<1>1. shares' = shares /\ known' = known /\ budget'.foreign = budget.foreign
  BY FaultKeepsForeign DEF HandInv, Settle, Restart, vars
<1>2. \A n \in Names : AtWork(n)' \subseteq AtWork(n) /\ Verbs(n)' \subseteq Verbs(n)
  <2>1. CASE job' = job
    BY <2>1 DEF AtWork, Verbs
  <2>2. CASE Restart
    BY <2>2 DEF AtWork, Verbs, Restart, Idle
  <2> QED
    BY <2>1, <2>2 DEF Settle, vars
<1>3. \A n \in Names : Fit(n)'
  BY <1>1, <1>2, FitStays DEF HandInv
<1> QED
  BY <1>1, <1>2, <1>3 DEF HandInv, Alone, WholeShares

----------------------------------------------------------------------------
LEMMA InitHand == Init /\ TypeInv => HandInv
<1> SUFFICES ASSUME Init, TypeInv PROVE HandInv
  OBVIOUS
<1>1. \A n \in Names : AtWork(n) = {} /\ Verbs(n) = {}
  BY DEF Init, AtWork, Verbs, Idle
<1>2. ASSUME NEW n \in Names PROVE Fit(n)
  <2> DEFINE there == n \in DOMAIN shares
             has == n \in DOMAIN known
  <2>1. Purposes(n, {}, there, shares[n], has)
    BY DEF Init, Purposes
  <2>2. n \in DOMAIN Config \ DOMAIN InitKnown => Untouched({}, has)
    BY DEF Init, Untouched
  <2>3. there /\ MayAdopt(n) /\ Adoptable(n, shares[n]) /\ Misfit(n, shares[n]) => LacksFlag(n)
    BY DEF Init, LacksFlag, Misfit
  <2>4. n \in DOMAIN Config \ DOMAIN InitKnown =>
            Respected(n, {}, there, shares[n], has, budget.foreign)
    BY <2>2, <2>3 DEF Respected
  <2> QED
    BY <1>1, <2>1, <2>4 DEF Fit, Fits
<1> QED
  BY <1>1, <1>2, SharesAssumption DEF Init, HandInv, Alone, WholeShares

THEOREM NextHand == HandInv /\ TypeInv' /\ [Next]_vars => HandInv'
<1> SUFFICES ASSUME HandInv, TypeInv', [Next]_vars PROVE HandInv'
  OBVIOUS
<1>1. ASSUME NEW w \in Workers, NEW n \in Names, Begin(w, n) PROVE HandInv'
  BY <1>1, BeginHand
<1>2. ASSUME NEW w \in Workers, TakeShareMu(w) \/ Step(w) PROVE HandInv'
  BY <1>2, TakeHand, ReadHand, MutateHand, RefusalHand, ImpossibleHand DEF Step
<1>3. CASE Foreign
  BY <1>3, ForeignHand
<1>4. CASE Settle \/ Restart \/ UNCHANGED vars
  BY <1>4, QuietHand
<1> QED
  BY <1>1, <1>2, <1>3, <1>4 DEF Next

----------------------------------------------------------------------------
\* A step that changes a share, and is not a person's, is a write or a delete of it.
LEMMA WhoChanges ==
  ASSUME HandInv, [Next]_vars, budget'.foreign = budget.foreign, NEW n \in DOMAIN shares,
         ~(n \in DOMAIN shares' /\ shares'[n] = shares[n])
  PROVE  \E verb \in {"update", "delete"} :
            /\ FitsNow(n, {verb})
            /\ verb = "update" => n \in DOMAIN shares'
<1>1. ~Foreign
  BY ForeignCounts DEF HandInv
<1>2. PICK w \in Workers : Mutate(w)
  BY <1>1 DEF Next, vars, Begin, TakeShareMu, Step, GetShare, ConfirmAbsence, Refused, Busy,
              RetriesRejection, TakesAtFaceValue, Impossible, Settle, Restart
<1>3. job[w].pc # "idle" /\ job[w].verb \in {"create", "update", "delete"}
  BY <1>2 DEF Mutate, At, HandInv, TypeInv, Typed
<1>4. Performable(job[w].verb, job[w].name) /\ shares' = Performed(job[w].verb, job[w].name)
  BY <1>2 DEF Mutate
<1>5. job[w].name = n /\ job[w].verb # "create"
  <2>1. CASE job[w].verb = "create"
    BY <1>4, <2>1 DEF Performable, Performed, Put
  <2>2. CASE job[w].verb = "update"
    BY <1>4, <2>2 DEF Performed
  <2>3. CASE job[w].verb = "delete"
    BY <1>4, <2>3 DEF Performed, Drop
  <2> QED
    BY <1>3, <2>1, <2>2, <2>3
<1>6. FitsNow(n, {job[w].verb})
  BY <1>3, <1>5, UnderWayFits
<1>7. job[w].verb = "update" => n \in DOMAIN shares'
  BY <1>4, <1>5 DEF Performed
<1> QED
  BY <1>3, <1>5, <1>6, <1>7

\* A share made by hand that is not to be adopted is left alone, whatever fails, while
\* Terraform has none of its name (create, adoptExistingShare and the repeated requests
\* of mutateShare).
THEOREM HandsStayOff == Spec => HandsOff
<1>1. ASSUME HandInv, [Next]_vars, budget'.foreign = budget.foreign,
             NEW n \in DOMAIN shares, Stranger(n),
             n \notin DOMAIN known \/ (n \notin DOMAIN InitKnown
               /\ budget.foreign + 1 >= MaxForeign)
      PROVE  n \in DOMAIN shares' /\ shares'[n] = shares[n]
  <2> SUFFICES ASSUME ~(n \in DOMAIN shares' /\ shares'[n] = shares[n]) PROVE FALSE
    OBVIOUS
  <2>1. PICK verb \in {"update", "delete"} : FitsNow(n, {verb})
    BY <1>1, WhoChanges
  <2>2. Fits(n, {verb}, TRUE, shares[n], n \in DOMAIN known, budget.foreign)
    <3>1. (n \in DOMAIN shares) = TRUE
      OBVIOUS
    <3> QED
      BY <2>1, <3>1 DEF FitsNow
  <2>3. shares[n].origin = "hand" /\ (n \in DOMAIN Config =>
            ~MayAdopt(n) \/ ~Adoptable(n, shares[n]))
    BY <1>1 DEF Stranger, MayAdopt, Adoptable
  <2>4. n \in DOMAIN known
    BY <2>2, <2>3 DEF Fits, Purposes
  <2>5. n \in DOMAIN Config \ DOMAIN InitKnown /\ budget.foreign + 1 >= MaxForeign
    BY <1>1, <2>2, <2>4 DEF Fits, Purposes
  <2> QED
    BY <2>2, <2>3, <2>4, <2>5 DEF Fits, Respected, Untouched
<1>2. HandInv /\ [Next]_vars =>
        [budget'.foreign = budget.foreign =>
          \A n \in DOMAIN shares :
              /\ Stranger(n)
              /\ \/ n \notin DOMAIN known
                 \/ n \notin DOMAIN InitKnown /\ budget.foreign + 1 >= MaxForeign
              => n \in DOMAIN shares' /\ shares'[n] = shares[n]]_vars
  BY <1>1
<1>3. Init => TypeInv
  BY InitTypes
<1> QED
  BY <1>2, <1>3, InitHand, NextHand, NextTypes, PTL DEF Spec, HandsOff

\* A share made by hand keeps its contents while it is configured, but for one that
\* lacks a flag (replaceIfTurnedOn).
THEOREM ContentsStay == Spec => ContentsKept
<1>1. ASSUME HandInv, [Next]_vars, budget'.foreign = budget.foreign,
             NEW n \in DOMAIN shares, n \in DOMAIN Config \ DOMAIN InitKnown, ~LacksFlag(n)
      PROVE  n \in DOMAIN shares'
  <2> SUFFICES ASSUME n \notin DOMAIN shares' PROVE FALSE
    OBVIOUS
  <2>1. FitsNow(n, {"delete"})
    BY <1>1, WhoChanges
  <2> QED
    BY <1>1, <2>1 DEF FitsNow, Fits, Respected
<1>2. HandInv /\ [Next]_vars =>
        [budget'.foreign = budget.foreign =>
          \A n \in DOMAIN shares :
              /\ shares[n].origin = "hand"
              /\ n \in DOMAIN Config \ DOMAIN InitKnown /\ ~LacksFlag(n)
              => n \in DOMAIN shares']_vars
  BY <1>1
<1>3. Init => TypeInv
  BY InitTypes
<1> QED
  BY <1>2, <1>3, InitHand, NextHand, NextTypes, PTL DEF Spec, ContentsKept

\* Both.
THEOREM HandMadeStays == Spec => HandMadeIsSafe
  BY HandsStayOff, ContentsStay DEF HandMadeIsSafe
=============================================================================
