--------------------- MODULE SessionCertificates_proofs ---------------------
(***************************************************************************)
(* The theorems of Session and, below them, those of Certificates; the two *)
(* share no variable.                                                      *)
(*                                                                         *)
(* Session: for any number of concurrent calls and any number of attempts, *)
(* logins exclude each other and the newest session the provider was told  *)
(* of always wins, a call was performed once more than answers to it were  *)
(* lost if it succeeds and else as often, and a 119 is only reported when  *)
(* it is genuine, POST apart.                                              *)
(*                                                                         *)
(* Certificates: for every set of resources, every sequence of             *)
(* configurations and every combination of faults and changes by hand, a   *)
(* certificate stays in the state unless its operation gave it up or took  *)
(* another of its description or common name instead, no destroy takes one *)
(* away from a service unless forced to or overtaken, and what is reported *)
(* of a binding is true.                                                   *)
(***************************************************************************)
EXTENDS Session, Certificates, SequenceTheorems, FiniteSetTheorems, TLAPS


CallType ==
    [pc : PCs \union Outcomes, kind : CallKinds, attempt : Nat, reloggedIn : BOOLEAN,
     param : Nat, refused : Nat, used : Nat, performed : Nat, lost : Nat]

\* What holds of one call, given the current session and the last one issued.
CallInv(r, current, last) ==
    /\ r.kind \in Kinds
    /\ r.attempt <= MaxRetries
    /\ r.pc \notin Outcomes \/ r.pc \in {"ok", "unanswered"} => r.attempt < MaxRetries
    /\ r.param <= last /\ r.refused <= last /\ r.used <= last
    /\ r.lost <= r.attempt + (IF r.pc = "unanswered" THEN 1 ELSE 0)
    /\ r.performed = r.lost + (IF r.pc = "ok" THEN 1 ELSE 0)
    /\ r.pc \in {"wantLogin", "login", "setSession", "refresh"} => ~r.reloggedIn
    /\ r.pc = "refresh" \/ r.reloggedIn => r.refused < current
    /\ r.reloggedIn /\ r.pc \in {"request", "backoff"} /\ r.kind # "post" =>
           r.refused < r.param
    /\ r.pc = "expired" /\ r.kind # "post" => r.refused < r.used

LoginPCs == {"login", "setSession"}

LoginInv ==
    /\ LatestSession
    /\ \A c \in Calls :
        /\ call[c].pc \in LoginPCs <=> loginMu = c
        /\ call[c].pc = "login" => session = heard
        /\ call[c].pc = "setSession" => call[c].param = heard /\ call[c].refused < heard

\* The inductive invariant.
IInv ==
    /\ session \in Nat \ {0} /\ issued \in Nat /\ heard \in Nat
    /\ session <= heard /\ heard <= issued
    /\ valid \subseteq 1 .. issued
    /\ loginMu \in Calls \union {Nobody}
    /\ call \in [Calls -> CallType]
    /\ \A c \in Calls : CallInv(call[c], session, issued)
    /\ LoginInv

LEMMA InitIInv == SessionInit => IInv
<1> SUFFICES ASSUME SessionInit PROVE IInv
  OBVIOUS
<1>1. ASSUME NEW c \in Calls
      PROVE  call[c] \in CallType /\ call[c].pc = "begin" /\ CallInv(call[c], session, issued)
  <2>1. /\ call[c].pc = "begin" /\ call[c].kind \in Kinds /\ call[c].attempt = 0
        /\ call[c].reloggedIn = FALSE /\ call[c].param = 0 /\ call[c].refused = 0
        /\ call[c].used = 0 /\ call[c].performed = 0 /\ call[c].lost = 0
    BY DEF SessionInit, NoSession
  <2>2. call[c] \in CallType
    <3>1. "begin" \in PCs \union Outcomes
      BY DEF PCs
    <3>2. \E k \in Kinds : call[c] =
              [pc |-> "begin", kind |-> k, attempt |-> 0, reloggedIn |-> FALSE, param |-> 0,
               refused |-> 0, used |-> 0, performed |-> 0, lost |-> 0]
      BY DEF SessionInit, NoSession
    <3> QED
      BY <3>1, <3>2, KindsAssumption DEF CallType
  <2>3. CallInv(call[c], session, issued)
    BY <2>1, RetriesAssumption DEF SessionInit, CallInv, Outcomes
  <2> QED
    BY <2>1, <2>2, <2>3
<1>2. call \in [Calls -> CallType]
  BY <1>1 DEF SessionInit
<1>3. LoginInv
  BY <1>1, CallsAssumption DEF SessionInit, LoginInv, LatestSession, LoginPCs
<1> QED
  BY <1>1, <1>2, <1>3 DEF SessionInit, IInv

\* A step that only moves a call that is not logging in.
LEMMA BecomeIInv ==
  ASSUME NEW c \in Calls, NEW next, IInv, Become(c, next),
         next \in CallType, CallInv(next, session, issued),
         call[c].pc \notin LoginPCs, next.pc \notin LoginPCs
  PROVE  IInv'
<1>1. /\ call' \in [Calls -> CallType]
      /\ call'[c] = next /\ \A d \in Calls : d # c => call'[d] = call[d]
  BY DEF IInv, Become
<1>2. \A d \in Calls : CallInv(call'[d], session', issued')
  BY <1>1 DEF IInv, Become, CallInv
<1>3. LoginInv'
  BY <1>1 DEF IInv, Become, LoginInv, LatestSession, LoginPCs
<1> QED
  BY <1>1, <1>2, <1>3 DEF IInv, Become

----------------------------------------------------------------------------
LEMMA Places ==
  /\ \A pc \in {"request", "backoff", "wantLogin", "login", "setSession", "refresh"} :
         pc \in PCs \union Outcomes
  /\ \A pc \in {"ok", "expired", "error", "unanswered", "cancelled", "loginFailed"} :
         pc \in PCs \union Outcomes
BY DEF PCs, Outcomes

\* What no move of a call changes by itself.
Same(next, r) ==
    /\ next.kind = r.kind /\ next.attempt = r.attempt /\ next.reloggedIn = r.reloggedIn
    /\ next.used = r.used /\ next.lost = r.lost

\* A call that only goes to another place.
LEMMA MovedFields ==
  ASSUME NEW r \in CallType, NEW pc \in PCs \union Outcomes
  PROVE  LET next == [r EXCEPT !.pc = pc] IN
         /\ next \in CallType /\ Same(next, r) /\ next.pc = pc
         /\ next.param = r.param /\ next.refused = r.refused /\ next.performed = r.performed
BY DEF CallType, Same

LEMMA RequestedFields ==
  ASSUME NEW c \in Calls, IInv, CallAt(c, "request")
  PROVE  LET r == Requested(c) IN
         /\ r \in CallType
         /\ r.pc = "request" /\ r.kind = call[c].kind /\ r.attempt = call[c].attempt
         /\ r.reloggedIn = call[c].reloggedIn /\ r.refused = call[c].refused
         /\ r.performed = call[c].performed /\ r.lost = call[c].lost
         /\ r.used = Carried(c)
         /\ r.param = IF call[c].kind = "post" THEN 0 ELSE call[c].param
  BY DEF IInv, CallAt, Requested, Carried, CallType, NoSession

LEMMA CarriedBound ==
  ASSUME NEW c \in Calls, IInv, CallAt(c, "request")
  PROVE  /\ Carried(c) \in Nat /\ Carried(c) <= issued
         /\ call[c].reloggedIn /\ call[c].kind # "post" => call[c].refused < Carried(c)
  BY DEF IInv, CallAt, Carried, CallType, CallInv

\* Coming round again keeps everything but the attempt and the place.
LEMMA AgainFields ==
  ASSUME NEW next \in CallType, NEW pc \in {"request", "backoff"}
  PROVE  LET r == NextAttempt(next, pc) IN
         /\ r \in CallType
         /\ r.attempt = next.attempt + 1
         /\ r.pc = IF next.attempt + 1 = MaxRetries THEN "exhausted" ELSE pc
         /\ r.kind = next.kind /\ r.reloggedIn = next.reloggedIn
         /\ r.param = next.param /\ r.refused = next.refused /\ r.used = next.used
         /\ r.performed = next.performed /\ r.lost = next.lost
<1> DEFINE p == IF next.attempt + 1 = MaxRetries THEN "exhausted" ELSE pc
<1>1. next.attempt + 1 \in Nat
  BY DEF CallType
<1>2. p \in PCs \union Outcomes
  BY DEF PCs, Outcomes
<1>3. ASSUME NEW n \in Nat, NEW q \in PCs \union Outcomes
      PROVE  [next EXCEPT !.attempt = n, !.pc = q] \in CallType
  BY DEF CallType
<1>4. NextAttempt(next, pc) \in CallType
  BY <1>1, <1>2, <1>3 DEF NextAttempt
<1> QED
  BY <1>4, RetriesAssumption DEF NextAttempt, CallType

\* A request changes which session was used, and where the call goes on.
LEMMA AttemptIInv ==
  ASSUME NEW c \in Calls, IInv,
         \/ Performs(c) \/ LosesAnswer(c) \/ Rejects(c) \/ NotReached(c) \/ Expired(c)
  PROVE  IInv'
<1> DEFINE r == Requested(c)
<1>0. CallAt(c, "request") /\ call[c].pc = "request" /\ CallInv(call[c], session, issued)
        /\ call[c] \in CallType
  BY DEF IInv, Performs, LosesAnswer, Rejects, NotReached, Expired, CallAt
<1>1. /\ r \in CallType
      /\ r.pc = "request" /\ r.kind = call[c].kind /\ r.attempt = call[c].attempt
      /\ r.reloggedIn = call[c].reloggedIn /\ r.refused = call[c].refused
      /\ r.performed = call[c].performed /\ r.lost = call[c].lost
      /\ r.used = Carried(c)
      /\ r.param = IF call[c].kind = "post" THEN 0 ELSE call[c].param
  BY <1>0, RequestedFields
<1>2. /\ Carried(c) \in Nat /\ Carried(c) <= issued
      /\ call[c].reloggedIn /\ call[c].kind # "post" => call[c].refused < Carried(c)
  BY <1>0, CarriedBound
<1>3. CallInv(r, session, issued)
  BY <1>0, <1>1, <1>2 DEF IInv, CallInv, CallType, Outcomes
<1> HIDE DEF r
<1>4. CASE Performs(c)
  <2> DEFINE next == [r EXCEPT !.pc = "ok", !.performed = @ + 1]
  <2>1. /\ next \in CallType /\ Same(next, r) /\ next.pc = "ok"
        /\ next.param = r.param /\ next.refused = r.refused
        /\ next.performed = r.performed + 1
    <3>1. r.performed + 1 \in Nat
      BY <1>1 DEF CallType
    <3>2. ASSUME NEW n \in Nat, NEW q \in PCs \union Outcomes
          PROVE  LET x == [r EXCEPT !.pc = q, !.performed = n] IN
                 /\ x \in CallType /\ Same(x, r) /\ x.pc = q
                 /\ x.param = r.param /\ x.refused = r.refused /\ x.performed = n
      BY <1>1 DEF CallType, Same
    <3> QED
      BY <3>1, <3>2, Places
  <2>2. Become(c, next)
    BY <1>4 DEF Performs, r
  <2> HIDE DEF next
  <2>3. CallInv(next, session, issued)
    BY <1>0, <1>1, <1>3, <2>1 DEF CallInv, CallType, Outcomes, Same
  <2> QED
    BY <1>0, <2>1, <2>2, <2>3, BecomeIInv DEF LoginPCs
<1>5. CASE LosesAnswer(c) \/ NotReached(c)
  <2> DEFINE lost(n) == [r EXCEPT !.performed = @ + n, !.lost = @ + n]
  <2>1. \E n \in {0, 1} : NoAnswer(c, lost(n))
    <3>1. CASE LosesAnswer(c)
      BY <3>1 DEF LosesAnswer, r
    <3>2. CASE NotReached(c)
      <4>1. lost(0) = r
        <5>1. r.performed + 0 = r.performed /\ r.lost + 0 = r.lost
          BY <1>1 DEF CallType
        <5>2. [r EXCEPT !.performed = r.performed, !.lost = r.lost] = r
          BY <1>1 DEF CallType
        <5> QED
          BY <5>1, <5>2
      <4> QED
        BY <3>2, <4>1 DEF NotReached, r
    <3> QED
      BY <1>5, <3>1, <3>2
  <2>2. PICK n \in {0, 1} : NoAnswer(c, lost(n))
    BY <2>1
  <2>3. /\ lost(n) \in CallType
        /\ lost(n).pc = "request" /\ lost(n).kind = r.kind /\ lost(n).attempt = r.attempt
        /\ lost(n).reloggedIn = r.reloggedIn /\ lost(n).refused = r.refused
        /\ lost(n).used = r.used /\ lost(n).param = r.param
        /\ lost(n).performed = r.performed + n /\ lost(n).lost = r.lost + n
    <3>1. r.performed + n \in Nat /\ r.lost + n \in Nat
      BY <1>1 DEF CallType
    <3>2. ASSUME NEW p \in Nat, NEW l \in Nat
          PROVE  LET x == [r EXCEPT !.performed = p, !.lost = l] IN
                 /\ x \in CallType /\ x.pc = r.pc /\ x.kind = r.kind /\ x.attempt = r.attempt
                 /\ x.reloggedIn = r.reloggedIn /\ x.refused = r.refused
                 /\ x.used = r.used /\ x.param = r.param /\ x.performed = p /\ x.lost = l
      BY <1>1 DEF CallType
    <3> QED
      BY <1>1, <3>1, <3>2, ZenonT(60)
  <2> HIDE DEF lost
  <2>4. CASE Become(c, NextAttempt(lost(n), "backoff"))
    <3> DEFINE next == NextAttempt(lost(n), "backoff")
    <3>1. /\ next \in CallType
          /\ next.attempt = r.attempt + 1
          /\ next.pc = IF r.attempt + 1 = MaxRetries THEN "exhausted" ELSE "backoff"
          /\ next.kind = r.kind /\ next.reloggedIn = r.reloggedIn
          /\ next.param = r.param /\ next.refused = r.refused /\ next.used = r.used
          /\ next.performed = r.performed + n /\ next.lost = r.lost + n
      BY <2>3, AgainFields
    <3>2. CallInv(next, session, issued)
      BY <1>1, <1>3, <3>1, RetriesAssumption DEF CallInv, CallType, Outcomes
    <3> HIDE DEF next
    <3> QED
      BY <1>0, <2>4, <3>1, <3>2, BecomeIInv DEF LoginPCs, next
  <2>5. CASE Become(c, [lost(n) EXCEPT !.pc = "unanswered"])
    <3> DEFINE next == [lost(n) EXCEPT !.pc = "unanswered"]
    <3>1. /\ next \in CallType /\ Same(next, lost(n)) /\ next.pc = "unanswered"
          /\ next.param = r.param /\ next.refused = r.refused
          /\ next.performed = r.performed + n
      BY <2>3, Places, MovedFields
    <3>2. CallInv(next, session, issued)
      BY <1>1, <1>3, <2>3, <3>1, RetriesAssumption DEF CallInv, CallType, Outcomes, Same
    <3> HIDE DEF next
    <3> QED
      BY <1>0, <2>5, <3>1, <3>2, BecomeIInv DEF LoginPCs, next
  <2> QED
    BY <2>2, <2>4, <2>5 DEF NoAnswer
<1>6. CASE Rejects(c)
  <2> DEFINE next == [r EXCEPT !.pc = "error"]
  <2>1. /\ next \in CallType /\ Same(next, r) /\ next.pc = "error"
        /\ next.param = r.param /\ next.refused = r.refused /\ next.performed = r.performed
    BY <1>1, Places, MovedFields
  <2>2. Become(c, next)
    BY <1>6 DEF Rejects, r
  <2> HIDE DEF next
  <2>3. CallInv(next, session, issued)
    BY <1>0, <1>1, <1>3, <2>1 DEF CallInv, CallType, Outcomes, Same
  <2> QED
    BY <1>0, <2>1, <2>2, <2>3, BecomeIInv DEF LoginPCs
<1>7. CASE Expired(c)
  <2>1. CASE call[c].reloggedIn
    <3> DEFINE next == [r EXCEPT !.pc = "expired"]
    <3>1. /\ next \in CallType /\ Same(next, r) /\ next.pc = "expired"
          /\ next.param = r.param /\ next.refused = r.refused /\ next.performed = r.performed
      BY <1>1, Places, MovedFields
    <3>2. Become(c, next)
      BY <1>7, <2>1 DEF Expired, r
    <3> HIDE DEF next
    <3>3. CallInv(next, session, issued)
      BY <1>0, <1>1, <1>2, <1>3, <2>1, <3>1 DEF CallInv, CallType, Outcomes, Same
    <3> QED
      BY <1>0, <3>1, <3>2, <3>3, BecomeIInv DEF LoginPCs
  <2>2. CASE ~call[c].reloggedIn
    <3> DEFINE next == [r EXCEPT !.pc = "wantLogin", !.refused = Carried(c)]
    <3>1. /\ next \in CallType /\ Same(next, r) /\ next.pc = "wantLogin"
          /\ next.param = r.param /\ next.refused = Carried(c) /\ next.performed = r.performed
      BY <1>1, <1>2, Places DEF CallType, Same
    <3>2. Become(c, next)
      BY <1>7, <2>2 DEF Expired, r
    <3> HIDE DEF next
    <3>3. CallInv(next, session, issued)
      BY <1>0, <1>1, <1>2, <1>3, <2>2, <3>1 DEF CallInv, CallType, Outcomes, Same
    <3> QED
      BY <1>0, <3>1, <3>2, <3>3, BecomeIInv DEF LoginPCs
  <2> QED
    BY <2>1, <2>2
<1> QED
  BY <1>4, <1>5, <1>6, <1>7

LEMMA BuildParamsIInv ==
  ASSUME NEW c \in Calls, IInv, BuildParams(c)
  PROVE  IInv'
<1> DEFINE next == [call[c] EXCEPT !.pc = "request", !.param = session]
<1>1. call[c] \in CallType /\ CallInv(call[c], session, issued) /\ call[c].pc = "begin"
        /\ Become(c, next)
  BY DEF IInv, BuildParams, CallAt
<1>2. /\ next \in CallType /\ Same(next, call[c]) /\ next.pc = "request"
      /\ next.param = session /\ next.refused = call[c].refused
      /\ next.performed = call[c].performed
  BY <1>1, Places DEF IInv, CallType, Same
<1> HIDE DEF next
<1>3. CallInv(next, session, issued)
  BY <1>1, <1>2 DEF IInv, CallInv, CallType, Outcomes, Same
<1> QED
  BY <1>1, <1>2, <1>3, BecomeIInv DEF LoginPCs

LEMMA BackoffIInv ==
  ASSUME NEW c \in Calls, IInv, Backoff(c)
  PROVE  IInv'
<1>1. call[c] \in CallType /\ CallInv(call[c], session, issued) /\ call[c].pc = "backoff"
  BY DEF IInv, Backoff, CallAt
<1>2. PICK pc \in {"request", "cancelled"} : Become(c, [call[c] EXCEPT !.pc = pc])
  BY DEF Backoff, Return
<1> DEFINE next == [call[c] EXCEPT !.pc = pc]
<1>3. /\ next \in CallType /\ Same(next, call[c]) /\ next.pc = pc
      /\ next.param = call[c].param /\ next.refused = call[c].refused
      /\ next.performed = call[c].performed
  BY <1>1, Places, MovedFields
<1>4. Become(c, next)
  BY <1>2
<1> HIDE DEF next
<1>5. CallInv(next, session, issued)
  BY <1>1, <1>3 DEF IInv, CallInv, CallType, Outcomes, Same
<1> QED
  BY <1>1, <1>3, <1>4, <1>5, BecomeIInv DEF LoginPCs

LEMMA RefreshIInv ==
  ASSUME NEW c \in Calls, IInv, RefreshSessionParams(c)
  PROVE  IInv'
<1> DEFINE r    == [call[c] EXCEPT !.reloggedIn = TRUE, !.param = session]
           next == NextAttempt(r, "backoff")
<1>1. call[c] \in CallType /\ CallInv(call[c], session, issued) /\ call[c].pc = "refresh"
        /\ Become(c, next)
  BY DEF IInv, RefreshSessionParams, CallAt
<1>2. /\ r \in CallType /\ r.attempt = call[c].attempt /\ r.kind = call[c].kind
      /\ r.reloggedIn = TRUE /\ r.param = session /\ r.refused = call[c].refused
      /\ r.used = call[c].used /\ r.performed = call[c].performed /\ r.lost = call[c].lost
  BY <1>1 DEF IInv, CallType
<1> HIDE DEF r
<1>3. /\ next \in CallType
      /\ next.attempt = r.attempt + 1
      /\ next.pc = IF r.attempt + 1 = MaxRetries THEN "exhausted" ELSE "backoff"
      /\ next.kind = r.kind /\ next.reloggedIn = r.reloggedIn
      /\ next.param = r.param /\ next.refused = r.refused /\ next.used = r.used
      /\ next.performed = r.performed /\ next.lost = r.lost
  BY <1>2, AgainFields
<1>4. CallInv(next, session, issued)
  BY <1>1, <1>2, <1>3, RetriesAssumption DEF IInv, CallInv, CallType, Outcomes
<1> HIDE DEF next
<1> QED
  BY <1>1, <1>3, <1>4, BecomeIInv DEF LoginPCs

----------------------------------------------------------------------------
\* A step of the call that is logging in, or about to.
LEMMA MovesLogin ==
  ASSUME NEW c \in Calls, NEW next, IInv, call' = [call EXCEPT ![c] = next],
         next \in CallType, CallInv(next, session', issued'), session' \in Nat \ {0},
             issued' \in Nat,
         heard' \in Nat, session <= session', session' <= heard', heard' <= issued',
         issued <= issued',
         valid' \subseteq 1 .. issued', loginMu' \in Calls \union {Nobody}, LoginInv'
  PROVE  IInv'
<1>1. /\ call' \in [Calls -> CallType]
      /\ call'[c] = next /\ \A d \in Calls : d # c => call'[d] = call[d]
  BY DEF IInv
<1>2. \A d \in Calls : d # c => CallInv(call'[d], session', issued')
  BY <1>1 DEF IInv, CallInv, CallType
<1> QED
  BY <1>1, <1>2 DEF IInv

LEMMA LoginStepIInv ==
  ASSUME NEW c \in Calls, IInv,
         \/ TakeLoginMu(c) \/ LoginAccepted(c) \/ LoginUnheard(c) \/ LoginFails(c)
         \/ SetSession(c)
  PROVE  IInv'
<1>0. call[c] \in CallType /\ CallInv(call[c], session, issued)
  BY DEF IInv
<1>1. CASE TakeLoginMu(c)
  <2> DEFINE next == [call[c] EXCEPT !.pc = "login"]
  <2>1. /\ next \in CallType /\ Same(next, call[c]) /\ next.pc = "login"
        /\ next.param = call[c].param /\ next.refused = call[c].refused
        /\ next.performed = call[c].performed
    BY <1>0, Places, MovedFields
  <2>2. call' = [call EXCEPT ![c] = next]
    BY <1>1 DEF TakeLoginMu
  <2>3. LoginInv'
    BY <1>1, CallsAssumption DEF IInv, TakeLoginMu, CallAt, LoginInv, LatestSession, LoginPCs
  <2> HIDE DEF next
  <2>4. CallInv(next, session', issued')
    BY <1>0, <1>1, <2>1 DEF TakeLoginMu, CallAt, CallInv, CallType, Outcomes, Same
  <2> QED
    BY <1>1, <2>1, <2>2, <2>3, <2>4, MovesLogin DEF IInv, TakeLoginMu
<1>2. CASE LoginAccepted(c)
  <2> DEFINE next == [call[c] EXCEPT !.pc = "setSession", !.param = issued + 1]
  <2>1. /\ next \in CallType /\ Same(next, call[c]) /\ next.pc = "setSession"
        /\ next.param = issued + 1 /\ next.refused = call[c].refused
        /\ next.performed = call[c].performed
    <3>1. issued + 1 \in Nat
      BY DEF IInv
    <3>2. ASSUME NEW n \in Nat, NEW q \in PCs \union Outcomes
          PROVE  LET x == [call[c] EXCEPT !.pc = q, !.param = n] IN
                 /\ x \in CallType /\ Same(x, call[c]) /\ x.pc = q
                 /\ x.param = n /\ x.refused = call[c].refused
                 /\ x.performed = call[c].performed
      BY <1>0 DEF CallType, Same
    <3> QED
      BY <3>1, <3>2, Places
  <2>2. call' = [call EXCEPT ![c] = next]
    BY <1>2 DEF LoginAccepted
  <2> HIDE DEF next
  <2>3. LoginInv'
    BY <1>0, <1>2, <2>1, <2>2, CallsAssumption
    DEF IInv, LoginAccepted, CallAt, LoginInv, LatestSession, LoginPCs, CallInv, CallType
  <2>4. CallInv(next, session', issued')
    BY <1>0, <1>2, <2>1 DEF IInv, LoginAccepted, CallAt, CallInv, CallType, Outcomes, Same
  <2>5. /\ session' \in Nat \ {0} /\ issued' \in Nat /\ heard' \in Nat
        /\ session <= session' /\ session' <= heard' /\ heard' <= issued'
        /\ issued <= issued'
        /\ valid' \subseteq 1 .. issued' /\ loginMu' \in Calls \union {Nobody}
    BY <1>2 DEF IInv, LoginAccepted
  <2> QED
    BY <2>1, <2>2, <2>3, <2>4, <2>5, MovesLogin
<1>3. CASE LoginFails(c) \/ LoginUnheard(c)
  <2> DEFINE next == [call[c] EXCEPT !.pc = "loginFailed"]
  <2>1. /\ next \in CallType /\ Same(next, call[c]) /\ next.pc = "loginFailed"
        /\ next.param = call[c].param /\ next.refused = call[c].refused
        /\ next.performed = call[c].performed
    BY <1>0, Places, MovedFields
  <2>2. call' = [call EXCEPT ![c] = next]
    BY <1>3 DEF LoginFails, LoginUnheard
  <2>3. LoginInv'
    <3>1. /\ session' = session /\ heard' = heard /\ loginMu' = Nobody
          /\ call' \in [Calls -> CallType]
          /\ call'[c].pc = "loginFailed" /\ \A d \in Calls : d # c => call'[d] = call[d]
      BY <1>3, <2>1, <2>2 DEF IInv, LoginFails, LoginUnheard
    <3>2. session = heard /\ loginMu = c
      BY <1>3 DEF IInv, LoginInv, LoginFails, LoginUnheard, CallAt, LoginPCs
    <3> QED
      BY <3>1, <3>2, CallsAssumption DEF IInv, LoginInv, LatestSession, LoginPCs
  <2> HIDE DEF next
  <2>4. CallInv(next, session', issued')
    BY <1>0, <1>3, <2>1
    DEF IInv, LoginFails, LoginUnheard, CallAt, CallInv, CallType, Outcomes, Same
  <2>5. /\ session' = session /\ heard' = heard /\ issued' \in Nat
        /\ heard' <= issued' /\ issued <= issued'
        /\ valid' \subseteq 1 .. issued' /\ loginMu' \in Calls \union {Nobody}
    <3>1. CASE LoginFails(c)
      BY <3>1 DEF IInv, LoginFails
    <3>2. CASE LoginUnheard(c)
      BY <3>2 DEF IInv, LoginUnheard
    <3> QED
      BY <1>3, <3>1, <3>2
  <2>6. /\ session' \in Nat \ {0} /\ heard' \in Nat
        /\ session <= session' /\ session' <= heard'
    BY <2>5 DEF IInv
  <2> QED
    BY <2>1, <2>2, <2>3, <2>4, <2>5, <2>6, MovesLogin
<1>4. CASE SetSession(c)
  <2> DEFINE next == [call[c] EXCEPT !.pc = "refresh"]
  <2>1. session' = heard /\ call[c].refused < heard /\ heard' = heard /\ issued' = issued
    BY <1>4 DEF IInv, SetSession, CallAt, LoginInv
  <2>2. /\ next \in CallType /\ Same(next, call[c]) /\ next.pc = "refresh"
        /\ next.param = call[c].param /\ next.refused = call[c].refused
        /\ next.performed = call[c].performed
    BY <1>0, Places, MovedFields
  <2>3. call' = [call EXCEPT ![c] = next]
    BY <1>4 DEF SetSession
  <2>4. LoginInv'
    BY <1>4, <2>1, CallsAssumption
    DEF IInv, SetSession, CallAt, LoginInv, LatestSession, LoginPCs
  <2> HIDE DEF next
  <2>5. CallInv(next, session', issued')
    BY <1>0, <1>4, <2>1, <2>2 DEF SetSession, CallAt, CallInv, CallType, Outcomes, Same
  <2>6. /\ session' \in Nat \ {0} /\ issued' \in Nat /\ heard' \in Nat
        /\ session <= session' /\ session' <= heard' /\ heard' <= issued'
        /\ issued <= issued'
        /\ valid' \subseteq 1 .. issued' /\ loginMu' \in Calls \union {Nobody}
    BY <1>4, <2>1 DEF IInv, SetSession
  <2> QED
    BY <2>2, <2>3, <2>4, <2>5, <2>6, MovesLogin
<1> QED
  BY <1>1, <1>2, <1>3, <1>4

----------------------------------------------------------------------------
THEOREM NextIInv == IInv /\ [SessionNext]_sessionVars => IInv'
<1> SUFFICES ASSUME IInv, [SessionNext]_sessionVars PROVE IInv'
  OBVIOUS
<1>1. ASSUME NEW c \in Calls, CallStep(c) PROVE IInv'
  BY <1>1, BuildParamsIInv, AttemptIInv, BackoffIInv, RefreshIInv, LoginStepIInv DEF CallStep
<1>2. CASE Expire
  BY <1>2 DEF IInv, Expire, CallInv, LoginInv, LatestSession
<1>3. CASE UNCHANGED sessionVars
  BY <1>3 DEF sessionVars, IInv, CallInv, LoginInv, LatestSession
<1> QED
  BY <1>1, <1>2, <1>3 DEF SessionNext, Terminating

\* Every variable keeps its type; in particular attempts, lost answers and
\* performances stay within MaxRetries, no call carries a session DSM never issued, and
\* one login is under way at most.
THEOREM SessionTypeCorrect == SessionSpec => []SessionTypeOK
<1>1. ASSUME IInv PROVE SessionTypeOK
  <2>1. ASSUME NEW c \in Calls
        PROVE  call[c] \in
            [pc : PCs \union Outcomes, kind : Kinds, attempt : 0 .. MaxRetries,
             reloggedIn : BOOLEAN, param : 0 .. issued, refused : 0 .. issued,
             used : 0 .. issued, performed : 0 .. MaxRetries, lost : 0 .. MaxRetries]
    <3>1. call[c] \in CallType /\ CallInv(call[c], session, issued)
      BY <1>1 DEF IInv
    <3>2. /\ call[c].attempt \in 0 .. MaxRetries /\ call[c].lost \in 0 .. MaxRetries
          /\ call[c].performed \in 0 .. MaxRetries
      BY <3>1, RetriesAssumption DEF CallType, CallInv, Outcomes
    <3>3. /\ call[c].param \in 0 .. issued /\ call[c].refused \in 0 .. issued
          /\ call[c].used \in 0 .. issued
      BY <1>1, <3>1 DEF IInv, CallType, CallInv
    <3>4. call[c].kind \in Kinds
      BY <3>1 DEF CallInv
    <3> QED
      BY <3>1, <3>2, <3>3, <3>4 DEF CallType
  <2>2. session \in 1 .. heard /\ heard <= issued
    BY <1>1 DEF IInv
  <2>3. call = [c \in Calls |-> call[c]]
    BY <1>1 DEF IInv
  <2>4. OneLogin
    BY <1>1 DEF IInv, LoginInv, LoginPCs, OneLogin
  <2> QED
    BY <1>1, <2>1, <2>2, <2>3, <2>4 DEF IInv, SessionTypeOK
<1> QED
  BY InitIInv, NextIInv, <1>1, PTL DEF SessionSpec

\* Logins exclude each other.
THEOREM OneLoginAtATime == SessionSpec => []OneLogin
<1>1. IInv => OneLogin
  BY DEF IInv, LoginInv, LoginPCs, OneLogin
<1> QED
  BY InitIInv, NextIInv, <1>1, PTL DEF SessionSpec

\* Whenever no login is under way the session in use is the last one DSM told the
\* provider of, logins whose answers were lost in between or not.
THEOREM NewestSessionWins == SessionSpec => []LatestSession
<1>1. IInv => LatestSession
  BY DEF IInv, LoginInv
<1> QED
  BY InitIInv, NextIInv, <1>1, PTL DEF SessionSpec

\* A call is performed as often as an answer to it was lost, and once more if it
\* succeeded, whichever way it ends.
THEOREM FailureIsTruthful == SessionSpec => []NothingBehind
<1>1. IInv => NothingBehind
  BY DEF IInv, CallInv, NothingBehind
<1> QED
  BY InitIInv, NextIInv, <1>1, PTL DEF SessionSpec

\* Except for POST, a reported 119 was the answer to a fresh session.
THEOREM ExpiryIsGenuine == SessionSpec => []ExpiredIsGenuine
<1>1. IInv => ExpiredIsGenuine
  BY DEF IInv, CallInv, CallType, ExpiredIsGenuine, Genuine
<1> QED
  BY InitIInv, NextIInv, <1>1, PTL DEF SessionSpec

\* What a call reports is what happened: the two together.
THEOREM TruthfulAnswers == SessionSpec => []AnswersAreTrue
  BY FailureIsTruthful, ExpiryIsGenuine, PTL DEF AnswersAreTrue

----------------------------------------------------------------------------
(***************************************************************************)
(* The invariant of the certificates.                                      *)
(***************************************************************************)
\* Ids are given out in order, next is the one after them.
IsId(id, next) == id \in Nat /\ id # NoId /\ id < next

\* A certificate keeps the common name of the resource it was made for.
CertOK(c) ==
    /\ DOMAIN c = {"desc", "subject", "material", "by"}
    /\ c.by \in Resources => Kind[c.by] # "binding" /\ c.subject = Subject[c.by]

DsmOK ==
    /\ fresh \in Nat /\ NoId < fresh /\ fresh <= MaxId + 1
    /\ \A id \in DOMAIN certs : IsId(id, fresh) /\ CertOK(certs[id])
    /\ Installed(default)
    /\ DOMAIN served = Services
    /\ \A s \in Services : served[s] = NoId \/ Installed(served[s])

RecordOK(seen, next) ==
    /\ seen.id \in Nat /\ seen.id < next
    /\ seen # None => seen.id # NoId

\* What an operation has made, with nothing in the state.
Making(j, seen, next) ==
    /\ seen = None
    /\ \A id \in j.made : IsId(id, next)

\* Only what is in the state is changed, only what is not is created.
JobOK(r, j, seen, next) ==
    \/ j = Idle
    \/ /\ j.pc = "readBySubject" /\ DOMAIN j = {"pc"}
       /\ Kind[r] = "issued" /\ seen # None
    \/ /\ j.pc = "guard" /\ DOMAIN j = {"pc"}
       /\ Kind[r] # "binding" /\ seen # None
    \/ /\ j.pc = "remove" /\ DOMAIN j = {"pc", "tries"}
       /\ Kind[r] # "binding" /\ seen # None
    \/ /\ j.pc = "set" /\ DOMAIN j = {"pc", "verb", "tries"}
       /\ Kind[r] # "binding" /\ seen # None
    \/ /\ j.pc = "get" /\ DOMAIN j = {"pc", "verb"}
       /\ Kind[r] # "binding" /\ seen # None
    \/ /\ j.pc = "import" /\ DOMAIN j = {"pc", "verb", "tries", "made"}
       /\ Kind[r] = "imported"
       /\ \/ j.verb = "create" /\ Making(j, seen, next)
          \/ j.verb = "update" /\ j.made = {} /\ seen # None
    \/ /\ j.pc = "settle" /\ DOMAIN j = {"pc", "verb", "id", "made"}
       /\ Kind[r] = "imported"
       /\ \/ j.verb = "create" /\ Making(j, seen, next) /\ j.id \in j.made \union {NoId}
          \/ j.verb = "update" /\ j.made = {} /\ seen # None /\ j.id = seen.id
    \/ /\ j.pc = "issue" /\ DOMAIN j = {"pc", "verb", "tries", "made"}
       /\ Kind[r] = "issued" /\ Making(j, seen, next)
    \/ /\ j.pc = "findIssued" /\ DOMAIN j = {"pc", "verb", "made"}
       /\ Kind[r] = "issued" /\ Making(j, seen, next)
    \/ /\ j.pc \in {"claim", "claimed"}
       /\ DOMAIN j = {"pc", "verb", "tries", "id", "made", "seen"}
       /\ Kind[r] = "issued" /\ Making(j, seen, next)
       /\ IsId(j.id, next) /\ j.seen.id = j.id
    \/ /\ j.pc \in {"find", "lookup"} /\ DOMAIN j = {"pc", "to"}
       /\ Kind[r] = "binding" /\ IsId(j.to, next)
    \/ /\ j.pc = "bind" /\ DOMAIN j = {"pc", "to", "old", "tries"}
       /\ Kind[r] = "binding" /\ IsId(j.to, next) /\ j.old # j.to

Certain ==
    /\ DsmOK
    /\ \A id \in stray : IsId(id, fresh)
    /\ late \subseteq Resources
    /\ configs \in Seq([Resources -> Settings]) /\ configs # <<>>
    /\ DOMAIN known = Resources /\ DOMAIN job = Resources
    /\ \A r \in Resources : RecordOK(known[r], fresh)
    /\ \A r \in Resources : JobOK(r, job[r], known[r], fresh)

\* A resource does not lose sight of a certificate that was made for it.  The destroy
\* takes one that DSM has replaced for removed.
Tracks(r, id, listed, j, seen) ==
    \/ seen.id = id
    \/ "made" \in DOMAIN j /\ id \in j.made
    \/ Kind[r] = "issued" /\ seen # None /\ seen.id \notin listed /\ j.pc # "guard"

Tracked ==
    \A id \in DOMAIN certs \ stray : \A r \in Resources :
        certs[id].by = r => Tracks(r, id, DOMAIN certs, job[r], known[r])

\* A service of a certificate that is about to be removed without force was given it
\* since the services were read.
Spared(r, s) ==
    At(r, "remove") /\ ~Want(r).force /\ Installed(known[r].id) /\ served[s] = known[r].id =>
        r \in late

AllSpared == \A r \in Resources, s \in Services : Spared(r, s)

CertInv == Certain /\ Tracked /\ AllSpared

\* What a step of r does to DSM's certificates: it makes one, removes some, changes others,
CertsGo(r) ==
    /\ fresh' \in Nat /\ fresh <= fresh'
    /\ \A id \in DOMAIN certs' :
          \/ id \in DOMAIN certs /\ certs'[id].by = certs[id].by
          \/ id = fresh /\ fresh < fresh' /\ certs'[id].by = r

Frame(r) ==
    /\ DOMAIN job' = Resources /\ DOMAIN known' = Resources
    /\ \A q \in Resources : q # r => job'[q] = job[q] /\ known'[q] = known[q]

\* and it does not lose sight of those of r.
Sighted(r) ==
    \A id \in DOMAIN certs' \ stray' :
        certs'[id].by = r => Tracks(r, id, DOMAIN certs', job'[r], known'[r])

Proper(r) ==
    /\ CertsGo(r) /\ DsmOK' /\ Frame(r)
    /\ stray \subseteq stray' /\ (\A id \in stray' : IsId(id, fresh'))
    /\ late' \subseteq Resources
    /\ configs' = configs
    /\ RecordOK(known'[r], fresh')
    /\ JobOK(r, job'[r], known'[r], fresh')
    /\ Sighted(r)

LEMMA Further ==
  ASSUME NEW a \in Nat, NEW b \in Nat, NEW c \in Nat, a < b, b <= c
  PROVE  a < c
  OBVIOUS

LEMMA MoreIds ==
  ASSUME NEW n \in Nat, NEW m \in Nat, n <= m, NEW id, IsId(id, n)
  PROVE  IsId(id, m)
  BY DEF IsId

LEMMA RecordStays ==
  ASSUME NEW n \in Nat, NEW m \in Nat, n <= m, NEW seen, RecordOK(seen, n)
  PROVE  RecordOK(seen, m)
  BY Further DEF RecordOK

LEMMA JobStays ==
  ASSUME NEW n \in Nat, NEW m \in Nat, n <= m, NEW r, NEW j, NEW seen, JobOK(r, j, seen, n)
  PROVE  JobOK(r, j, seen, m)
<1>1. \A id : IsId(id, n) => IsId(id, m)
  BY MoreIds
<1>2. Making(j, seen, n) => Making(j, seen, m)
  BY <1>1 DEF Making
<1> QED
  BY <1>1, <1>2 DEF JobOK

\* A certificate of another resource stays in sight.
LEMMA OthersTracked ==
  ASSUME Certain, Tracked, NEW r \in Resources, CertsGo(r), Frame(r), stray \subseteq stray',
         NEW q \in Resources, q # r, NEW id \in DOMAIN certs' \ stray', certs'[id].by = q
  PROVE  Tracks(q, id, DOMAIN certs', job'[q], known'[q])
<1>1. id \in DOMAIN certs \ stray /\ certs[id].by = q
  BY DEF CertsGo
<1>2. Tracks(q, id, DOMAIN certs, job[q], known[q])
  BY <1>1 DEF Tracked
<1>3. known'[q] = known[q] /\ job'[q] = job[q]
  BY DEF Frame
<1>4. ASSUME known[q].id \notin DOMAIN certs PROVE known[q].id \notin DOMAIN certs'
  <2>1. known[q].id < fresh /\ known[q].id \in Nat /\ fresh \in Nat
    BY DEF Certain, RecordOK, DsmOK
  <2>2. known[q].id # fresh
    BY <2>1
  <2> QED
    BY <1>4, <2>2 DEF CertsGo
<1> QED
  BY <1>2, <1>3, <1>4 DEF Tracks

LEMMA ProperKeeps ==
  ASSUME Certain, Tracked, NEW r \in Resources, Proper(r)
  PROVE  Certain' /\ Tracked'
<1>1. fresh \in Nat /\ fresh' \in Nat /\ fresh <= fresh'
  BY DEF Proper, CertsGo, Certain, DsmOK
<1>2. ASSUME NEW q \in Resources
      PROVE  RecordOK(known'[q], fresh') /\ JobOK(q, job'[q], known'[q], fresh')
  <2>1. CASE q = r
    BY <2>1 DEF Proper
  <2>2. CASE q # r
    <3>1. known'[q] = known[q] /\ job'[q] = job[q]
      BY <2>2 DEF Proper, Frame
    <3>2. RecordOK(known[q], fresh) /\ JobOK(q, job[q], known[q], fresh)
      BY DEF Certain
    <3> QED
      BY <1>1, <3>1, <3>2, RecordStays, JobStays
  <2> QED
    BY <2>1, <2>2
<1>3. Certain'
  <2>1. configs' \in Seq([Resources -> Settings]) /\ configs' # <<>>
    BY DEF Proper, Certain
  <2>2. DOMAIN known' = Resources /\ DOMAIN job' = Resources
    BY DEF Proper, Frame
  <2>3. DsmOK' /\ (\A id \in stray' : IsId(id, fresh')) /\ late' \subseteq Resources
    BY DEF Proper
  <2> QED
    BY <1>2, <2>1, <2>2, <2>3 DEF Certain
<1>4. Tracked'
  <2>1. ASSUME NEW id \in DOMAIN certs' \ stray', NEW q \in Resources, certs'[id].by = q
        PROVE  Tracks(q, id, DOMAIN certs', job'[q], known'[q])
    <3>1. CASE q = r
      BY <2>1, <3>1 DEF Proper, Sighted
    <3>2. CASE q # r
      BY <2>1, <3>2, OthersTracked DEF Proper
    <3> QED
      BY <3>1, <3>2
  <2> QED
    BY <2>1 DEF Tracked
<1> QED
  BY <1>3, <1>4

----------------------------------------------------------------------------
(***************************************************************************)
(* What DSM does.                                                          *)
(***************************************************************************)
LEMMA SameCerts ==
  ASSUME Certain, NEW r, certs' = certs, fresh' = fresh, served' = served,
         default' = default \/ Installed(default')
  PROVE  DsmOK' /\ CertsGo(r)
BY DEF Certain, DsmOK, CertsGo, Installed

LEMMA SameDsm ==
  ASSUME Certain, NEW r, UNCHANGED dsm
  PROVE  DsmOK' /\ CertsGo(r) /\ certs' = certs /\ fresh' = fresh /\ late' = late
         /\ served' = served /\ default' = default
<1>1. certs' = certs /\ fresh' = fresh /\ served' = served /\ default' = default /\ late' = late
  BY DEF dsm
<1> QED
  BY <1>1, SameCerts

LEMMA InstallGoes ==
  ASSUME Certain, NEW r \in Resources, Kind[r] # "binding", Install(r),
         default' \in {default, fresh}
  PROVE  /\ DsmOK' /\ CertsGo(r)
         /\ DOMAIN certs' = DOMAIN certs \union {fresh}
         /\ \A id \in DOMAIN certs : certs'[id] = certs[id]
         /\ fresh' = fresh + 1 /\ IsId(fresh, fresh') /\ fresh \notin DOMAIN certs
         /\ served' = served /\ late' = late
<1> DEFINE new == [desc |-> Want(r).desc, subject |-> Subject[r], material |-> Want(r).material,
                   by |-> r]
<1>1. fresh \in Nat /\ NoId < fresh /\ fresh <= MaxId /\ MaxId \in Nat /\ fresh' = fresh + 1
  BY BoundsAssumption DEF Certain, DsmOK, Install
<1>2. fresh' \in Nat /\ NoId < fresh' /\ fresh' <= MaxId + 1 /\ IsId(fresh, fresh')
        /\ fresh < fresh'
      /\ fresh <= fresh'
  BY <1>1 DEF NoId, IsId
<1>3. fresh \notin DOMAIN certs
  BY <1>1 DEF Certain, DsmOK, IsId
<1>4. /\ DOMAIN certs' = DOMAIN certs \union {fresh}
      /\ certs'[fresh] = new
      /\ \A id \in DOMAIN certs : certs'[id] = certs[id]
  BY <1>3 DEF Install
<1>5. CertOK(new) /\ new.by = r
  BY DEF CertOK
<1> HIDE DEF new
<1>6. \A id \in DOMAIN certs' : IsId(id, fresh') /\ CertOK(certs'[id])
  <2>1. \A id \in DOMAIN certs : IsId(id, fresh) /\ CertOK(certs[id])
    BY DEF Certain, DsmOK
  <2>2. \A id \in DOMAIN certs : IsId(id, fresh')
    BY <1>1, <1>2, <2>1, MoreIds
  <2> QED
    BY <1>2, <1>4, <1>5, <2>1, <2>2
<1>7. default' \in DOMAIN certs' /\ served' = served /\ late' = late
  BY <1>4 DEF Certain, DsmOK, Installed, Install
<1>8. DsmOK'
  BY <1>2, <1>4, <1>6, <1>7 DEF Certain, DsmOK, Installed
<1>9. CertsGo(r)
  BY <1>2, <1>4, <1>5 DEF CertsGo
<1> QED
  BY <1>1, <1>2, <1>3, <1>4, <1>7, <1>8, <1>9

\* The description and the material of a certificate change.
LEMMA EditGoes ==
  ASSUME Certain, NEW r, NEW id \in DOMAIN certs, NEW c,
         c.by = certs[id].by, CertOK(c),
         certs' = [certs EXCEPT ![id] = c],
         fresh' = fresh, served' = served, default' \in {default, id}
  PROVE  DsmOK' /\ CertsGo(r) /\ DOMAIN certs' = DOMAIN certs
         /\ \A i \in DOMAIN certs : certs'[i].by = certs[i].by
<1>1. DOMAIN certs' = DOMAIN certs /\ certs'[id] = c
      /\ \A i \in DOMAIN certs : i # id => certs'[i] = certs[i]
  OBVIOUS
<1>2. \A i \in DOMAIN certs : certs'[i].by = certs[i].by /\ CertOK(certs'[i])
  BY <1>1 DEF Certain, DsmOK
<1>3. DsmOK'
  BY <1>1, <1>2 DEF Certain, DsmOK, Installed
<1>4. CertsGo(r)
  BY <1>1, <1>2 DEF Certain, DsmOK, CertsGo
<1> QED
  BY <1>1, <1>2, <1>3, <1>4

LEMMA UninstallGoes ==
  ASSUME Certain, NEW r, NEW id \in DOMAIN certs, Uninstall(id)
  PROVE  /\ DsmOK' /\ CertsGo(r) /\ fresh' = fresh
         /\ DOMAIN certs' = DOMAIN certs \ {id}
         /\ \A i \in DOMAIN certs' : certs'[i] = certs[i]
         /\ late' \subseteq Resources
<1>1. /\ DOMAIN certs' = DOMAIN certs \ {id} /\ fresh' = fresh
      /\ \A i \in DOMAIN certs' : certs'[i] = certs[i]
  BY DEF Uninstall
<1>2. default' \in DOMAIN certs'
  BY <1>1 DEF Uninstall, Certain, DsmOK, Installed
<1>3. PICK instead \in {NoId, default'} :
          /\ served' = [s \in Services |-> IF served[s] = id THEN instead ELSE served[s]]
          /\ late' = IF InUse(id) THEN Overtaken(instead) ELSE late
  BY DEF Uninstall
<1>4. late' \subseteq Resources
  BY <1>3 DEF Overtaken, Certain
<1>5. DOMAIN served' = Services
      /\ \A s \in Services : served'[s] = NoId \/ served'[s] \in DOMAIN certs'
  BY <1>1, <1>2, <1>3 DEF Certain, DsmOK, Installed
<1>6. DsmOK'
  BY <1>1, <1>2, <1>5 DEF Certain, DsmOK, Installed
<1>7. CertsGo(r)
  BY <1>1 DEF Certain, DsmOK, CertsGo
<1> QED
  BY <1>1, <1>4, <1>6, <1>7

----------------------------------------------------------------------------
(***************************************************************************)
(* How an operation goes on.                                               *)
(***************************************************************************)
LEMMA GotoFrame ==
  ASSUME Certain, NEW r \in Resources, NEW to, Goto(r, to)
  PROVE  Frame(r) /\ job'[r] = to /\ known' = known
  BY DEF Goto, Frame, Certain

LEMMA IdleForm ==
  ASSUME NEW r, NEW seen, NEW next
  PROVE  /\ JobOK(r, Idle, seen, next) /\ Idle.pc = "idle" /\ "made" \notin DOMAIN Idle
  BY DEF JobOK, Idle

LEMMA FailFrame ==
  ASSUME Certain, NEW r \in Resources, Fail(r)
  PROVE  Frame(r) /\ job'[r] = Idle /\ known' = known
  BY GotoFrame DEF Fail

LEMMA NoneForm ==
  ASSUME Certain
  PROVE  None.id = NoId /\ RecordOK(None, fresh) /\ NoId \notin DOMAIN certs
<1>1. None.id = NoId /\ NoId = 0
  BY DEF None, NoId
<1>2. fresh \in Nat /\ 0 < fresh
  BY <1>1 DEF Certain, DsmOK
<1> QED
  BY <1>1, <1>2 DEF RecordOK, Certain, DsmOK, IsId

LEMMA ForgetFrame ==
  ASSUME Certain, NEW r \in Resources, Forget(r)
  PROVE  Frame(r) /\ job'[r] = Idle /\ known'[r] = None
  BY DEF Forget, Frame, Certain

\* What is read of a certificate is a record of it.
LEMMA ParsedForm ==
  ASSUME NEW n, NEW id, IsId(id, n), NEW material, NEW tainted
  PROVE  LET seen == Parsed(id, material, tainted)
         IN  seen.id = id /\ seen # None /\ RecordOK(seen, n)
<1> DEFINE seen == Parsed(id, material, tainted)
<1>1. seen.id = id
  BY DEF Parsed
<1> HIDE DEF seen
<1>2. None.id = NoId
  BY DEF None
<1>3. seen # None
  BY <1>1, <1>2 DEF IsId
<1> QED
  BY <1>1, <1>3 DEF RecordOK, IsId, seen

LEMMA RecordFrame ==
  ASSUME Certain, NEW r \in Resources, NEW n, NEW id, IsId(id, n), Record(r, id)
  PROVE  /\ Frame(r) /\ job'[r] = Idle /\ known'[r].id = id /\ known'[r] # None
         /\ RecordOK(known'[r], n)
<1> DEFINE t == job[r].verb = "create" /\ certs[id].desc # Want(r).desc
<1>1. known' = [known EXCEPT ![r] = Parsed(id, Want(r).material, t)]
      /\ job' = [job EXCEPT ![r] = Idle]
  BY DEF Record
<1> HIDE DEF t
<1>2. known'[r] = Parsed(id, Want(r).material, t)
  BY <1>1 DEF Certain
<1>3. Frame(r) /\ job'[r] = Idle
  BY <1>1 DEF Frame, Certain
<1> QED
  BY <1>2, <1>3, ParsedForm

\* The first step of what was planned.
LEMMA FirstStepOK ==
  ASSUME NEW r \in Resources, Kind[r] # "binding", NEW seen, NEW n, NEW verb,
         \/ verb = "create" /\ seen = None
         \/ verb = PlannedVerb(r, seen) /\ seen # None
  PROVE  /\ JobOK(r, FirstStep(r, verb), seen, n)
         /\ "made" \in DOMAIN FirstStep(r, verb) => FirstStep(r, verb).made = {}
<1> DEFINE issue == [pc |-> "issue", verb |-> verb, tries |-> 0, made |-> {}]
           import == [pc |-> "import", verb |-> verb, tries |-> 0, made |-> {}]
           set == [pc |-> "set", verb |-> verb, tries |-> 0]
           guard == [pc |-> "guard"]
<1>0. Kind[r] = "imported" \/ Kind[r] = "issued"
  BY KindAssumption
<1>1. \/ verb = "create" /\ seen = None
      \/ verb \in {"nothing", "delete", "update"} /\ seen # None
  BY DEF PlannedVerb
<1>2. \/ FirstStep(r, verb) = Idle
      \/ FirstStep(r, verb) = guard /\ verb = "delete"
      \/ FirstStep(r, verb) = issue /\ Kind[r] = "issued" /\ verb = "create"
      \/ FirstStep(r, verb) = set /\ verb = "update"
      \/ FirstStep(r, verb) = import /\ verb \in {"create", "update"}
         /\ ~(Kind[r] = "issued" /\ verb \in {"create", "update"})
  BY <1>1 DEF FirstStep
<1>3. CASE FirstStep(r, verb) = Idle
  BY <1>3, IdleForm
<1>4. CASE FirstStep(r, verb) = guard /\ verb = "delete"
  <2>1. JobOK(r, guard, seen, n) /\ "made" \notin DOMAIN guard
    BY <1>1, <1>4 DEF JobOK
  <2> QED
    BY <1>4, <2>1
<1>5. CASE FirstStep(r, verb) = issue /\ Kind[r] = "issued" /\ verb = "create"
  <2>1. Making(issue, seen, n)
    BY <1>1, <1>5 DEF Making
  <2>2. JobOK(r, issue, seen, n) /\ issue.made = {}
    BY <1>5, <2>1 DEF JobOK
  <2> QED
    BY <1>5, <2>2
<1>6. CASE FirstStep(r, verb) = set /\ verb = "update"
  <2>1. JobOK(r, set, seen, n) /\ "made" \notin DOMAIN set
    BY <1>1, <1>6 DEF JobOK
  <2> QED
    BY <1>6, <2>1
<1>7. CASE FirstStep(r, verb) = import /\ verb \in {"create", "update"}
           /\ ~(Kind[r] = "issued" /\ verb \in {"create", "update"})
  <2>1. verb = "create" => Making(import, seen, n)
    BY <1>1, <1>7 DEF Making
  <2>2. import.made = {} /\ import.verb = verb
    OBVIOUS
  <2>3. JobOK(r, import, seen, n)
    BY <1>0, <1>1, <1>7, <2>1 DEF JobOK
  <2> QED
    BY <1>7, <2>2, <2>3
<1> QED
  BY <1>2, <1>3, <1>4, <1>5, <1>6, <1>7

\* Nothing gets out of sight while the record is of the same certificate and what was made
\* is still the operation's.
LEMMA StaysInSight ==
  ASSUME Certain, Tracked, NEW r \in Resources, CertsGo(r), stray \subseteq stray',
         known'[r].id = known[r].id, known[r] # None => known'[r] # None,
         "made" \in DOMAIN job[r] =>
             \A id \in job[r].made :
                 id \in stray' \/ ("made" \in DOMAIN job'[r] /\ id \in job'[r].made),
         fresh \in DOMAIN certs' =>
             fresh \in stray' \/ ("made" \in DOMAIN job'[r] /\ fresh \in job'[r].made),
         job'[r].pc = "guard" => known[r].id \in DOMAIN certs \/ job[r].pc = "guard"
  PROVE  Sighted(r)
<1> SUFFICES ASSUME NEW id \in DOMAIN certs' \ stray', certs'[id].by = r
             PROVE  Tracks(r, id, DOMAIN certs', job'[r], known'[r])
  BY DEF Sighted
<1>1. CASE id = fresh
  BY <1>1 DEF Tracks
<1>2. CASE id # fresh
  <2>1. id \in DOMAIN certs \ stray /\ certs[id].by = r
    BY <1>2 DEF CertsGo
  <2>2. Tracks(r, id, DOMAIN certs, job[r], known[r])
    BY <2>1 DEF Tracked
  <2>3. known[r].id # fresh
    <3>1. known[r].id < fresh /\ known[r].id \in Nat /\ fresh \in Nat
      BY DEF Certain, RecordOK, DsmOK
    <3> QED
      BY <3>1
  <2>4. known[r].id \notin DOMAIN certs => known[r].id \notin DOMAIN certs'
    BY <2>3 DEF CertsGo
  <2> QED
    BY <2>2, <2>4 DEF Tracks
<1> QED
  BY <1>1, <1>2

\* Of the certificates of r that are not astray, all are made by the operation if there
\* is nothing in the state.
LEMMA OwnMade ==
  ASSUME Certain, Tracked, NEW r \in Resources, known[r] = None,
         NEW id \in DOMAIN certs \ stray, certs[id].by = r
  PROVE  "made" \in DOMAIN job[r] /\ id \in job[r].made
<1>1. Tracks(r, id, DOMAIN certs, job[r], known[r])
  BY DEF Tracked
<1> QED
  BY <1>1, NoneForm DEF Tracks

\* A step that leaves DSM as it is.
LEMMA QuietProper ==
  ASSUME Certain, Tracked, NEW r \in Resources, UNCHANGED <<dsm, configs, stray>>,
         Frame(r), known'[r].id = known[r].id, known[r] # None => known'[r] # None,
         RecordOK(known'[r], fresh), JobOK(r, job'[r], known'[r], fresh),
         "made" \in DOMAIN job[r] => job[r].made = {}
             \/ ("made" \in DOMAIN job'[r] /\ job[r].made \subseteq job'[r].made),
         job'[r].pc = "guard" => known[r].id \in DOMAIN certs \/ job[r].pc = "guard"
  PROVE  Proper(r)
<1>1. /\ DsmOK' /\ CertsGo(r) /\ certs' = certs /\ fresh' = fresh /\ late' = late
      /\ configs' = configs /\ stray' = stray
  BY SameDsm
<1>2. fresh \notin DOMAIN certs
  BY DEF Certain, DsmOK, IsId
<1>3. Sighted(r)
  BY <1>1, <1>2, StaysInSight
<1> QED
  BY <1>1, <1>3 DEF Proper, Certain

LEMMA IdleJob ==
  ASSUME Certain, NEW r \in Resources, At(r, "idle")
  PROVE  job[r] = Idle /\ "made" \notin DOMAIN job[r]
<1>1. JobOK(r, job[r], known[r], fresh) /\ job[r].pc = "idle"
  BY DEF Certain, At
<1>2. job[r] = Idle
  BY <1>1 DEF JobOK
<1> QED
  BY <1>2, IdleForm

\* Giving up leaves everything as it is, if nothing was made.
LEMMA FailProper ==
  ASSUME Certain, Tracked, NEW r \in Resources, UNCHANGED <<dsm, configs, stray>>, Fail(r),
         "made" \in DOMAIN job[r] => job[r].made = {}
  PROVE  Proper(r)
<1>1. Frame(r) /\ job'[r] = Idle /\ known'[r] = known[r]
  BY FailFrame
<1>2. RecordOK(known[r], fresh)
  BY DEF Certain
<1> QED
  BY <1>1, <1>2, IdleForm, QuietProper

\* So does going on.
LEMMA GotoProper ==
  ASSUME Certain, Tracked, NEW r \in Resources, UNCHANGED <<dsm, configs, stray>>,
         NEW to, Goto(r, to), JobOK(r, to, known[r], fresh),
         "made" \in DOMAIN job[r] => job[r].made = {}
             \/ ("made" \in DOMAIN to /\ job[r].made \subseteq to.made),
         to.pc = "guard" => known[r].id \in DOMAIN certs \/ job[r].pc = "guard"
  PROVE  Proper(r)
<1>1. Frame(r) /\ job'[r] = to /\ known'[r] = known[r]
  BY GotoFrame
<1>2. RecordOK(known[r], fresh)
  BY DEF Certain
<1> QED
  BY <1>1, <1>2, QuietProper

\* With an end the record is of the only certificate that is not astray.
LEMMA EndProper ==
  ASSUME Certain, NEW r \in Resources, DsmOK', CertsGo(r), fresh' = fresh,
         late' \subseteq Resources, configs' = configs, Frame(r),
         stray \subseteq stray', \A id \in stray' : IsId(id, fresh),
         RecordOK(known'[r], fresh), job'[r] = Idle,
         \A id \in DOMAIN certs' \ stray' : certs'[id].by = r => id = known'[r].id
  PROVE  Proper(r)
<1>1. Sighted(r)
  BY DEF Sighted, Tracks
<1> QED
  BY <1>1, IdleForm DEF Proper

LEMMA StrayIds ==
  ASSUME Certain, NEW S, \A id \in S : IsId(id, fresh)
  PROVE  \A id \in stray \union S : IsId(id, fresh)
  BY DEF Certain

----------------------------------------------------------------------------
(***************************************************************************)
(* The steps: refresh and plan.                                            *)
(***************************************************************************)
LEMMA RefreshedFrame ==
  ASSUME Certain, NEW r \in Resources, Kind[r] # "binding", NEW id \in DOMAIN certs,
         Refreshed(r, id)
  PROVE  /\ Frame(r) /\ known'[r].id = id /\ known'[r] # None /\ RecordOK(known'[r], fresh)
         /\ JobOK(r, job'[r], known'[r], fresh)
<1> DEFINE seen == Parsed(id, known[r].material, known[r].tainted)
           verb == PlannedVerb(r, seen)
<1>1. IsId(id, fresh)
  BY DEF Certain, DsmOK
<1>2. seen.id = id /\ seen # None /\ RecordOK(seen, fresh)
  BY <1>1, ParsedForm
<1>3. known' = [known EXCEPT ![r] = seen] /\ job' = [job EXCEPT ![r] = FirstStep(r, verb)]
  BY DEF Refreshed
<1>4. JobOK(r, FirstStep(r, verb), seen, fresh)
  BY <1>2, FirstStepOK
<1> HIDE DEF seen, verb
<1>5. known'[r] = seen /\ job'[r] = FirstStep(r, verb) /\ Frame(r)
  BY <1>3 DEF Certain, Frame
<1> QED
  BY <1>2, <1>4, <1>5

LEMMA TargetForm ==
  ASSUME Certain, NEW r \in Resources, Kind[r] = "binding", known[Target[r]] # None
  PROVE  IsId(known[Target[r]].id, fresh)
<1>1. Target[r] \in Resources
  BY KindAssumption
<1> QED
  BY <1>1 DEF Certain, RecordOK, IsId

LEMMA CreateProper ==
  ASSUME Certain, Tracked, NEW r \in Resources, Create(r)
  PROVE  Proper(r)
<1>1. job[r] = Idle /\ "made" \notin DOMAIN job[r]
  BY IdleJob DEF Create
<1>2. known[r] = None /\ ~Destroyed(r) /\ Ready(r) /\ UNCHANGED <<dsm, configs, stray>>
  BY DEF Create
<1>3. CASE Kind[r] = "binding"
  <2> DEFINE to == [pc |-> "find", to |-> known[Target[r]].id]
  <2>1. Goto(r, to)
    BY <1>3 DEF Create
  <2>2. IsId(known[Target[r]].id, fresh)
    BY <1>2, <1>3, TargetForm DEF Ready
  <2>3. JobOK(r, to, known[r], fresh)
    BY <1>3, <2>2 DEF JobOK
  <2>4. to.pc # "guard"
    OBVIOUS
  <2> HIDE DEF to
  <2> QED
    BY <1>1, <1>2, <2>1, <2>3, <2>4, GotoProper
<1>4. CASE Kind[r] # "binding"
  <2> DEFINE to == FirstStep(r, "create")
  <2>1. Goto(r, to)
    BY <1>4 DEF Create
  <2>2. JobOK(r, to, known[r], fresh)
    BY <1>2, <1>4, FirstStepOK
  <2>3. to.pc # "guard"
    BY DEF FirstStep, Idle
  <2> HIDE DEF to
  <2> QED
    BY <1>1, <1>2, <2>1, <2>2, <2>3, GotoProper
<1> QED
  BY <1>3, <1>4

LEMMA ReadProper ==
  ASSUME Certain, Tracked, NEW r \in Resources, Read(r)
  PROVE  Proper(r)
<1>1. job[r] = Idle /\ "made" \notin DOMAIN job[r]
  BY IdleJob DEF Read
<1>2. known[r] # None /\ Kind[r] # "binding" /\ UNCHANGED <<dsm, configs, stray>>
  BY DEF Read
<1>3. CASE Installed(known[r].id) /\ Refreshed(r, known[r].id)
  <2>1. known[r].id \in DOMAIN certs
    BY <1>3 DEF Installed
  <2>2. /\ Frame(r) /\ known'[r].id = known[r].id /\ known'[r] # None
        /\ RecordOK(known'[r], fresh) /\ JobOK(r, job'[r], known'[r], fresh)
    BY <1>2, <1>3, <2>1, RefreshedFrame
  <2> QED
    BY <1>1, <1>2, <2>1, <2>2, QuietProper
<1>4. CASE Kind[r] = "issued" /\ Goto(r, [pc |-> "readBySubject"])
  <2> DEFINE to == [pc |-> "readBySubject"]
  <2>1. JobOK(r, to, known[r], fresh)
    BY <1>2, <1>4 DEF JobOK
  <2>2. Goto(r, to) /\ to.pc # "guard"
    BY <1>4
  <2> HIDE DEF to
  <2> QED
    BY <1>1, <1>2, <2>1, <2>2, GotoProper
<1>5. CASE ~Installed(known[r].id) /\ Kind[r] # "issued" /\ Forget(r)
  <2>1. Frame(r) /\ job'[r] = Idle /\ known'[r] = None
    BY <1>5, ForgetFrame
  <2>2. /\ DsmOK' /\ CertsGo(r) /\ certs' = certs /\ fresh' = fresh /\ late' = late
        /\ configs' = configs /\ stray' = stray
    BY <1>2, SameDsm
  <2>3. ASSUME NEW id \in DOMAIN certs \ stray, certs[id].by = r PROVE FALSE
    <3>1. Tracks(r, id, DOMAIN certs, job[r], known[r])
      BY <2>3 DEF Tracked
    <3> QED
      BY <1>1, <1>5, <3>1 DEF Tracks, Installed
  <2>4. \A id \in DOMAIN certs' \ stray' : certs'[id].by = r => id = known'[r].id
    BY <2>2, <2>3
  <2> QED
    BY <2>1, <2>2, <2>4, NoneForm, EndProper DEF Certain
<1>6. CASE Fail(r)
  BY <1>1, <1>2, <1>6, FailProper
<1> QED
  BY <1>3, <1>4, <1>5, <1>6 DEF Read

LEMMA ReadBySubjectProper ==
  ASSUME Certain, Tracked, NEW r \in Resources, ReadBySubject(r)
  PROVE  Proper(r)
<1> DEFINE own == {id \in DOMAIN certs : certs[id].by = r}
<1>1. JobOK(r, job[r], known[r], fresh) /\ job[r].pc = "readBySubject"
  BY DEF Certain, At, ReadBySubject
<1>2. Kind[r] = "issued" /\ known[r] # None /\ "made" \notin DOMAIN job[r]
  BY <1>1 DEF JobOK, Idle
<1>3. UNCHANGED <<dsm, configs>>
  BY DEF ReadBySubject
<1>4. /\ DsmOK' /\ CertsGo(r) /\ certs' = certs /\ fresh' = fresh /\ late' = late
      /\ configs' = configs
  BY <1>3, SameDsm
<1>5. ASSUME NEW i \in Named(Subject[r]), Refreshed(r, i), stray' = stray \union (own \ {i})
      PROVE  Proper(r)
  <2>1. i \in DOMAIN certs
    BY DEF Named
  <2>2. /\ Frame(r) /\ known'[r].id = i /\ known'[r] # None
        /\ RecordOK(known'[r], fresh) /\ JobOK(r, job'[r], known'[r], fresh)
    BY <1>2, <1>5, <2>1, RefreshedFrame
  <2>3. \A id \in own \ {i} : IsId(id, fresh)
    BY DEF Certain, DsmOK
  <2>4. stray \subseteq stray' /\ \A id \in stray' : IsId(id, fresh)
    BY <1>5, <2>3, StrayIds
  <2>5. Sighted(r)
    BY <1>4, <1>5, <2>2 DEF Sighted, Tracks
  <2> QED
    BY <1>4, <2>2, <2>4, <2>5 DEF Proper, Certain
<1>6. CASE Named(Subject[r]) = {} /\ Forget(r) /\ UNCHANGED stray
  <2>1. Frame(r) /\ job'[r] = Idle /\ known'[r] = None
    BY <1>6, ForgetFrame
  <2>2. ASSUME NEW id \in DOMAIN certs, certs[id].by = r PROVE FALSE
    <3>1. CertOK(certs[id])
      BY DEF Certain, DsmOK
    <3>2. id \in Named(Subject[r])
      BY <2>2, <3>1 DEF CertOK, Named
    <3> QED
      BY <1>6, <3>2
  <2>3. \A id \in DOMAIN certs' \ stray' : certs'[id].by = r => id = known'[r].id
    BY <1>4, <2>2
  <2> QED
    BY <1>4, <1>6, <2>1, <2>3, NoneForm, EndProper DEF Certain
<1>7. CASE Fail(r) /\ UNCHANGED stray
  BY <1>2, <1>3, <1>7, FailProper
<1> QED
  BY <1>5, <1>6, <1>7 DEF ReadBySubject

----------------------------------------------------------------------------
(***************************************************************************)
(* The steps: import.                                                      *)
(***************************************************************************)
\* A step after which the operation has made one more, or all it has made is astray.
LEMMA MadeProper ==
  ASSUME Certain, Tracked, NEW r \in Resources, CertsGo(r), DsmOK', configs' = configs,
         fresh' = fresh + 1, late' = late, Frame(r), known' = known, known[r] = None,
         NEW made, \A id \in made : IsId(id, fresh'),
         job[r].made \union {fresh} \subseteq made, "made" \in DOMAIN job[r],
         \/ /\ stray' = stray /\ JobOK(r, job'[r], known[r], fresh')
            /\ "made" \in DOMAIN job'[r] /\ made \subseteq job'[r].made
         \/ stray' = stray \union made /\ job'[r] = Idle
  PROVE  Proper(r)
<1>1. fresh \in Nat /\ fresh' \in Nat /\ fresh <= fresh'
  BY DEF CertsGo, Certain, DsmOK
<1>2. stray \subseteq stray' /\ \A id \in stray' : IsId(id, fresh')
  <2>1. \A id \in stray : IsId(id, fresh')
    BY <1>1, MoreIds DEF Certain
  <2> QED
    BY <2>1
<1>3. RecordOK(known'[r], fresh')
  BY <1>1, RecordStays DEF Certain
<1>4. JobOK(r, job'[r], known'[r], fresh')
  BY IdleForm
<1>5. Sighted(r)
  <2> SUFFICES ASSUME NEW id \in DOMAIN certs' \ stray', certs'[id].by = r
               PROVE  Tracks(r, id, DOMAIN certs', job'[r], known'[r])
    BY DEF Sighted
  <2>1. id = fresh \/ (id \in DOMAIN certs \ stray /\ certs[id].by = r)
    BY <1>2 DEF CertsGo
  <2>2. id \in made
    BY <2>1, OwnMade
  <2> QED
    BY <2>2 DEF Tracks
<1> QED
  BY <1>2, <1>3, <1>4, <1>5 DEF Proper, Certain

LEMMA ImportNewProper ==
  ASSUME Certain, Tracked, NEW r \in Resources, ImportNew(r)
  PROVE  Proper(r)
<1> DEFINE made == job[r].made \union {fresh}
<1>1. JobOK(r, job[r], known[r], fresh) /\ job[r].pc = "import" /\ job[r].verb = "create"
  BY DEF Certain, At, ImportNew
<1>2. /\ Kind[r] = "imported" /\ Making(job[r], known[r], fresh)
      /\ DOMAIN job[r] = {"pc", "verb", "tries", "made"}
  BY <1>1 DEF JobOK, Idle
<1>3. "made" \in DOMAIN job[r] /\ known[r] = None /\ \A id \in job[r].made : IsId(id, fresh)
  BY <1>2 DEF Making
<1>4. Install(r) /\ default' \in {default, fresh} /\ configs' = configs
  BY DEF ImportNew
<1>5. CertsGo(r) /\ DsmOK' /\ fresh' = fresh + 1 /\ IsId(fresh, fresh') /\ late' = late
  BY <1>2, <1>4, InstallGoes
<1>6. \A id \in made : IsId(id, fresh')
  <2>1. fresh \in Nat /\ fresh' \in Nat /\ fresh <= fresh'
    BY <1>5 DEF CertsGo, Certain, DsmOK
  <2> QED
    BY <1>3, <1>5, <2>1, MoreIds
<1>7. ASSUME NEW id \in ToldId(fresh), stray' = stray,
             Goto(r, [pc |-> "settle", verb |-> "create", id |-> id, made |-> made])
      PROVE  Proper(r)
  <2> DEFINE to == [pc |-> "settle", verb |-> "create", id |-> id, made |-> made]
  <2>1. Making(to, known[r], fresh')
    BY <1>3, <1>6 DEF Making
  <2>2. to.id \in to.made \union {NoId} /\ "made" \in DOMAIN to /\ to.made = made
    BY DEF ToldId
  <2>3. JobOK(r, to, known[r], fresh')
    BY <1>2, <2>1, <2>2 DEF JobOK
  <2>4. Frame(r) /\ job'[r] = to /\ known' = known
    BY <1>7, GotoFrame
  <2> HIDE DEF to, made
  <2>5. job[r].made \union {fresh} \subseteq made
    BY DEF made
  <2> QED
    BY <1>3, <1>4, <1>5, <1>6, <1>7, <2>2, <2>3, <2>4, <2>5, MadeProper
<1>8. ASSUME Again(r, made), stray' = stray PROVE Proper(r)
  <2> DEFINE to == [job[r] EXCEPT !.tries = 1, !.made = made]
  <2>1. to.pc = "import" /\ to.verb = "create" /\ to.made = made
        /\ DOMAIN to = {"pc", "verb", "tries", "made"}
    BY <1>1, <1>2
  <2>2. Goto(r, to)
    BY <1>8 DEF Again
  <2>3. Frame(r) /\ job'[r] = to /\ known' = known
    BY <2>2, GotoFrame
  <2> HIDE DEF to
  <2>4. Making(to, known[r], fresh')
    BY <1>3, <1>6, <2>1 DEF Making
  <2>5. JobOK(r, to, known[r], fresh') /\ "made" \in DOMAIN to
    BY <1>2, <2>1, <2>4 DEF JobOK
  <2> HIDE DEF made
  <2>6. job[r].made \union {fresh} \subseteq made
    BY DEF made
  <2> QED
    BY <1>3, <1>4, <1>5, <1>6, <1>8, <2>1, <2>3, <2>5, <2>6, MadeProper
<1>9. ASSUME LostForGood(r), stray' = stray \union made PROVE Proper(r)
  <2>1. Frame(r) /\ job'[r] = Idle /\ known' = known
    BY <1>9, FailFrame DEF LostForGood
  <2> HIDE DEF made
  <2>2. job[r].made \union {fresh} \subseteq made
    BY DEF made
  <2> QED
    BY <1>3, <1>4, <1>5, <1>6, <1>9, <2>1, <2>2, MadeProper
<1> QED
  BY <1>7, <1>8, <1>9 DEF ImportNew

\* A step of an operation that made nothing, on a certificate that it may change or remove.
LEMMA EditProper ==
  ASSUME Certain, Tracked, NEW r \in Resources, CertsGo(r), DsmOK', configs' = configs,
         stray' = stray, fresh' = fresh, late' \subseteq Resources, Frame(r),
         known'[r] = known[r],
         "made" \in DOMAIN job[r] => job[r].made = {},
         JobOK(r, job'[r], known[r], fresh), job'[r].pc # "guard"
  PROVE  Proper(r)
<1>1. fresh \notin DOMAIN certs'
  BY DEF DsmOK, IsId
<1>2. Sighted(r)
  BY <1>1, StaysInSight
<1> QED
  BY <1>2 DEF Proper, Certain

\* Another attempt with what was made before.
LEMMA AgainPlainFrame ==
  ASSUME Certain, NEW r \in Resources, AgainPlain(r), "tries" \in DOMAIN job[r]
  PROVE  /\ Frame(r) /\ known' = known
         /\ DOMAIN job'[r] = DOMAIN job[r]
         /\ \A f \in DOMAIN job[r] : f # "tries" => job'[r][f] = job[r][f]
<1>1. Goto(r, [job[r] EXCEPT !.tries = 1])
  BY DEF AgainPlain
<1>2. Frame(r) /\ known' = known /\ job'[r] = [job[r] EXCEPT !.tries = 1]
  BY <1>1, GotoFrame
<1> QED
  BY <1>2

LEMMA LostFrame ==
  ASSUME Certain, NEW r \in Resources, LostForGood(r)
  PROVE  Frame(r) /\ job'[r] = Idle /\ known' = known
  BY FailFrame DEF LostForGood

LEMMA IdlePc == Idle.pc = "idle"
  BY DEF Idle

LEMMA RotateProper ==
  ASSUME Certain, Tracked, NEW r \in Resources, Rotate(r)
  PROVE  Proper(r)
<1> DEFINE id == known[r].id
<1>1. JobOK(r, job[r], known[r], fresh) /\ job[r].pc = "import" /\ job[r].verb = "update"
  BY DEF Certain, At, Rotate
<1>2. /\ Kind[r] = "imported" /\ job[r].made = {} /\ known[r] # None
      /\ DOMAIN job[r] = {"pc", "verb", "tries", "made"}
  BY <1>1 DEF JobOK, Idle
<1>3. served' = served /\ fresh' = fresh /\ late' = late /\ configs' = configs /\ stray' = stray
  BY DEF Rotate
<1>4. ASSUME Installed(id),
             certs' = [certs EXCEPT ![id].desc = Want(r).desc, ![id].material = Want(r).material],
             default' = IF Want(r).default THEN id ELSE default,
             \/ Goto(r, [pc |-> "settle", verb |-> "update", id |-> id, made |-> {}])
             \/ AgainPlain(r)
             \/ LostForGood(r)
      PROVE  Proper(r)
  <2> DEFINE c == [certs[id] EXCEPT !.desc = Want(r).desc, !.material = Want(r).material]
  <2>1. id \in DOMAIN certs /\ CertOK(certs[id])
    BY <1>4 DEF Installed, Certain, DsmOK
  <2>2. CertOK(c) /\ c.by = certs[id].by
    BY <2>1 DEF CertOK
  <2>3. certs' = [certs EXCEPT ![id] = c]
    BY <1>4, <2>1
  <2> HIDE DEF c
  <2>4. DsmOK' /\ CertsGo(r)
    BY <1>3, <1>4, <2>1, <2>2, <2>3, EditGoes
  <2>5. CASE Goto(r, [pc |-> "settle", verb |-> "update", id |-> id, made |-> {}])
    <3> DEFINE to == [pc |-> "settle", verb |-> "update", id |-> id, made |-> {}]
    <3>1. JobOK(r, to, known[r], fresh) /\ to.pc # "guard"
      BY <1>2 DEF JobOK
    <3>2. Frame(r) /\ job'[r] = to /\ known' = known
      BY <2>5, GotoFrame
    <3> HIDE DEF to
    <3> QED
      BY <1>2, <1>3, <2>4, <3>1, <3>2, EditProper DEF Certain
  <2>6. CASE AgainPlain(r)
    <3>1. /\ Frame(r) /\ known' = known
          /\ DOMAIN job'[r] = DOMAIN job[r]
          /\ \A f \in DOMAIN job[r] : f # "tries" => job'[r][f] = job[r][f]
      BY <1>2, <2>6, AgainPlainFrame
    <3>2. job'[r].pc = "import" /\ job'[r].verb = "update" /\ job'[r].made = {}
      BY <1>1, <1>2, <3>1
    <3>3. JobOK(r, job'[r], known[r], fresh) /\ job'[r].pc # "guard"
      BY <1>2, <3>1, <3>2 DEF JobOK
    <3> QED
      BY <1>2, <1>3, <2>4, <3>1, <3>3, EditProper DEF Certain
  <2>7. CASE LostForGood(r)
    <3>1. Frame(r) /\ job'[r] = Idle /\ known' = known
      BY <2>7, LostFrame
    <3> QED
      BY <1>2, <1>3, <2>4, <3>1, IdleForm, EditProper DEF Certain
  <2> QED
    BY <1>4, <2>5, <2>6, <2>7
<1>5. ASSUME Fail(r), UNCHANGED <<certs, default>> PROVE Proper(r)
  <2>1. UNCHANGED <<dsm, configs, stray>>
    BY <1>3, <1>5 DEF dsm
  <2> QED
    BY <1>2, <1>5, <2>1, FailProper
<1> QED
  BY <1>4, <1>5 DEF Rotate

\* Whatever it settles for, the certificate it had and those it has made are recorded or
\* astray.
LEMMA SettledProper ==
  ASSUME Certain, Tracked, NEW r \in Resources, At(r, "settle"), UNCHANGED <<dsm, configs>>,
         NEW listed, listed \subseteq DOMAIN certs, NEW id \in Settled(r, listed), Record(r, id),
         NEW gone, stray' = stray \union (gone \ {NoId, id}),
         job[r].made \subseteq gone, gone \subseteq job[r].made \union {job[r].id},
         job[r].id \in listed \/ job[r].id \in gone \/ ~Installed(job[r].id)
  PROVE  Proper(r)
<1>1. JobOK(r, job[r], known[r], fresh) /\ job[r].pc = "settle"
  BY DEF Certain, At
<1>2. /\ Kind[r] = "imported" /\ "made" \in DOMAIN job[r]
      /\ \/ job[r].verb = "create" /\ Making(job[r], known[r], fresh)
            /\ job[r].id \in job[r].made \union {NoId}
         \/ job[r].verb = "update" /\ job[r].made = {} /\ known[r] # None
            /\ job[r].id = known[r].id
  BY <1>1 DEF JobOK, Idle
<1>3. /\ DsmOK' /\ CertsGo(r) /\ certs' = certs /\ fresh' = fresh /\ late' = late
      /\ configs' = configs
  BY SameDsm
<1>4. id \in DOMAIN certs /\ IsId(id, fresh)
  <2>1. id \in listed
    BY DEF Settled, Described
  <2> QED
    BY <2>1 DEF Certain, DsmOK
<1>5. /\ Frame(r) /\ job'[r] = Idle /\ known'[r].id = id /\ RecordOK(known'[r], fresh)
  BY <1>4, RecordFrame
<1>6. \A i \in gone \ {NoId, id} : IsId(i, fresh)
  <2>1. \A i \in job[r].made : IsId(i, fresh)
    BY <1>2 DEF Making
  <2>2. job[r].id # NoId => IsId(job[r].id, fresh)
    BY <1>2, <2>1 DEF Certain, RecordOK, IsId
  <2> QED
    BY <2>1, <2>2
<1>7. stray \subseteq stray' /\ \A i \in stray' : IsId(i, fresh)
  BY <1>6, StrayIds
<1>8. ASSUME NEW i \in DOMAIN certs' \ stray', certs'[i].by = r PROVE i = known'[r].id
  <2>1. i \in DOMAIN certs \ stray /\ certs[i].by = r /\ i # NoId
    BY <1>3, <1>8, NoneForm
  <2>2. Tracks(r, i, DOMAIN certs, job[r], known[r])
    BY <2>1 DEF Tracked
  <2>3. known[r].id = i \/ i \in job[r].made
    BY <1>2, <2>2 DEF Tracks
  <2>4. CASE i \in job[r].made
    BY <1>5, <1>8, <2>1, <2>4
  <2>5. CASE known[r].id = i
    <3>1. known[r] # None /\ job[r].id = i /\ Installed(job[r].id)
      BY <1>2, <2>1, <2>5, NoneForm DEF Making, Installed
    <3>2. i \in gone \/ i \in listed
      BY <3>1
    <3>3. CASE i \in listed
      BY <1>5, <3>1, <3>3 DEF Settled
    <3>4. CASE i \in gone
      BY <1>5, <1>8, <2>1, <3>4
    <3> QED
      BY <3>2, <3>3, <3>4
  <2> QED
    BY <2>3, <2>4, <2>5
<1> QED
  BY <1>3, <1>5, <1>7, <1>8, EndProper DEF Certain

\* The operation gives up, and all that it has made is astray.
LEMMA MadeAstray ==
  ASSUME Certain, Tracked, NEW r \in Resources, DsmOK', CertsGo(r), fresh' = fresh,
         late' = late, configs' = configs, Fail(r),
         "made" \in DOMAIN job[r], \A id \in job[r].made : IsId(id, fresh),
         stray' = stray \union job[r].made
  PROVE  Proper(r)
<1>1. Frame(r) /\ job'[r] = Idle /\ known'[r] = known[r]
  BY FailFrame
<1>2. stray \subseteq stray' /\ \A id \in stray' : IsId(id, fresh)
  BY StrayIds
<1>3. fresh \notin DOMAIN certs'
  BY DEF DsmOK, IsId
<1>4. Sighted(r)
  BY <1>1, <1>2, <1>3, IdlePc, StaysInSight
<1> QED
  BY <1>1, <1>2, <1>4, IdleForm DEF Proper, Certain

LEMMA AllAstray ==
  ASSUME NEW r, NEW made, \A id \in made : IsId(id, fresh)
  PROVE  made \ {NoId} = made
  BY DEF IsId

LEMMA SettleProper ==
  ASSUME Certain, Tracked, NEW r \in Resources, Settle(r)
  PROVE  Proper(r)
<1>0. At(r, "settle") /\ UNCHANGED <<dsm, configs>>
  BY DEF Settle
<1>1. JobOK(r, job[r], known[r], fresh) /\ job[r].pc = "settle"
  BY <1>0 DEF Certain, At
<1>2. "made" \in DOMAIN job[r] /\ \A id \in job[r].made : IsId(id, fresh)
  BY <1>1 DEF JobOK, Idle, Making
<1>3. ASSUME NEW id \in Settled(r, DOMAIN certs), Record(r, id), Stray(r, id) PROVE Proper(r)
  <2>1. stray' = stray \union (job[r].made \ {NoId, id})
    BY <1>2, <1>3 DEF Stray, IsId
  <2> QED
    BY <1>0, <1>3, <2>1, SettledProper DEF Installed
<1>4. ASSUME NEW id \in Settled(r, DOMAIN certs \ {job[r].id}), Record(r, id),
             stray' = stray \union ((job[r].made \union {job[r].id}) \ {NoId, id})
      PROVE  Proper(r)
  <2> DEFINE gone == job[r].made \union {job[r].id}
             listed == DOMAIN certs \ {job[r].id}
  <2>1. /\ job[r].made \subseteq gone /\ gone \subseteq job[r].made \union {job[r].id}
        /\ job[r].id \in gone /\ listed \subseteq DOMAIN certs
    OBVIOUS
  <2>2. stray' = stray \union (gone \ {NoId, id}) /\ id \in Settled(r, listed)
    BY <1>4
  <2> HIDE DEF gone, listed
  <2> QED
    BY <1>0, <1>4, <2>1, <2>2, SettledProper
<1>5. ASSUME Fail(r), Stray(r, NoId) PROVE Proper(r)
  <2>1. stray' = stray \union job[r].made
    BY <1>2, <1>5, AllAstray DEF Stray
  <2>2. DsmOK' /\ CertsGo(r) /\ fresh' = fresh /\ late' = late /\ configs' = configs
    BY <1>0, SameDsm
  <2> QED
    BY <1>2, <1>5, <2>1, <2>2, MadeAstray
<1> QED
  BY <1>3, <1>4, <1>5 DEF Settle

----------------------------------------------------------------------------
(***************************************************************************)
(* The steps: issue, and claim the default.                                *)
(***************************************************************************)
LEMMA IssueProper ==
  ASSUME Certain, Tracked, NEW r \in Resources, Issue(r)
  PROVE  Proper(r)
<1> DEFINE made == job[r].made \union {fresh}
<1>1. JobOK(r, job[r], known[r], fresh) /\ job[r].pc = "issue"
  BY DEF Certain, At, Issue
<1>2. /\ Kind[r] = "issued" /\ Making(job[r], known[r], fresh)
      /\ DOMAIN job[r] = {"pc", "verb", "tries", "made"}
  BY <1>1 DEF JobOK, Idle
<1>3. "made" \in DOMAIN job[r] /\ known[r] = None /\ \A id \in job[r].made : IsId(id, fresh)
  BY <1>2 DEF Making
<1>4. Install(r) /\ default' \in {default, fresh} /\ configs' = configs
  BY DEF Issue
<1>5. CertsGo(r) /\ DsmOK' /\ fresh' = fresh + 1 /\ IsId(fresh, fresh') /\ late' = late
  BY <1>2, <1>4, InstallGoes
<1>6. \A id \in made : IsId(id, fresh')
  <2>1. fresh \in Nat /\ fresh' \in Nat /\ fresh <= fresh'
    BY <1>5 DEF CertsGo, Certain, DsmOK
  <2> QED
    BY <1>3, <1>5, <2>1, MoreIds
<1>7. ASSUME stray' = stray, Goto(r, [pc |-> "findIssued", verb |-> "create", made |-> made])
      PROVE  Proper(r)
  <2> DEFINE to == [pc |-> "findIssued", verb |-> "create", made |-> made]
  <2>1. Making(to, known[r], fresh')
    BY <1>3, <1>6 DEF Making
  <2>2. JobOK(r, to, known[r], fresh') /\ "made" \in DOMAIN to /\ to.made = made
    BY <1>2, <2>1 DEF JobOK
  <2>3. Frame(r) /\ job'[r] = to /\ known' = known
    BY <1>7, GotoFrame
  <2> HIDE DEF to, made
  <2>4. job[r].made \union {fresh} \subseteq made
    BY DEF made
  <2> QED
    BY <1>3, <1>4, <1>5, <1>6, <1>7, <2>2, <2>3, <2>4, MadeProper
<1>8. ASSUME Again(r, made), stray' = stray PROVE Proper(r)
  <2> DEFINE to == [job[r] EXCEPT !.tries = 1, !.made = made]
  <2>1. to.pc = "issue" /\ to.made = made /\ DOMAIN to = {"pc", "verb", "tries", "made"}
    BY <1>1, <1>2
  <2>2. Goto(r, to)
    BY <1>8 DEF Again
  <2>3. Frame(r) /\ job'[r] = to /\ known' = known
    BY <2>2, GotoFrame
  <2> HIDE DEF to
  <2>4. Making(to, known[r], fresh')
    BY <1>3, <1>6, <2>1 DEF Making
  <2>5. JobOK(r, to, known[r], fresh') /\ "made" \in DOMAIN to
    BY <1>2, <2>1, <2>4 DEF JobOK
  <2> HIDE DEF made
  <2>6. job[r].made \union {fresh} \subseteq made
    BY DEF made
  <2> QED
    BY <1>3, <1>4, <1>5, <1>6, <1>8, <2>1, <2>3, <2>5, <2>6, MadeProper
<1>9. ASSUME LostForGood(r), stray' = stray \union made PROVE Proper(r)
  <2>1. Frame(r) /\ job'[r] = Idle /\ known' = known
    BY <1>9, LostFrame
  <2> HIDE DEF made
  <2>2. job[r].made \union {fresh} \subseteq made
    BY DEF made
  <2> QED
    BY <1>3, <1>4, <1>5, <1>6, <1>9, <2>1, <2>2, MadeProper
<1> QED
  BY <1>7, <1>8, <1>9 DEF Issue

\* The operation ends with one certificate, and the others it has made are astray.
LEMMA ChosenProper ==
  ASSUME Certain, Tracked, NEW r \in Resources, UNCHANGED <<dsm, configs>>,
         "made" \in DOMAIN job[r], Making(job[r], known[r], fresh),
         Frame(r), job'[r] = Idle, RecordOK(known'[r], fresh),
         Stray(r, known'[r].id)
  PROVE  Proper(r)
<1>1. /\ DsmOK' /\ CertsGo(r) /\ certs' = certs /\ fresh' = fresh /\ late' = late
      /\ configs' = configs
  BY SameDsm
<1>2. stray' = stray \union (job[r].made \ {known'[r].id})
  BY DEF Stray
<1>3. \A i \in job[r].made \ {known'[r].id} : IsId(i, fresh)
  BY DEF Making
<1>4. stray \subseteq stray' /\ \A i \in stray' : IsId(i, fresh)
  BY <1>2, <1>3, StrayIds
<1>5. ASSUME NEW i \in DOMAIN certs' \ stray', certs'[i].by = r PROVE i = known'[r].id
  <2>1. i \in DOMAIN certs \ stray /\ certs[i].by = r
    BY <1>1, <1>2, <1>5
  <2>2. i \in job[r].made
    BY <2>1, OwnMade DEF Making
  <2> QED
    BY <1>2, <1>5, <2>2
<1> QED
  BY <1>1, <1>4, <1>5, EndProper DEF Certain

LEMMA IssuedListed ==
  ASSUME NEW r, NEW id \in Issued(r)
  PROVE  id \in DOMAIN certs
  BY DEF Issued, Described, Named

LEMMA NoneIssued ==
  ASSUME NEW r, Issued(r) = {}
  PROVE  Named(Subject[r]) = {}
<1>1. Cardinality({}) # 1
  BY FS_EmptySet
<1> QED
  BY <1>1 DEF Issued

LEMMA FindIssuedProper ==
  ASSUME Certain, Tracked, NEW r \in Resources, FindIssued(r)
  PROVE  Proper(r)
<1>1. JobOK(r, job[r], known[r], fresh) /\ job[r].pc = "findIssued"
  BY DEF Certain, At, FindIssued
<1>2. Kind[r] = "issued" /\ Making(job[r], known[r], fresh) /\ "made" \in DOMAIN job[r]
  BY <1>1 DEF JobOK, Idle
<1>3. known[r] = None /\ \A id \in job[r].made : IsId(id, fresh)
  BY <1>2 DEF Making
<1>4. UNCHANGED <<dsm, configs>>
  BY DEF FindIssued
<1>5. DsmOK' /\ CertsGo(r) /\ certs' = certs /\ fresh' = fresh /\ late' = late
      /\ configs' = configs
  BY <1>4, SameDsm
<1>6. ASSUME NEW id \in Issued(r), NEW seen, seen = Parsed(id, 0, certs[id].desc # Want(r).desc),
             Goto(r, [pc |-> "claim", verb |-> "create", tries |-> 0, id |-> id,
                      made |-> job[r].made, seen |-> seen]),
             UNCHANGED stray
      PROVE  Proper(r)
  <2> DEFINE to == [pc |-> "claim", verb |-> "create", tries |-> 0, id |-> id,
                    made |-> job[r].made, seen |-> seen]
  <2>1. IsId(id, fresh)
    BY IssuedListed DEF Certain, DsmOK
  <2>2. seen.id = id
    BY <1>6 DEF Parsed
  <2>3. Making(to, known[r], fresh)
    BY <1>3 DEF Making
  <2>4. JobOK(r, to, known[r], fresh)
    BY <1>2, <2>1, <2>2, <2>3 DEF JobOK
  <2>5. "made" \in DOMAIN to /\ job[r].made \subseteq to.made /\ to.pc # "guard"
    OBVIOUS
  <2>6. UNCHANGED <<dsm, configs, stray>> /\ Goto(r, to)
    BY <1>4, <1>6
  <2> HIDE DEF to
  <2> QED
    BY <2>4, <2>5, <2>6, GotoProper
<1>7. ASSUME NEW id \in Issued(r), Record(r, id), Stray(r, id) PROVE Proper(r)
  <2>1. IsId(id, fresh)
    BY IssuedListed DEF Certain, DsmOK
  <2>2. Frame(r) /\ job'[r] = Idle /\ known'[r].id = id /\ RecordOK(known'[r], fresh)
    BY <1>7, <2>1, RecordFrame
  <2> QED
    BY <1>2, <1>4, <1>7, <2>2, ChosenProper
<1>8. CASE Issued(r) = {} /\ Fail(r) /\ UNCHANGED stray
  <2>1. Frame(r) /\ job'[r] = Idle /\ known'[r] = known[r]
    BY <1>8, FailFrame
  <2>2. ASSUME NEW id \in DOMAIN certs, certs[id].by = r PROVE FALSE
    <3>1. CertOK(certs[id])
      BY DEF Certain, DsmOK
    <3>2. id \in Named(Subject[r])
      BY <2>2, <3>1 DEF CertOK, Named
    <3> QED
      BY <1>8, <3>2, NoneIssued
  <2>3. \A id \in DOMAIN certs' \ stray' : certs'[id].by = r => id = known'[r].id
    BY <1>5, <2>2
  <2> QED
    BY <1>5, <1>8, <2>1, <2>3, EndProper DEF Certain
<1>9. CASE Fail(r) /\ Stray(r, NoId)
  <2>1. stray' = stray \union job[r].made
    BY <1>3, <1>9, AllAstray DEF Stray
  <2> QED
    BY <1>2, <1>3, <1>5, <1>9, <2>1, MadeAstray
<1> QED
  BY <1>6, <1>7, <1>8, <1>9 DEF FindIssued

LEMMA ClaimForm ==
  ASSUME Certain, NEW r \in Resources, job[r].pc \in {"claim", "claimed"}
  PROVE  /\ Kind[r] = "issued" /\ Making(job[r], known[r], fresh)
         /\ DOMAIN job[r] = {"pc", "verb", "tries", "id", "made", "seen"}
         /\ known[r] = None /\ (\A id \in job[r].made : IsId(id, fresh))
         /\ IsId(job[r].id, fresh) /\ job[r].seen.id = job[r].id
<1>1. JobOK(r, job[r], known[r], fresh)
  BY DEF Certain
<1> QED
  BY <1>1 DEF JobOK, Idle, Making

\* The operation goes on with the claim.
LEMMA ClaimGoes ==
  ASSUME Certain, Tracked, NEW r \in Resources, DsmOK', CertsGo(r), fresh' = fresh,
         late' = late, configs' = configs, stray' = stray, job[r].pc = "claim",
         Frame(r), known' = known, DOMAIN job'[r] = DOMAIN job[r],
         job'[r].pc \in {"claim", "claimed"}, job'[r].id = job[r].id,
         job'[r].seen = job[r].seen, job'[r].made = job[r].made
  PROVE  Proper(r)
<1>1. /\ Kind[r] = "issued" /\ Making(job[r], known[r], fresh)
      /\ DOMAIN job[r] = {"pc", "verb", "tries", "id", "made", "seen"}
      /\ known[r] = None /\ (\A id \in job[r].made : IsId(id, fresh))
      /\ IsId(job[r].id, fresh) /\ job[r].seen.id = job[r].id
  BY ClaimForm
<1>2. Making(job'[r], known[r], fresh)
  BY <1>1 DEF Making
<1>3. JobOK(r, job'[r], known[r], fresh)
  BY <1>1, <1>2 DEF JobOK
<1>4. fresh \notin DOMAIN certs'
  BY DEF DsmOK, IsId
<1>5. Sighted(r)
  BY <1>1, <1>4, StaysInSight
<1>6. RecordOK(known[r], fresh)
  BY DEF Certain
<1> QED
  BY <1>3, <1>5, <1>6 DEF Proper, Certain

LEMMA ClaimProper ==
  ASSUME Certain, Tracked, NEW r \in Resources, Claim(r)
  PROVE  Proper(r)
<1> DEFINE id == job[r].id
<1>1. job[r].pc = "claim"
  BY DEF Claim, At
<1>2. /\ Kind[r] = "issued" /\ Making(job[r], known[r], fresh)
      /\ DOMAIN job[r] = {"pc", "verb", "tries", "id", "made", "seen"}
      /\ known[r] = None /\ (\A i \in job[r].made : IsId(i, fresh))
  BY <1>1, ClaimForm
<1>3. /\ certs' = certs /\ served' = served /\ fresh' = fresh /\ late' = late
      /\ configs' = configs
  BY DEF Claim
<1>4. default' = default \/ Installed(default')
  <2>1. CASE Installed(id)
    BY <2>1 DEF Claim
  <2>2. CASE ~Installed(id)
    BY <2>2 DEF Claim
  <2> QED
    BY <2>1, <2>2
<1>5. DsmOK' /\ CertsGo(r)
  BY <1>3, <1>4, SameCerts
<1>6. ASSUME Goto(r, [job[r] EXCEPT !.pc = "claimed"]), stray' = stray PROVE Proper(r)
  <2> DEFINE to == [job[r] EXCEPT !.pc = "claimed"]
  <2>1. /\ DOMAIN to = DOMAIN job[r] /\ to.pc = "claimed" /\ to.id = job[r].id
        /\ to.seen = job[r].seen /\ to.made = job[r].made
    BY <1>2
  <2>2. Frame(r) /\ job'[r] = to /\ known' = known
    BY <1>6, GotoFrame
  <2> HIDE DEF to
  <2> QED
    BY <1>1, <1>3, <1>5, <1>6, <2>1, <2>2, ClaimGoes
<1>7. ASSUME AgainPlain(r), stray' = stray PROVE Proper(r)
  <2>1. /\ Frame(r) /\ known' = known /\ DOMAIN job'[r] = DOMAIN job[r]
        /\ \A f \in DOMAIN job[r] : f # "tries" => job'[r][f] = job[r][f]
    BY <1>2, <1>7, AgainPlainFrame
  <2>2. /\ job'[r].pc = "claim" /\ job'[r].id = job[r].id
        /\ job'[r].seen = job[r].seen /\ job'[r].made = job[r].made
    BY <1>1, <1>2, <2>1
  <2> QED
    BY <1>1, <1>3, <1>5, <1>7, <2>1, <2>2, ClaimGoes
<1>8. ASSUME Fail(r), Stray(r, NoId) PROVE Proper(r)
  <2>1. stray' = stray \union job[r].made
    BY <1>2, <1>8, AllAstray DEF Stray
  <2> QED
    BY <1>2, <1>3, <1>5, <1>8, <2>1, MadeAstray
<1> QED
  BY <1>6, <1>7, <1>8 DEF Claim, LostForGood

LEMMA ClaimedProper ==
  ASSUME Certain, Tracked, NEW r \in Resources, Claimed(r)
  PROVE  Proper(r)
<1> DEFINE id == job[r].id
<1>1. job[r].pc = "claimed" /\ UNCHANGED <<dsm, configs>> /\ Stray(r, id)
  BY DEF Claimed, At
<1>2. /\ Making(job[r], known[r], fresh) /\ "made" \in DOMAIN job[r]
      /\ IsId(id, fresh) /\ job[r].seen.id = id
  BY <1>1, ClaimForm
<1>3. CASE Record(r, id)
  <2>1. Frame(r) /\ job'[r] = Idle /\ known'[r].id = id /\ RecordOK(known'[r], fresh)
    BY <1>2, <1>3, RecordFrame
  <2> QED
    BY <1>1, <1>2, <2>1, ChosenProper
<1>4. CASE /\ known' = [known EXCEPT ![r] = job[r].seen]
           /\ job' = [job EXCEPT ![r] = Idle]
  <2>1. Frame(r) /\ job'[r] = Idle /\ known'[r] = job[r].seen
    BY <1>4 DEF Frame, Certain
  <2>2. RecordOK(known'[r], fresh) /\ known'[r].id = id
    BY <1>2, <2>1 DEF RecordOK, IsId
  <2> QED
    BY <1>1, <1>2, <2>1, <2>2, ChosenProper
<1> QED
  BY <1>3, <1>4 DEF Claimed

----------------------------------------------------------------------------
(***************************************************************************)
(* The steps: attributes, and the destroy.                                 *)
(***************************************************************************)
\* What these steps start from.
LEMMA HeldForm ==
  ASSUME Certain, NEW r \in Resources, job[r].pc \in {"set", "get", "guard", "remove"}
  PROVE  /\ Kind[r] # "binding" /\ known[r] # None /\ "made" \notin DOMAIN job[r]
         /\ job[r].pc = "set" => DOMAIN job[r] = {"pc", "verb", "tries"}
         /\ job[r].pc = "remove" => DOMAIN job[r] = {"pc", "tries"}
<1>1. JobOK(r, job[r], known[r], fresh)
  BY DEF Certain
<1> QED
  BY <1>1 DEF JobOK, Idle

LEMMA SetProper ==
  ASSUME Certain, Tracked, NEW r \in Resources, Set(r)
  PROVE  Proper(r)
<1> DEFINE id == known[r].id
<1>1. job[r].pc = "set"
  BY DEF Set, At
<1>2. /\ Kind[r] # "binding" /\ known[r] # None /\ "made" \notin DOMAIN job[r]
      /\ DOMAIN job[r] = {"pc", "verb", "tries"}
  BY <1>1, HeldForm
<1>3. served' = served /\ fresh' = fresh /\ late' = late /\ configs' = configs /\ stray' = stray
  BY DEF Set
<1>4. ASSUME Installed(id), certs' = [certs EXCEPT ![id].desc = Want(r).desc],
             default' = IF Reclaims(r, known[r]) THEN id ELSE default,
             Goto(r, [pc |-> "get", verb |-> "update"]) \/ AgainPlain(r) \/ LostForGood(r)
      PROVE  Proper(r)
  <2> DEFINE c == [certs[id] EXCEPT !.desc = Want(r).desc]
  <2>1. id \in DOMAIN certs /\ CertOK(certs[id])
    BY <1>4 DEF Installed, Certain, DsmOK
  <2>2. CertOK(c) /\ c.by = certs[id].by
    BY <2>1 DEF CertOK
  <2>3. certs' = [certs EXCEPT ![id] = c]
    BY <1>4, <2>1
  <2> HIDE DEF c
  <2>4. DsmOK' /\ CertsGo(r)
    BY <1>3, <1>4, <2>1, <2>2, <2>3, EditGoes
  <2>5. CASE Goto(r, [pc |-> "get", verb |-> "update"])
    <3> DEFINE to == [pc |-> "get", verb |-> "update"]
    <3>1. JobOK(r, to, known[r], fresh) /\ to.pc # "guard"
      BY <1>2 DEF JobOK
    <3>2. Frame(r) /\ job'[r] = to /\ known' = known
      BY <2>5, GotoFrame
    <3> HIDE DEF to
    <3> QED
      BY <1>2, <1>3, <2>4, <3>1, <3>2, EditProper DEF Certain
  <2>6. CASE AgainPlain(r)
    <3>1. /\ Frame(r) /\ known' = known
          /\ DOMAIN job'[r] = DOMAIN job[r]
          /\ \A f \in DOMAIN job[r] : f # "tries" => job'[r][f] = job[r][f]
      BY <1>2, <2>6, AgainPlainFrame
    <3>2. job'[r].pc = "set"
      BY <1>1, <1>2, <3>1
    <3>3. JobOK(r, job'[r], known[r], fresh) /\ job'[r].pc # "guard"
      BY <1>2, <3>1, <3>2 DEF JobOK
    <3> QED
      BY <1>2, <1>3, <2>4, <3>1, <3>3, EditProper DEF Certain
  <2>7. CASE LostForGood(r)
    <3>1. Frame(r) /\ job'[r] = Idle /\ known' = known
      BY <2>7, LostFrame
    <3> QED
      BY <1>2, <1>3, <2>4, <3>1, IdlePc, IdleForm, EditProper DEF Certain
  <2> QED
    BY <1>4, <2>5, <2>6, <2>7
<1>5. ASSUME Fail(r), UNCHANGED <<certs, default>> PROVE Proper(r)
  <2>1. UNCHANGED <<dsm, configs, stray>>
    BY <1>3, <1>5 DEF dsm
  <2> QED
    BY <1>2, <1>5, <2>1, FailProper
<1> QED
  BY <1>4, <1>5 DEF Set

LEMMA GetProper ==
  ASSUME Certain, Tracked, NEW r \in Resources, Get(r)
  PROVE  Proper(r)
<1>1. job[r].pc = "get" /\ UNCHANGED <<dsm, configs, stray>>
  BY DEF Get, At
<1>2. "made" \notin DOMAIN job[r]
  BY <1>1, HeldForm
<1>3. CASE Installed(known[r].id) /\ Record(r, known[r].id)
  <2>1. IsId(known[r].id, fresh)
    BY <1>3 DEF Installed, Certain, DsmOK
  <2>2. /\ Frame(r) /\ job'[r] = Idle /\ known'[r].id = known[r].id /\ known'[r] # None
        /\ RecordOK(known'[r], fresh)
    BY <1>3, <2>1, RecordFrame
  <2> QED
    BY <1>1, <1>2, <2>2, IdlePc, IdleForm, QuietProper
<1>4. CASE Fail(r)
  BY <1>1, <1>2, <1>4, FailProper
<1> QED
  BY <1>3, <1>4 DEF Get

LEMMA GuardProper ==
  ASSUME Certain, Tracked, NEW r \in Resources, Guard(r)
  PROVE  Proper(r)
<1> DEFINE id == known[r].id
<1>1. job[r].pc = "guard"
  BY DEF Guard, At
<1>2. Kind[r] # "binding" /\ known[r] # None /\ "made" \notin DOMAIN job[r]
  BY <1>1, HeldForm
<1>3. /\ certs' = certs /\ default' = default /\ served' = served /\ fresh' = fresh
      /\ configs' = configs /\ stray' = stray /\ late' = late \ {r}
  BY DEF Guard
<1>4. DsmOK' /\ CertsGo(r) /\ late' \subseteq Resources
  <2>1. late' \subseteq Resources
    BY <1>3 DEF Certain
  <2> QED
    BY <1>3, <2>1, SameCerts
<1>5. CASE Fail(r)
  <2>1. Frame(r) /\ job'[r] = Idle /\ known'[r] = known[r]
    BY <1>5, FailFrame
  <2> QED
    BY <1>2, <1>3, <1>4, <2>1, IdlePc, IdleForm, EditProper
<1>6. CASE Goto(r, [pc |-> "remove", tries |-> 0])
  <2> DEFINE to == [pc |-> "remove", tries |-> 0]
  <2>1. JobOK(r, to, known[r], fresh) /\ to.pc # "guard"
    BY <1>2 DEF JobOK
  <2>2. Frame(r) /\ job'[r] = to /\ known' = known
    BY <1>6, GotoFrame
  <2> HIDE DEF to
  <2> QED
    BY <1>2, <1>3, <1>4, <2>1, <2>2, EditProper
<1>7. CASE ~Installed(id) /\ Forget(r)
  <2>1. Frame(r) /\ job'[r] = Idle /\ known'[r] = None
    BY <1>7, ForgetFrame
  <2>2. ASSUME NEW i \in DOMAIN certs \ stray, certs[i].by = r PROVE FALSE
    <3>1. Tracks(r, i, DOMAIN certs, job[r], known[r])
      BY <2>2 DEF Tracked
    <3> QED
      BY <1>1, <1>2, <1>7, <3>1 DEF Tracks, Installed
  <2>3. \A i \in DOMAIN certs' \ stray' : certs'[i].by = r => i = known'[r].id
    BY <1>3, <2>2
  <2> QED
    BY <1>3, <1>4, <2>1, <2>3, NoneForm, EndProper DEF Certain
<1> QED
  BY <1>5, <1>6, <1>7 DEF Guard

LEMMA RemoveProper ==
  ASSUME Certain, Tracked, NEW r \in Resources, Remove(r)
  PROVE  Proper(r)
<1> DEFINE id == known[r].id
<1>1. job[r].pc = "remove"
  BY DEF Remove, At
<1>2. /\ Kind[r] # "binding" /\ known[r] # None /\ "made" \notin DOMAIN job[r]
      /\ DOMAIN job[r] = {"pc", "tries"}
  BY <1>1, HeldForm
<1>3. configs' = configs /\ stray' = stray
  BY DEF Remove
<1>4. ASSUME Installed(id), Uninstall(id), Forget(r) \/ AgainPlain(r) \/ LostForGood(r)
      PROVE  Proper(r)
  <2>1. /\ DsmOK' /\ CertsGo(r) /\ fresh' = fresh
        /\ DOMAIN certs' = DOMAIN certs \ {id}
        /\ \A i \in DOMAIN certs' : certs'[i] = certs[i]
        /\ late' \subseteq Resources
    BY <1>4, UninstallGoes DEF Installed
  <2>2. CASE Forget(r)
    <3>1. Frame(r) /\ job'[r] = Idle /\ known'[r] = None
      BY <2>2, ForgetFrame
    <3>2. ASSUME NEW i \in DOMAIN certs \ stray, i # id, certs[i].by = r PROVE FALSE
      <4>1. Tracks(r, i, DOMAIN certs, job[r], known[r])
        BY <3>2 DEF Tracked
      <4> QED
        BY <1>2, <1>4, <3>2, <4>1 DEF Tracks, Installed
    <3>3. \A i \in DOMAIN certs' \ stray' : certs'[i].by = r => i = known'[r].id
      BY <1>3, <2>1, <3>2
    <3> QED
      BY <1>3, <2>1, <3>1, <3>3, NoneForm, EndProper DEF Certain
  <2>3. CASE AgainPlain(r)
    <3>1. /\ Frame(r) /\ known' = known
          /\ DOMAIN job'[r] = DOMAIN job[r]
          /\ \A f \in DOMAIN job[r] : f # "tries" => job'[r][f] = job[r][f]
      BY <1>2, <2>3, AgainPlainFrame
    <3>2. job'[r].pc = "remove"
      BY <1>1, <1>2, <3>1
    <3>3. JobOK(r, job'[r], known[r], fresh) /\ job'[r].pc # "guard"
      BY <1>2, <3>1, <3>2 DEF JobOK
    <3> QED
      BY <1>2, <1>3, <2>1, <3>1, <3>3, EditProper
  <2>4. CASE LostForGood(r)
    <3>1. Frame(r) /\ job'[r] = Idle /\ known' = known
      BY <2>4, LostFrame
    <3> QED
      BY <1>2, <1>3, <2>1, <3>1, IdlePc, IdleForm, EditProper
  <2> QED
    BY <1>4, <2>2, <2>3, <2>4
<1>5. ASSUME Fail(r), UNCHANGED dsm PROVE Proper(r)
  BY <1>2, <1>3, <1>5, FailProper
<1> QED
  BY <1>4, <1>5 DEF Remove

\* What a refused request leaves.
LEMMA RefusedProper ==
  ASSUME Certain, Tracked, NEW r \in Resources, Refused(r)
  PROVE  Proper(r)
<1>1. UNCHANGED <<dsm, configs>> /\ Fail(r) /\ JobOK(r, job[r], known[r], fresh)
  BY DEF Refused, Certain
<1>2. CASE job[r].pc \in {"import", "issue", "claim"}
  <2>1. "made" \in DOMAIN job[r] /\ \A id \in job[r].made : IsId(id, fresh)
    BY <1>1, <1>2 DEF JobOK, Idle, Making
  <2>2. stray' = stray \union job[r].made
    BY <1>2 DEF Refused
  <2>3. DsmOK' /\ CertsGo(r) /\ fresh' = fresh /\ late' = late /\ configs' = configs
    BY <1>1, SameDsm
  <2> QED
    BY <1>1, <2>1, <2>2, <2>3, MadeAstray
<1>3. CASE job[r].pc \in {"set", "bind", "remove"}
  <2>1. "made" \notin DOMAIN job[r]
    BY <1>1, <1>3 DEF JobOK, Idle
  <2>2. stray' = stray
    BY <1>3 DEF Refused
  <2> QED
    BY <1>1, <2>1, <2>2, FailProper
<1> QED
  BY <1>2, <1>3 DEF Refused

----------------------------------------------------------------------------
(***************************************************************************)
(* The steps: services.                                                    *)
(***************************************************************************)
\* No certificate is made for a binding.
LEMMA BindingProper ==
  ASSUME Certain, NEW r \in Resources, Kind[r] = "binding",
         DsmOK', CertsGo(r), certs' = certs, fresh' = fresh, late' \subseteq Resources,
         configs' = configs, stray' = stray, Frame(r), RecordOK(known'[r], fresh),
         JobOK(r, job'[r], known'[r], fresh)
  PROVE  Proper(r)
<1>1. \A id \in DOMAIN certs : certs[id].by # r
  BY DEF Certain, DsmOK, CertOK
<1>2. Sighted(r)
  BY <1>1 DEF Sighted
<1> QED
  BY <1>2 DEF Proper, Certain

LEMMA ServedForm ==
  ASSUME Certain, NEW r \in Resources, Kind[r] = "binding"
  PROVE  Service[r] \in Services
         /\ (served[Service[r]] = NoId \/ IsId(served[Service[r]], fresh))
<1>1. Service[r] \in Services
  BY DEF Services
<1>2. \A id \in DOMAIN certs : IsId(id, fresh)
  BY DEF Certain, DsmOK
<1> QED
  BY <1>1, <1>2 DEF Certain, DsmOK, Installed

LEMMA BoundTo ==
  ASSUME NEW id, NEW n, IsId(id, n)
  PROVE  RecordOK([None EXCEPT !.id = id], n) /\ [None EXCEPT !.id = id].id = id
<1>1. [None EXCEPT !.id = id].id = id
  BY DEF None
<1> QED
  BY <1>1 DEF RecordOK, IsId

LEMMA BoundFrame ==
  ASSUME Certain, NEW r \in Resources, Bound(r), IsId(job[r].to, fresh)
  PROVE  Frame(r) /\ job'[r] = Idle /\ RecordOK(known'[r], fresh)
<1>1. known'[r] = [None EXCEPT !.id = job[r].to] /\ job'[r] = Idle /\ Frame(r)
  BY DEF Bound, Frame, Certain
<1> QED
  BY <1>1, BoundTo

LEMMA ReadBindingProper ==
  ASSUME Certain, Tracked, NEW r \in Resources, ReadBinding(r)
  PROVE  Proper(r)
<1> DEFINE id == served[Service[r]]
           to == known[Target[r]].id
<1>1. /\ job[r] = Idle /\ "made" \notin DOMAIN job[r]
      /\ Kind[r] = "binding" /\ known[r] # None /\ UNCHANGED <<dsm, configs, stray>>
  BY IdleJob DEF ReadBinding
<1>2. /\ DsmOK' /\ CertsGo(r) /\ certs' = certs /\ fresh' = fresh /\ late' \subseteq Resources
      /\ configs' = configs /\ stray' = stray
  BY <1>1, SameDsm DEF Certain
<1>3. CASE Forget(r)
  <2>1. Frame(r) /\ job'[r] = Idle /\ known'[r] = None
    BY <1>3, ForgetFrame
  <2> QED
    BY <1>1, <1>2, <2>1, NoneForm, IdleForm, BindingProper
<1>4. ASSUME ~Destroyed(r), id # NoId,
             known' = [known EXCEPT ![r] = [None EXCEPT !.id = id]],
             job' = [job EXCEPT ![r] = IF id = to THEN Idle ELSE [pc |-> "find", to |-> to]]
      PROVE  Proper(r)
  <2>1. IsId(id, fresh) /\ IsId(to, fresh)
    BY <1>1, <1>4, ServedForm, TargetForm DEF ReadBinding, Ready
  <2>2. known'[r] = [None EXCEPT !.id = id] /\ Frame(r)
        /\ job'[r] = IF id = to THEN Idle ELSE [pc |-> "find", to |-> to]
    BY <1>4 DEF Frame, Certain
  <2>3. RecordOK(known'[r], fresh)
    BY <2>1, <2>2, BoundTo
  <2>4. JobOK(r, [pc |-> "find", to |-> to], known'[r], fresh)
    BY <1>1, <2>1 DEF JobOK
  <2>5. JobOK(r, job'[r], known'[r], fresh)
    BY <2>2, <2>4, IdleForm
  <2> QED
    BY <1>1, <1>2, <2>2, <2>3, <2>5, BindingProper
<1>5. CASE Fail(r)
  BY <1>1, <1>5, FailProper
<1> QED
  BY <1>3, <1>4, <1>5 DEF ReadBinding

LEMMA BindingForm ==
  ASSUME Certain, NEW r \in Resources, job[r].pc \in {"find", "lookup", "bind"}
  PROVE  /\ Kind[r] = "binding" /\ IsId(job[r].to, fresh) /\ "made" \notin DOMAIN job[r]
         /\ job[r].pc # "bind" => DOMAIN job[r] = {"pc", "to"}
         /\ job[r].pc = "bind" => /\ DOMAIN job[r] = {"pc", "to", "old", "tries"}
                                  /\ job[r].old # job[r].to
<1>1. JobOK(r, job[r], known[r], fresh)
  BY DEF Certain
<1> QED
  BY <1>1 DEF JobOK, Idle

LEMMA FindTargetProper ==
  ASSUME Certain, Tracked, NEW r \in Resources, FindTarget(r)
  PROVE  Proper(r)
<1>1. job[r].pc = "find" /\ UNCHANGED <<dsm, configs, stray>>
  BY DEF FindTarget, At
<1>2. /\ Kind[r] = "binding" /\ IsId(job[r].to, fresh) /\ "made" \notin DOMAIN job[r]
      /\ DOMAIN job[r] = {"pc", "to"}
  BY <1>1, BindingForm
<1>3. CASE Goto(r, [job[r] EXCEPT !.pc = "lookup"])
  <2> DEFINE to == [job[r] EXCEPT !.pc = "lookup"]
  <2>1. to.pc = "lookup" /\ to.to = job[r].to /\ DOMAIN to = {"pc", "to"}
    BY <1>2
  <2>2. JobOK(r, to, known[r], fresh) /\ to.pc # "guard"
    BY <1>2, <2>1 DEF JobOK
  <2>3. Goto(r, to)
    BY <1>3
  <2> HIDE DEF to
  <2> QED
    BY <1>1, <1>2, <2>2, <2>3, GotoProper
<1>4. CASE Fail(r)
  BY <1>1, <1>2, <1>4, FailProper
<1> QED
  BY <1>3, <1>4 DEF FindTarget

LEMMA FindBindingProper ==
  ASSUME Certain, Tracked, NEW r \in Resources, FindBinding(r)
  PROVE  Proper(r)
<1> DEFINE old == served[Service[r]]
<1>1. job[r].pc = "lookup" /\ UNCHANGED <<dsm, configs, stray>>
  BY DEF FindBinding, At
<1>2. Kind[r] = "binding" /\ IsId(job[r].to, fresh) /\ "made" \notin DOMAIN job[r]
  BY <1>1, BindingForm
<1>3. /\ DsmOK' /\ CertsGo(r) /\ certs' = certs /\ fresh' = fresh /\ late' \subseteq Resources
      /\ configs' = configs /\ stray' = stray
  BY <1>1, SameDsm DEF Certain
<1>4. CASE Bound(r)
  <2>1. Frame(r) /\ job'[r] = Idle /\ RecordOK(known'[r], fresh)
    BY <1>2, <1>4, BoundFrame
  <2> QED
    BY <1>2, <1>3, <2>1, IdleForm, BindingProper
<1>5. CASE old # job[r].to
           /\ Goto(r, [pc |-> "bind", to |-> job[r].to, old |-> old, tries |-> 0])
  <2> DEFINE to == [pc |-> "bind", to |-> job[r].to, old |-> old, tries |-> 0]
  <2>1. JobOK(r, to, known[r], fresh) /\ to.pc # "guard"
    BY <1>2, <1>5 DEF JobOK
  <2>2. Goto(r, to)
    BY <1>5
  <2> HIDE DEF to
  <2> QED
    BY <1>1, <1>2, <2>1, <2>2, GotoProper
<1>6. CASE Fail(r)
  BY <1>1, <1>2, <1>6, FailProper
<1> QED
  BY <1>4, <1>5, <1>6 DEF FindBinding

\* A service gets another certificate.
LEMMA ServeGoes ==
  ASSUME Certain, NEW r, NEW s \in Services, NEW id \in DOMAIN certs \union {NoId},
         served' = [served EXCEPT ![s] = id], UNCHANGED <<certs, default, fresh>>
  PROVE  DsmOK' /\ CertsGo(r)
<1>1. DOMAIN served' = Services
        /\ \A t \in Services : served'[t] = NoId \/ served'[t] \in DOMAIN certs
  BY DEF Certain, DsmOK, Installed
<1> QED
  BY <1>1 DEF Certain, DsmOK, Installed, CertsGo

LEMMA OvertakenForm ==
  ASSUME Certain, NEW id
  PROVE  Overtaken(id) \subseteq Resources /\ late \subseteq Overtaken(id)
  BY DEF Overtaken, Certain

LEMMA BindProper ==
  ASSUME Certain, Tracked, NEW r \in Resources, Bind(r)
  PROVE  Proper(r)
<1> DEFINE s == Service[r]
           to == IF served[s] = job[r].to THEN default ELSE job[r].to
<1>1. job[r].pc = "bind" /\ configs' = configs /\ stray' = stray
      /\ UNCHANGED <<certs, default, fresh>>
  BY DEF Bind, At
<1>2. /\ Kind[r] = "binding" /\ IsId(job[r].to, fresh) /\ "made" \notin DOMAIN job[r]
      /\ DOMAIN job[r] = {"pc", "to", "old", "tries"} /\ job[r].old # job[r].to
  BY <1>1, BindingForm
<1>3. ASSUME Installed(job[r].to), served' = [served EXCEPT ![s] = to],
             late' = Overtaken(served'[s]),
             Bound(r) \/ AgainPlain(r) \/ LostForGood(r)
      PROVE  Proper(r)
  <2>1. s \in Services
    BY <1>2, ServedForm
  <2>2. to \in DOMAIN certs
    BY <1>3 DEF Installed, Certain, DsmOK
  <2> HIDE DEF to, s
  <2>3. DsmOK' /\ CertsGo(r) /\ late' \subseteq Resources
    BY <1>1, <1>3, <2>1, <2>2, ServeGoes, OvertakenForm
  <2>4. CASE Bound(r)
    <3>1. Frame(r) /\ job'[r] = Idle /\ RecordOK(known'[r], fresh)
      BY <1>2, <2>4, BoundFrame
    <3> QED
      BY <1>1, <1>2, <2>3, <3>1, IdleForm, BindingProper
  <2>5. CASE AgainPlain(r)
    <3>1. /\ Frame(r) /\ known' = known
          /\ DOMAIN job'[r] = DOMAIN job[r]
          /\ \A f \in DOMAIN job[r] : f # "tries" => job'[r][f] = job[r][f]
      BY <1>2, <2>5, AgainPlainFrame
    <3>2. job'[r].pc = "bind" /\ job'[r].to = job[r].to /\ job'[r].old = job[r].old
      BY <1>1, <1>2, <3>1
    <3>3. JobOK(r, job'[r], known'[r], fresh)
      BY <1>2, <3>1, <3>2 DEF JobOK
    <3> QED
      BY <1>1, <1>2, <2>3, <3>1, <3>3, BindingProper DEF Certain
  <2>6. CASE LostForGood(r)
    <3>1. Frame(r) /\ job'[r] = Idle /\ known' = known
      BY <2>6, LostFrame
    <3> QED
      BY <1>1, <1>2, <2>3, <3>1, IdleForm, BindingProper DEF Certain
  <2> QED
    BY <1>3, <2>4, <2>5, <2>6
<1>4. ASSUME Fail(r), UNCHANGED <<served, late>> PROVE Proper(r)
  <2>1. UNCHANGED <<dsm, configs, stray>>
    BY <1>1, <1>4 DEF dsm
  <2> QED
    BY <1>2, <1>4, <2>1, FailProper
<1> QED
  BY <1>3, <1>4 DEF Bind

----------------------------------------------------------------------------
(***************************************************************************)
(* What is not the provider.                                               *)
(***************************************************************************)
\* Ids may have been given out meanwhile.
LEMMA WorldKeeps ==
  ASSUME Certain, DsmOK', fresh' \in Nat, fresh <= fresh', \A id \in stray' : IsId(id, fresh'),
         late' \subseteq Resources, UNCHANGED <<configs, known, job>>
  PROVE  Certain'
<1>1. fresh \in Nat /\ configs' = configs /\ known' = known /\ job' = job
  BY DEF Certain, DsmOK
<1>2. \A r \in Resources : RecordOK(known[r], fresh) /\ JobOK(r, job[r], known[r], fresh)
  BY DEF Certain
<1>3. \A r \in Resources : RecordOK(known[r], fresh') /\ JobOK(r, job[r], known[r], fresh')
  BY <1>1, <1>2, RecordStays, JobStays
<1> QED
  BY <1>1, <1>3 DEF Certain

LEMMA Shorter ==
  ASSUME NEW S, NEW s \in Seq(S), Len(s) > 1
  PROVE  Tail(s) \in Seq(S) /\ Tail(s) # <<>>
<1>1. Len(<<>>) = 0
  BY EmptySeq
<1>2. s # <<>>
  BY <1>1
<1>3. Tail(s) \in Seq(S) /\ Len(Tail(s)) = Len(s) - 1 /\ Len(s) \in Nat
  BY <1>2, HeadTailProperties, LenProperties
<1>4. Len(Tail(s)) # 0
  BY <1>3
<1> QED
  BY <1>1, <1>3, <1>4

LEMMA ReconfigureKeeps ==
  ASSUME Certain, Tracked, Reconfigure
  PROVE  Certain' /\ Tracked'
<1>1. UNCHANGED <<certs, default, served, fresh, late, known, job, stray>>
  BY DEF Reconfigure, dsm
<1>2. Len(configs) > 1 /\ configs' = Tail(configs)
  BY DEF Reconfigure
<1>3. configs \in Seq([Resources -> Settings]) /\ configs # <<>>
  BY DEF Certain
<1>4. configs' \in Seq([Resources -> Settings]) /\ configs' # <<>>
  BY <1>2, <1>3, Shorter
<1>5. DsmOK'
  BY <1>1 DEF Certain, DsmOK, Installed
<1>6. Certain'
  BY <1>1, <1>4, <1>5 DEF Certain
<1>7. Tracked'
  BY <1>1 DEF Tracked
<1> QED
  BY <1>6, <1>7

LEMMA AssignByHandKeeps ==
  ASSUME Certain, Tracked, AssignByHand
  PROVE  Certain' /\ Tracked'
<1>1. PICK s \in Services, id \in DOMAIN certs \union {NoId} :
          served' = [served EXCEPT ![s] = id] /\ late' = Overtaken(id)
  BY DEF AssignByHand
<1>2. UNCHANGED <<certs, default, fresh>> /\ UNCHANGED <<configs, known, job>> /\ stray' = stray
  BY DEF AssignByHand
<1>3. DsmOK'
  BY <1>1, <1>2, ServeGoes
<1>4. late' \subseteq Resources
  BY <1>1, OvertakenForm
<1>5. fresh' \in Nat /\ fresh <= fresh'
  BY <1>2 DEF Certain, DsmOK
<1>6. Certain'
  BY <1>2, <1>3, <1>4, <1>5, WorldKeeps DEF Certain
<1>7. Tracked'
  BY <1>2 DEF Tracked
<1> QED
  BY <1>6, <1>7

LEMMA ByHandKeeps ==
  ASSUME Certain, Tracked, ByHand
  PROVE  Certain' /\ Tracked'
<1>1. UNCHANGED <<configs, known, job>> /\ stray' = stray /\ late' = late /\ fresh' = fresh
      /\ served' = served
  BY DEF ByHand
<1>2. /\ \A i \in DOMAIN certs' : i \in DOMAIN certs /\ certs'[i] = certs[i]
      /\ default' \in DOMAIN certs'
      /\ \A s \in Services : served[s] \in DOMAIN certs => served[s] \in DOMAIN certs'
  <2>1. PICK id \in DOMAIN certs :
          \/ default' = id /\ certs' = certs
          \/ /\ id # default /\ ~InUse(id) /\ default' = default
             /\ certs' = [c \in DOMAIN certs \ {id} |-> certs[c]]
    BY DEF ByHand
  <2>2. CASE default' = id /\ certs' = certs
    BY <2>2
  <2>3. CASE /\ id # default /\ ~InUse(id) /\ default' = default
             /\ certs' = [c \in DOMAIN certs \ {id} |-> certs[c]]
    BY <2>3 DEF InUse, Certain, DsmOK, Installed
  <2> QED
    BY <2>1, <2>2, <2>3
<1>3. DsmOK'
  BY <1>1, <1>2 DEF Certain, DsmOK, Installed
<1>4. fresh' \in Nat /\ fresh <= fresh'
  BY <1>1 DEF Certain, DsmOK
<1>5. Certain'
  BY <1>1, <1>3, <1>4, WorldKeeps DEF Certain
<1>6. Tracked'
  BY <1>1, <1>2 DEF Tracked, Tracks
<1> QED
  BY <1>5, <1>6

\* The renewal of a certificate is found by its common name, unless a destroy has begun.
LEMMA RenewKeeps ==
  ASSUME Certain, Tracked, Renew
  PROVE  Certain' /\ Tracked'
<1>1. fresh <= MaxId /\ fresh' = fresh + 1 /\ UNCHANGED <<configs, known, job>> /\ late' = late
  BY DEF Renew
<1>2. PICK id \in DOMAIN certs :
          /\ certs[id].by \in Resources /\ Kind[certs[id].by] = "issued"
          /\ "made" \notin DOMAIN job[certs[id].by]
          /\ certs' = [c \in (DOMAIN certs \ {id}) \union {fresh} |->
                          IF c = fresh THEN certs[id] ELSE certs[c]]
          /\ default' = IF default = id THEN fresh ELSE default
          /\ served' = [s \in Services |-> IF served[s] = id THEN fresh ELSE served[s]]
          /\ stray' = IF id \in stray \/ At(certs[id].by, "guard") THEN stray \union {fresh}
                      ELSE stray
  BY DEF Renew
<1>3. /\ fresh \in Nat /\ fresh' \in Nat /\ fresh <= fresh' /\ fresh < fresh' /\ NoId < fresh
      /\ NoId < fresh' /\ fresh' <= MaxId + 1 /\ IsId(fresh, fresh') /\ fresh \notin DOMAIN certs
  BY <1>1, BoundsAssumption DEF Certain, DsmOK, IsId, NoId
<1>4. /\ DOMAIN certs' = (DOMAIN certs \ {id}) \union {fresh}
      /\ certs'[fresh] = certs[id]
      /\ \A i \in DOMAIN certs \ {id} : certs'[i] = certs[i]
  BY <1>2, <1>3
<1>5. \A i \in DOMAIN certs' : IsId(i, fresh') /\ CertOK(certs'[i])
  <2>1. \A i \in DOMAIN certs : IsId(i, fresh) /\ CertOK(certs[i])
    BY DEF Certain, DsmOK
  <2>2. \A i \in DOMAIN certs : IsId(i, fresh')
    BY <1>3, <2>1, MoreIds
  <2> QED
    BY <1>3, <1>4, <2>1, <2>2
<1>6. /\ default' \in DOMAIN certs' /\ DOMAIN served' = Services
      /\ \A s \in Services : served'[s] = NoId \/ served'[s] \in DOMAIN certs'
  BY <1>2, <1>4 DEF Certain, DsmOK, Installed
<1>7. DsmOK'
  BY <1>3, <1>5, <1>6 DEF DsmOK, Installed
<1>8. stray \subseteq stray' /\ \A i \in stray' : IsId(i, fresh')
  <2>1. \A i \in stray : IsId(i, fresh')
    BY <1>3, MoreIds DEF Certain
  <2> QED
    BY <1>2, <1>3, <2>1
<1>9. Certain'
  BY <1>1, <1>3, <1>7, <1>8, WorldKeeps DEF Certain
<1>10. ASSUME NEW i \in DOMAIN certs' \ stray', NEW r \in Resources, certs'[i].by = r
       PROVE  Tracks(r, i, DOMAIN certs', job'[r], known'[r])
  <2>1. known'[r] = known[r] /\ job'[r] = job[r] /\ known[r].id # fresh
    <3>1. known[r].id < fresh /\ known[r].id \in Nat
      BY DEF Certain, RecordOK
    <3> QED
      BY <1>1, <1>3, <3>1
  <2>2. CASE i # fresh
    <3>1. i \in DOMAIN certs \ stray /\ certs[i].by = r
      BY <1>4, <1>8, <1>10, <2>2
    <3>2. Tracks(r, i, DOMAIN certs, job[r], known[r])
      BY <3>1 DEF Tracked
    <3> QED
      BY <1>4, <2>1, <3>2 DEF Tracks
  <2>3. CASE i = fresh
    <3>1. certs[id].by = r /\ id \notin stray /\ job[r].pc # "guard" /\ Kind[r] = "issued"
          /\ "made" \notin DOMAIN job[r]
      BY <1>2, <1>4, <1>10, <2>3 DEF At
    <3>2. Tracks(r, id, DOMAIN certs, job[r], known[r])
      BY <3>1 DEF Tracked
    <3>3. known[r].id = id \/ (known[r] # None /\ known[r].id \notin DOMAIN certs)
      BY <3>1, <3>2 DEF Tracks
    <3>4. known[r] # None
      BY <3>3, NoneForm
    <3>5. known[r].id \notin DOMAIN certs'
      BY <1>3, <1>4, <2>1, <3>3
    <3> QED
      BY <2>1, <3>1, <3>4, <3>5 DEF Tracks
  <2> QED
    BY <2>2, <2>3
<1>11. Tracked'
  BY <1>10 DEF Tracked
<1> QED
  BY <1>9, <1>11

LEMMA RestartKeeps ==
  ASSUME Certain, Tracked, Restart
  PROVE  Certain' /\ Tracked'
<1> DEFINE pcs == {"import", "settle", "issue", "findIssued", "claim", "claimed"}
           lost == UNION {job[r].made : r \in {q \in Resources : job[q].pc \in pcs}}
<1>1. /\ UNCHANGED <<certs, default, served, fresh, late, known, configs>>
      /\ job' = [r \in Resources |-> Idle] /\ stray' = stray \union lost
  BY DEF Restart, dsm
<1>2. DsmOK'
  BY <1>1 DEF Certain, DsmOK, Installed
<1>3. ASSUME NEW r \in Resources
      PROVE  /\ job[r].pc \in pcs => \A id \in job[r].made : IsId(id, fresh)
             /\ "made" \in DOMAIN job[r] => job[r].pc \in pcs
  <2>1. JobOK(r, job[r], known[r], fresh)
    BY DEF Certain
  <2> QED
    BY <2>1 DEF JobOK, Making, Idle
<1>4. \A id \in stray' : IsId(id, fresh)
  BY <1>1, <1>3 DEF Certain
<1>5. Certain'
  BY <1>1, <1>2, <1>4, IdleForm DEF Certain
<1>6. ASSUME NEW id \in DOMAIN certs' \ stray', NEW r \in Resources, certs'[id].by = r
      PROVE  Tracks(r, id, DOMAIN certs', job'[r], known'[r])
  <2>1. Tracks(r, id, DOMAIN certs, job[r], known[r])
    BY <1>1, <1>6 DEF Tracked
  <2>2. id \notin lost
    BY <1>1, <1>6
  <2>3. ~("made" \in DOMAIN job[r] /\ id \in job[r].made)
    BY <1>3, <2>2
  <2>4. job'[r].pc # "guard"
    BY <1>1, IdlePc
  <2> QED
    BY <1>1, <2>1, <2>3, <2>4 DEF Tracks
<1>7. Tracked'
  BY <1>6 DEF Tracked
<1> QED
  BY <1>5, <1>7

----------------------------------------------------------------------------
(***************************************************************************)
(* Types, and that nothing is left behind.                                 *)
(***************************************************************************)
LEMMA StepProper ==
  ASSUME Certain, Tracked, NEW r \in Resources, Begin(r) \/ Step(r)
  PROVE  Proper(r)
BY CreateProper, ReadProper, ReadBindingProper, ReadBySubjectProper, ImportNewProper,
   RotateProper, SettleProper, IssueProper, FindIssuedProper, ClaimProper, ClaimedProper,
   SetProper, GetProper, GuardProper, RemoveProper, RefusedProper, FindTargetProper,
   FindBindingProper, BindProper DEF Begin, Step

LEMMA NextTracked ==
  ASSUME Certain, Tracked, [Next]_vars
  PROVE  Certain' /\ Tracked'
<1>1. ASSUME NEW r \in Resources, Begin(r) \/ Step(r) PROVE Certain' /\ Tracked'
  BY <1>1, StepProper, ProperKeeps
<1>2. CASE UNCHANGED vars
  <2>1. UNCHANGED <<certs, default, served, fresh, late, known, configs, job, stray>>
    BY <1>2 DEF vars
  <2> QED
    BY <2>1 DEF Certain, DsmOK, Installed, Tracked
<1> QED
  BY <1>1, <1>2, ReconfigureKeeps, AssignByHandKeeps, ByHandKeeps, RenewKeeps, RestartKeeps
     DEF Next

LEMMA InitTracked ==
  ASSUME Init
  PROVE  Certain /\ Tracked /\ AllSpared
<1>1. /\ DOMAIN certs = {Builtin} /\ certs[Builtin].by = "dsm"
      /\ DOMAIN certs[Builtin] = {"desc", "subject", "material", "by"}
  BY DEF Init
<1>2. fresh = 2 /\ Builtin = 1 /\ NoId = 0 /\ fresh <= MaxId + 1
  BY BoundsAssumption DEF Init, Builtin, NoId
<1>3. DsmOK
  <2>1. IsId(Builtin, fresh) /\ CertOK(certs[Builtin])
    BY <1>1, <1>2, ResourcesAssumption DEF IsId, CertOK
  <2> QED
    BY <1>1, <1>2, <2>1 DEF DsmOK, Init, Installed
<1>4. RecordOK(None, fresh)
  BY <1>2 DEF RecordOK, None
<1>5. configs \in Seq([Resources -> Settings]) /\ configs # <<>>
  BY ScenariosAssumption DEF Init
<1>6. Certain
  BY <1>3, <1>4, <1>5, IdleForm DEF Certain, Init
<1>7. Tracked
  BY <1>1, ResourcesAssumption DEF Tracked
<1>8. AllSpared
  BY DEF AllSpared, Spared, At, Init, Idle
<1> QED
  BY <1>6, <1>7, <1>8

LEMMA CertainTypes ==
  ASSUME Certain
  PROVE  TypeOK
<1>1. /\ fresh \in Nat /\ NoId = 0 /\ NoId < fresh /\ fresh <= MaxId + 1 /\ MaxId \in Nat
  BY BoundsAssumption DEF Certain, DsmOK, NoId
<1>2. fresh \in 1 .. MaxId + 1 /\ \A id : IsId(id, fresh) => id \in 1 .. fresh - 1
  BY <1>1 DEF IsId
<1>3. DOMAIN certs \subseteq 1 .. fresh - 1 /\ stray \subseteq 1 .. fresh - 1
  BY <1>2 DEF Certain, DsmOK
<1>4. \A r \in Resources : known[r].id \in NoId .. fresh - 1
                           /\ (known[r] # None => known[r].id # NoId)
  BY <1>1 DEF Certain, RecordOK
<1>5. Len(configs) \in Nat \ {0}
  BY EmptySeq DEF Certain
<1>6. ASSUME NEW r \in Resources
      PROVE  job[r].pc \in
           {"idle"} \union
           (CASE Kind[r] = "imported" -> {"import", "settle", "set", "get", "guard", "remove"}
              [] Kind[r] = "issued" -> {"readBySubject", "issue", "findIssued", "claim",
                                        "claimed", "set", "get", "guard", "remove"}
              [] OTHER -> {"find", "lookup", "bind"})
  <2>1. JobOK(r, job[r], known[r], fresh)
    BY DEF Certain
  <2>2. Kind[r] \in {"imported", "issued", "binding"}
    BY KindAssumption
  <2>3. CASE Kind[r] = "imported"
    BY <2>1, <2>3, IdlePc DEF JobOK
  <2>4. CASE Kind[r] = "issued"
    BY <2>1, <2>4, IdlePc DEF JobOK
  <2>5. CASE Kind[r] = "binding"
    BY <2>1, <2>5, IdlePc DEF JobOK
  <2> QED
    BY <2>2, <2>3, <2>4, <2>5
<1> QED
  BY <1>2, <1>3, <1>4, <1>5, <1>6 DEF TypeOK, Certain, DsmOK

\* An id is of a certificate, the default is one and so is what serves a service, and an
\* operation is where one of its kind can be.
THEOREM TypeCorrect == Spec => []TypeOK
<1>1. Init => Certain /\ Tracked
  BY InitTracked
<1>2. Certain /\ Tracked /\ [Next]_vars => (Certain /\ Tracked)'
  BY NextTracked
<1>3. Certain /\ Tracked => TypeOK
  BY CertainTypes
<1> QED
  BY <1>1, <1>2, <1>3, PTL DEF Spec

\* A certificate that is not stray is in the state of its resource, in the making, or the
\* renewal of one that was: rotation, renaming, a claimed default, a destroy and a failed
\* refresh lose none.  What its operation gave up or replaced by another of the name is
\* stray, which an error need not tell.
THEOREM NeverLeftBehind == Spec => []NothingLeftBehind
<1>1. Init => Certain /\ Tracked
  BY InitTracked
<1>2. Certain /\ Tracked /\ [Next]_vars => (Certain /\ Tracked)'
  BY NextTracked
<1>3. Certain /\ Tracked => NothingLeftBehind
  BY DEF Tracked, Tracks, NothingLeftBehind, Installed
<1> QED
  BY <1>1, <1>2, <1>3, PTL DEF Spec

----------------------------------------------------------------------------
(***************************************************************************)
(* The services of a certificate that is removed.                          *)
(***************************************************************************)
\* A service that is given another certificate is noticed by the removals under way.
LEMMA SparedStays ==
  ASSUME Certain, AllSpared, configs' = configs,
         NEW q \in Resources, job[q].pc = "remove", known'[q] = known[q],
         \A id \in DOMAIN certs' : id \in DOMAIN certs \/ id = fresh,
         NEW s \in Services,
         \/ served'[s] = served[s] /\ (q \in late => q \in late')
         \/ Overtaken(served'[s]) \subseteq late'
         \/ served'[s] = fresh
  PROVE  Spared(q, s)'
<1> SUFFICES ASSUME ~Want(q).force, known[q].id \in DOMAIN certs', served'[s] = known[q].id
             PROVE  q \in late'
  BY DEF Spared, At, Installed, Want
<1>1. known[q].id # fresh
  <2>1. known[q].id < fresh /\ known[q].id \in Nat /\ fresh \in Nat
    BY DEF Certain, RecordOK, DsmOK
  <2> QED
    BY <2>1
<1>2. known[q].id \in DOMAIN certs
  BY <1>1
<1>3. CASE served'[s] = served[s] /\ (q \in late => q \in late')
  BY <1>2, <1>3 DEF AllSpared, Spared, At, Installed
<1>4. CASE Overtaken(served'[s]) \subseteq late'
  BY <1>4 DEF Overtaken, At
<1> QED
  BY <1>1, <1>3, <1>4

\* A step whose operation is not about to remove, and that leaves the services alone.
LEMMA SparedByStep ==
  ASSUME Certain, AllSpared, NEW r \in Resources, Proper(r),
         \A s \in Services : \/ served'[s] = served[s]
                             \/ Overtaken(served'[s]) \subseteq late',
         late \ {r} \subseteq late',
         job'[r].pc = "remove" => \A s \in Services : Spared(r, s)'
  PROVE  AllSpared'
<1> SUFFICES ASSUME NEW q \in Resources, NEW s \in Services PROVE Spared(q, s)'
  BY DEF AllSpared
<1>1. CASE q = r
  BY <1>1 DEF Spared, At
<1>2. CASE q # r /\ job'[q].pc # "remove"
  BY <1>2 DEF Spared, At
<1>3. CASE q # r /\ job'[q].pc = "remove"
  <2>1. job[q].pc = "remove" /\ known'[q] = known[q] /\ (q \in late => q \in late')
    BY <1>3 DEF Proper, Frame
  <2>2. configs' = configs /\ \A id \in DOMAIN certs' : id \in DOMAIN certs \/ id = fresh
    BY DEF Proper, CertsGo
  <2> QED
    BY <2>1, <2>2, SparedStays
<1> QED
  BY <1>1, <1>2, <1>3

\* Where an operation is after a step.
LEMMA GotoPc ==
  ASSUME Certain, NEW r \in Resources, NEW to, Goto(r, to)
  PROVE  job'[r] = to
  BY GotoFrame

LEMMA FailPc ==
  ASSUME Certain, NEW r \in Resources, Fail(r) \/ Forget(r)
  PROVE  job'[r].pc = "idle"
  BY FailFrame, ForgetFrame, IdlePc

LEMMA RecordPc ==
  ASSUME Certain, NEW r \in Resources, NEW id, Record(r, id)
  PROVE  job'[r].pc = "idle"
<1>1. job'[r] = Idle
  BY DEF Record, Certain
<1> QED
  BY <1>1, IdlePc

LEMMA FirstStepPc ==
  ASSUME NEW r, NEW verb, verb \in {"create", "nothing", "delete", "update"}
  PROVE  FirstStep(r, verb).pc \in {"idle", "guard", "issue", "set", "import"}
  BY DEF FirstStep, Idle

LEMMA RefreshedPc ==
  ASSUME Certain, NEW r \in Resources, NEW id, Refreshed(r, id)
  PROVE  job'[r].pc \in {"idle", "guard", "issue", "set", "import"}
<1> DEFINE verb == PlannedVerb(r, Parsed(id, known[r].material, known[r].tainted))
<1>1. verb \in {"create", "nothing", "delete", "update"}
  BY DEF PlannedVerb
<1>2. job' = [job EXCEPT ![r] = FirstStep(r, verb)]
  BY DEF Refreshed
<1> HIDE DEF verb
<1>3. job'[r] = FirstStep(r, verb)
  BY <1>2 DEF Certain
<1> QED
  BY <1>1, <1>3, FirstStepPc

\* Another attempt is where the first was.
LEMMA AgainPc ==
  ASSUME Certain, NEW r \in Resources,
         AgainPlain(r) \/ \E made : Again(r, made)
  PROVE  job'[r].pc = job[r].pc
<1>0. JobOK(r, job[r], known[r], fresh)
  BY DEF Certain
<1>1. "pc" \in DOMAIN job[r]
  BY <1>0 DEF JobOK, Idle
<1>2. CASE AgainPlain(r)
  <2>1. job'[r] = [job[r] EXCEPT !.tries = 1]
    BY <1>2, GotoFrame DEF AgainPlain
  <2> QED
    BY <1>1, <2>1
<1>3. ASSUME NEW made, Again(r, made) PROVE job'[r].pc = job[r].pc
  <2>1. job'[r] = [job[r] EXCEPT !.tries = 1, !.made = made]
    BY <1>3, GotoFrame DEF Again
  <2> QED
    BY <1>1, <2>1
<1> QED
  BY <1>2, <1>3

LEMMA LostPc ==
  ASSUME Certain, NEW r \in Resources, LostForGood(r)
  PROVE  job'[r].pc = "idle"
  BY FailPc DEF LostForGood

LEMMA SetFieldPc ==
  ASSUME NEW j, "pc" \in DOMAIN j, NEW pc
  PROVE  [j EXCEPT !.pc = pc].pc = pc
  OBVIOUS

\* Only Guard starts to remove.
LEMMA NotRemoving ==
  ASSUME Certain, NEW r \in Resources, Begin(r) \/ Step(r), ~Guard(r), ~Remove(r)
  PROVE  job'[r].pc # "remove"
<1>0. JobOK(r, job[r], known[r], fresh)
  BY DEF Certain
<1>1. "pc" \in DOMAIN job[r]
  BY <1>0 DEF JobOK, Idle
<1>2. CASE Create(r)
  <2>1. CASE Kind[r] = "binding"
    <3>1. job'[r] = [pc |-> "find", to |-> known[Target[r]].id]
      BY <1>2, <2>1, GotoFrame DEF Create
    <3> QED
      BY <3>1
  <2>2. CASE Kind[r] # "binding"
    <3>1. job'[r] = FirstStep(r, "create")
      BY <1>2, <2>2, GotoFrame DEF Create
    <3> QED
      BY <3>1, FirstStepPc
  <2> QED
    BY <2>1, <2>2
<1>3. CASE Read(r)
  <2>1. CASE Goto(r, [pc |-> "readBySubject"])
    <3>1. job'[r] = [pc |-> "readBySubject"]
      BY <2>1, GotoFrame
    <3> QED
      BY <3>1
  <2> QED
    BY <1>3, <2>1, RefreshedPc, FailPc DEF Read
<1>4. CASE ReadBinding(r)
  <2>1. ASSUME NEW to, NEW i,
               job' = [job EXCEPT ![r] = IF i = to THEN Idle ELSE [pc |-> "find", to |-> to]]
        PROVE  job'[r].pc # "remove"
    <3>1. job'[r] = Idle \/ job'[r] = [pc |-> "find", to |-> to]
      BY <2>1 DEF Certain
    <3> QED
      BY <3>1, IdlePc
  <2> QED
    BY <1>4, <2>1, FailPc DEF ReadBinding
<1>5. CASE ReadBySubject(r)
  BY <1>5, RefreshedPc, FailPc DEF ReadBySubject
<1>6. CASE ImportNew(r)
  <2>1. job[r].pc = "import"
    BY <1>6 DEF ImportNew, At
  <2>2. ASSUME NEW id, NEW made,
               Goto(r, [pc |-> "settle", verb |-> "create", id |-> id, made |-> made])
        PROVE  job'[r].pc # "remove"
    <3>1. job'[r] = [pc |-> "settle", verb |-> "create", id |-> id, made |-> made]
      BY <2>2, GotoFrame
    <3> QED
      BY <3>1
  <2> QED
    BY <1>6, <2>1, <2>2, AgainPc, LostPc DEF ImportNew
<1>7. CASE Rotate(r)
  <2>1. job[r].pc = "import"
    BY <1>7 DEF Rotate, At
  <2>2. ASSUME NEW id, NEW made,
               Goto(r, [pc |-> "settle", verb |-> "update", id |-> id, made |-> made])
        PROVE  job'[r].pc # "remove"
    <3>1. job'[r] = [pc |-> "settle", verb |-> "update", id |-> id, made |-> made]
      BY <2>2, GotoFrame
    <3> QED
      BY <3>1
  <2> QED
    BY <1>7, <2>1, <2>2, AgainPc, LostPc, FailPc DEF Rotate
<1>8. CASE Settle(r)
  BY <1>8, RecordPc, FailPc DEF Settle
<1>9. CASE Issue(r)
  <2>1. job[r].pc = "issue"
    BY <1>9 DEF Issue, At
  <2>2. ASSUME NEW made, Goto(r, [pc |-> "findIssued", verb |-> "create", made |-> made])
        PROVE  job'[r].pc # "remove"
    <3>1. job'[r] = [pc |-> "findIssued", verb |-> "create", made |-> made]
      BY <2>2, GotoFrame
    <3> QED
      BY <3>1
  <2> QED
    BY <1>9, <2>1, <2>2, AgainPc, LostPc DEF Issue
<1>10. CASE FindIssued(r)
  <2>1. ASSUME NEW id, NEW made, NEW seen,
               Goto(r, [pc |-> "claim", verb |-> "create", tries |-> 0, id |-> id,
                        made |-> made, seen |-> seen])
        PROVE  job'[r].pc # "remove"
    <3>1. job'[r] = [pc |-> "claim", verb |-> "create", tries |-> 0, id |-> id,
                     made |-> made, seen |-> seen]
      BY <2>1, GotoFrame
    <3> QED
      BY <3>1
  <2> QED
    BY <1>10, <2>1, RecordPc, FailPc DEF FindIssued
<1>11. CASE Claim(r)
  <2>1. job[r].pc = "claim"
    BY <1>11 DEF Claim, At
  <2>2. CASE Goto(r, [job[r] EXCEPT !.pc = "claimed"])
    <3>1. job'[r] = [job[r] EXCEPT !.pc = "claimed"]
      BY <2>2, GotoFrame
    <3> QED
      BY <1>1, <3>1, SetFieldPc
  <2> QED
    BY <1>11, <2>1, <2>2, AgainPc, LostPc, FailPc DEF Claim
<1>12. CASE Claimed(r)
  <2>1. CASE job' = [job EXCEPT ![r] = Idle]
    BY <2>1, IdlePc DEF Certain
  <2> QED
    BY <1>12, <2>1, RecordPc DEF Claimed
<1>13. CASE Set(r)
  <2>1. job[r].pc = "set"
    BY <1>13 DEF Set, At
  <2>2. CASE Goto(r, [pc |-> "get", verb |-> "update"])
    <3>1. job'[r] = [pc |-> "get", verb |-> "update"]
      BY <2>2, GotoFrame
    <3> QED
      BY <3>1
  <2> QED
    BY <1>13, <2>1, <2>2, AgainPc, LostPc, FailPc DEF Set
<1>14. CASE Get(r)
  BY <1>14, RecordPc, FailPc DEF Get
<1>15. CASE Refused(r)
  BY <1>15, FailPc DEF Refused
<1>16. CASE FindTarget(r)
  <2>1. CASE Goto(r, [job[r] EXCEPT !.pc = "lookup"])
    <3>1. job'[r] = [job[r] EXCEPT !.pc = "lookup"]
      BY <2>1, GotoFrame
    <3> QED
      BY <1>1, <3>1, SetFieldPc
  <2> QED
    BY <1>16, <2>1, FailPc DEF FindTarget
<1>17. CASE FindBinding(r)
  <2>1. ASSUME NEW to, NEW old,
               Goto(r, [pc |-> "bind", to |-> to, old |-> old, tries |-> 0])
        PROVE  job'[r].pc # "remove"
    <3>1. job'[r] = [pc |-> "bind", to |-> to, old |-> old, tries |-> 0]
      BY <2>1, GotoFrame
    <3> QED
      BY <3>1
  <2>2. CASE Bound(r)
    BY <2>2, IdlePc DEF Bound, Certain
  <2> QED
    BY <1>17, <2>1, <2>2, FailPc DEF FindBinding
<1>18. CASE Bind(r)
  <2>1. job[r].pc = "bind"
    BY <1>18 DEF Bind, At
  <2>2. CASE Bound(r)
    BY <2>2, IdlePc DEF Bound, Certain
  <2> QED
    BY <1>18, <2>1, <2>2, AgainPc, LostPc, FailPc DEF Bind
<1> QED
  BY <1>2, <1>3, <1>4, <1>5, <1>6, <1>7, <1>8, <1>9, <1>10, <1>11, <1>12, <1>13, <1>14, <1>15,
     <1>16, <1>17, <1>18 DEF Begin, Step

\* The steps that neither move a service nor begin to read them again.
LEMMA ServesAsBefore ==
  ASSUME NEW r, Begin(r) \/ Step(r), ~Guard(r), ~Remove(r), ~Bind(r)
  PROVE  served' = served /\ late' = late
BY DEF Begin, Step, Create, Read, ReadBinding, ReadBySubject, ImportNew, Rotate, Settle, Issue,
   FindIssued, Claim, Claimed, Set, Get, Refused, FindTarget, FindBinding, Install, dsm

LEMMA GuardSpares ==
  ASSUME Certain, Tracked, AllSpared, NEW r \in Resources, Guard(r)
  PROVE  AllSpared'
<1>1. Proper(r)
  BY GuardProper
<1>2. /\ certs' = certs /\ served' = served /\ late' = late \ {r} /\ configs' = configs
  BY DEF Guard
<1>3. ASSUME job'[r].pc = "remove", NEW s \in Services PROVE Spared(r, s)'
  <2>1. CASE Installed(known[r].id) /\ (InUse(known[r].id) => Want(r).force) /\ UNCHANGED known
    BY <1>2, <2>1 DEF Spared, InUse, Want, Installed
  <2> QED
    BY <1>3, <2>1, FailPc DEF Guard, Goto
<1> QED
  BY <1>1, <1>2, <1>3, SparedByStep

LEMMA RemoveSpares ==
  ASSUME Certain, Tracked, AllSpared, NEW r \in Resources, Remove(r)
  PROVE  AllSpared'
<1> DEFINE id == known[r].id
<1>1. Proper(r)
  BY RemoveProper
<1>2. CASE Installed(id) /\ Uninstall(id) /\ (Forget(r) \/ AgainPlain(r) \/ LostForGood(r))
  <2>1. PICK instead \in {NoId, default'} :
            /\ served' = [s \in Services |-> IF served[s] = id THEN instead ELSE served[s]]
            /\ late' = IF InUse(id) THEN Overtaken(instead) ELSE late
    BY <1>2 DEF Uninstall
  <2>2. late \subseteq late'
    BY <2>1, OvertakenForm
  <2>3. ASSUME NEW s \in Services
        PROVE  served'[s] = served[s] \/ Overtaken(served'[s]) \subseteq late'
    <3>1. CASE served[s] = id
      BY <2>1, <3>1 DEF InUse
    <3>2. CASE served[s] # id
      BY <2>1, <3>2
    <3> QED
      BY <3>1, <3>2
  <2>4. id \notin DOMAIN certs'
    BY <1>2, UninstallGoes DEF Installed
  <2>5. ASSUME job'[r].pc = "remove", NEW s \in Services PROVE Spared(r, s)'
    <3>1. known'[r].id = id
      BY <1>2, <2>5, FailPc, LostPc, GotoFrame DEF AgainPlain
    <3> QED
      BY <2>4, <3>1 DEF Spared, Installed
  <2> QED
    BY <1>1, <2>2, <2>3, <2>5, SparedByStep
<1>3. CASE Fail(r) /\ UNCHANGED dsm
  BY <1>1, <1>3, FailPc, SparedByStep DEF dsm
<1> QED
  BY <1>2, <1>3 DEF Remove

LEMMA BindSpares ==
  ASSUME Certain, Tracked, AllSpared, NEW r \in Resources, Bind(r)
  PROVE  AllSpared'
<1> DEFINE to == IF served[Service[r]] = job[r].to THEN default ELSE job[r].to
<1>1. Proper(r)
  BY BindProper
<1>2. job'[r].pc # "remove"
  <2>1. ~Guard(r) /\ ~Remove(r)
    BY DEF Bind, Guard, Remove, At
  <2> QED
    BY <2>1, NotRemoving DEF Step
<1>3. CASE served' = [served EXCEPT ![Service[r]] = to] /\ late' = Overtaken(served'[Service[r]])
  <2>1. late \subseteq late'
    BY <1>3, OvertakenForm
  <2> HIDE DEF to
  <2>2. \A s \in Services : served'[s] = served[s] \/ Overtaken(served'[s]) \subseteq late'
    BY <1>3 DEF Certain, DsmOK
  <2> QED
    BY <1>1, <1>2, <2>1, <2>2, SparedByStep
<1>4. CASE UNCHANGED <<served, late>>
  BY <1>1, <1>2, <1>4, SparedByStep
<1> QED
  BY <1>3, <1>4 DEF Bind

\* What no operation does: the removals under way stay where they are.
LEMMA WorldSpares ==
  ASSUME Certain, AllSpared, UNCHANGED <<configs, known, job>>, late \subseteq late',
         \A id \in DOMAIN certs' : id \in DOMAIN certs \/ id = fresh,
         \A s \in Services : \/ served'[s] = served[s]
                             \/ Overtaken(served'[s]) \subseteq late'
                             \/ served'[s] = fresh
  PROVE  AllSpared'
<1> SUFFICES ASSUME NEW q \in Resources, NEW s \in Services PROVE Spared(q, s)'
  BY DEF AllSpared
<1>1. /\ configs' = configs /\ known'[q] = known[q] /\ job'[q] = job[q]
      /\ q \in late => q \in late'
  OBVIOUS
<1>2. CASE job[q].pc = "remove"
  BY <1>1, <1>2, SparedStays
<1>3. CASE job[q].pc # "remove"
  BY <1>1, <1>3 DEF Spared, At
<1> QED
  BY <1>2, <1>3

LEMMA NextSpares ==
  ASSUME Certain, Tracked, AllSpared, [Next]_vars
  PROVE  AllSpared'
<1>1. ASSUME NEW r \in Resources, Begin(r) \/ Step(r) PROVE AllSpared'
  <2>1. CASE Guard(r) \/ Remove(r) \/ Bind(r)
    BY <2>1, GuardSpares, RemoveSpares, BindSpares
  <2>2. CASE ~Guard(r) /\ ~Remove(r) /\ ~Bind(r)
    <3>1. served' = served /\ late' = late
      BY <1>1, <2>2, ServesAsBefore
    <3>2. job'[r].pc # "remove" /\ Proper(r)
      BY <1>1, <2>2, NotRemoving, StepProper
    <3> QED
      BY <3>1, <3>2, SparedByStep
  <2> QED
    BY <2>1, <2>2
<1>2. CASE Reconfigure
  <2>1. \A r \in Resources : job'[r].pc = "idle"
    BY <1>2 DEF Reconfigure, At
  <2> QED
    BY <2>1 DEF AllSpared, Spared, At
<1>3. CASE Restart
  <2>1. \A r \in Resources : job'[r].pc = "idle"
    BY <1>3, IdlePc DEF Restart
  <2> QED
    BY <2>1 DEF AllSpared, Spared, At
<1>4. CASE AssignByHand
  <2>1. PICK s \in Services, id \in DOMAIN certs \union {NoId} :
            served' = [served EXCEPT ![s] = id] /\ late' = Overtaken(id)
    BY <1>4 DEF AssignByHand
  <2>2. \A t \in Services : served'[t] = served[t] \/ Overtaken(served'[t]) \subseteq late'
    BY <2>1 DEF Certain, DsmOK
  <2>3. late \subseteq late'
    BY <2>1, OvertakenForm
  <2> QED
    BY <1>4, <2>2, <2>3, WorldSpares DEF AssignByHand
<1>5. CASE ByHand
  <2>1. \A id \in DOMAIN certs' : id \in DOMAIN certs
    BY <1>5 DEF ByHand
  <2>2. UNCHANGED <<configs, known, job>> /\ late' = late /\ served' = served
    BY <1>5 DEF ByHand
  <2> QED
    BY <2>1, <2>2, WorldSpares
<1>6. CASE Renew
  <2>1. UNCHANGED <<configs, known, job>> /\ late' = late
    BY <1>6 DEF Renew
  <2>2. /\ \A id \in DOMAIN certs' : id \in DOMAIN certs \/ id = fresh
        /\ \A s \in Services : served'[s] = served[s] \/ served'[s] = fresh
    BY <1>6 DEF Renew
  <2> QED
    BY <2>1, <2>2, WorldSpares
<1>7. CASE UNCHANGED vars
  <2>1. UNCHANGED <<configs, known, job>> /\ late' = late /\ served' = served /\ certs' = certs
    BY <1>7 DEF vars
  <2> QED
    BY <2>1, WorldSpares
<1> QED
  BY <1>1, <1>2, <1>3, <1>4, <1>5, <1>6, <1>7 DEF Next

\* A destroy without force_destroy takes no certificate away from a service, except from
\* one that was assigned after the services were read again.
THEOREM ServicesAreSpared == Spec => ServedStays
<1>1. Init => CertInv
  BY InitTracked DEF CertInv
<1>2. CertInv /\ [Next]_vars => CertInv'
  BY NextTracked, NextSpares DEF CertInv
<1>3. CertInv => \A r \in Resources, s \in Services :
          At(r, "remove") /\ ~Want(r).force /\ served[s] = known[r].id /\ Installed(known[r].id)
          => r \in late
  BY DEF CertInv, AllSpared, Spared
<1>4. CertInv /\ [Next]_vars =>
          [\A r \in Resources, s \in Services :
              At(r, "remove") /\ ~Want(r).force /\ served[s] = known[r].id
              /\ Installed(known[r].id) /\ known[r].id \notin DOMAIN certs'
              => r \in late]_vars
  BY <1>3
<1> QED
  BY <1>1, <1>2, <1>4, PTL DEF Spec, ServedStays

----------------------------------------------------------------------------
(***************************************************************************)
(* What is reported of a binding.                                          *)
(***************************************************************************)
\* Only its own request reports it.
LEMMA OnlyBind ==
  ASSUME Certain, Tracked, NEW r \in Resources, job[r].pc = "bind", [Next]_vars,
         known'[r] # known[r]
  PROVE  Bind(r) /\ Bound(r)
<1>1. ASSUME NEW q \in Resources, Begin(q) \/ Step(q) PROVE q = r
  <2>1. CASE q # r
    BY <1>1, <2>1, StepProper DEF Proper, Frame
  <2> QED
    BY <2>1
<1>2. Begin(r) \/ Step(r)
  <2>1. known' # known
    OBVIOUS
  <2>2. ~Reconfigure /\ ~AssignByHand /\ ~ByHand /\ ~Renew /\ ~Restart /\ ~UNCHANGED vars
    BY <2>1 DEF Reconfigure, AssignByHand, ByHand, Renew, Restart, vars
  <2> QED
    BY <1>1, <2>2 DEF Next
<1>3. ~Begin(r)
  BY DEF Begin, Create, Read, ReadBinding, At
<1>4. Bind(r) \/ Refused(r)
  BY <1>2, <1>3 DEF Step, ReadBySubject, ImportNew, Rotate, Settle, Issue, FindIssued, Claim,
     Claimed, Set, Get, Guard, Remove, FindTarget, FindBinding, At
<1>5. ~Fail(r) /\ ~AgainPlain(r)
  BY DEF Fail, AgainPlain, Goto
<1> QED
  BY <1>4, <1>5 DEF Bind, Refused, LostForGood

\* A binding is reported only if the service has the certificate then, unless the service
\* was moved between the lookup and the request.
THEOREM BindingsAreTrue == Spec => BoundAsReported
<1>1. Init => Certain /\ Tracked
  BY InitTracked
<1>2. Certain /\ Tracked /\ [Next]_vars => (Certain /\ Tracked)'
  BY NextTracked
<1>3. ASSUME Certain, Tracked, [Next]_vars, NEW r \in Resources, At(r, "bind"),
             known'[r] # known[r], served[Service[r]] = job[r].old
      PROVE  served'[Service[r]] = job[r].to
  <2>1. job[r].pc = "bind" /\ Bind(r) /\ ~Fail(r)
    <3>1. job[r].pc = "bind"
      BY <1>3 DEF At
    <3> QED
      BY <1>3, <3>1, OnlyBind DEF Fail, Goto
  <2>2. served' = [served EXCEPT ![Service[r]] = IF served[Service[r]] = job[r].to THEN default
                                                 ELSE job[r].to]
    BY <2>1 DEF Bind
  <2>3. job[r].old # job[r].to /\ Service[r] \in DOMAIN served
    BY <1>3, <2>1, BindingForm, ServedForm DEF Certain, DsmOK
  <2> QED
    BY <1>3, <2>2, <2>3
<1>4. Certain /\ Tracked /\ [Next]_vars =>
          [\A r \in Resources :
              At(r, "bind") /\ known'[r] # known[r] =>
                  served'[Service[r]] = job[r].to \/ served[Service[r]] # job[r].old]_vars
  BY <1>3
<1> QED
  BY <1>1, <1>2, <1>4, PTL DEF Spec, BoundAsReported
=============================================================================
