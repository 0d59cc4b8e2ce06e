------------------------------- MODULE Session -------------------------------
(***************************************************************************)
(* One API call of the DSM client: authentication, retry and re-login, for *)
(* calls that run concurrently over one shared session (client/client.go,  *)
(* and the file transfers of client/file.go).                              *)
(*                                                                         *)
(* A session is the number of the login that created it; NoSession stands  *)
(* for a request that carries none.                                        *)
(***************************************************************************)
EXTENDS Naturals, FiniteSets

CONSTANTS
    Calls,       \* each makes one API call
    Kinds,       \* what kinds of call are made, a subset of CallKinds
    MaxRetries   \* maxRetries: attempts per call, 3 in the code

\* A GET and a POST carry the session in parameters built once, a file transfer
\* asks for the session at every attempt.  A "refused" GET is answered 119
\* whatever session it carries (SYNO.Core.User.Home for most accounts).
CallKinds == {"get", "post", "file", "refused"}

ASSUME KindsAssumption == Kinds \subseteq CallKinds
ASSUME RetriesAssumption == MaxRetries \in Nat \ {0}

NoSession == 0

VARIABLES
    session,   \* the client's session
    issued,    \* the number of logins DSM has accepted
    heard,     \* the last of them whose answer reached the provider
    valid,     \* the sessions DSM accepts
    loginMu,   \* who holds loginMu
    call       \* where each call is

sessionVars == <<session, issued, heard, valid, loginMu, call>>

Nobody == "nobody"

ASSUME CallsAssumption == Nobody \notin Calls

\* "error" is a code of DSM's other than 119, "unanswered" anything else that is
\* returned at once.
Outcomes == {"ok", "expired", "error", "unanswered", "cancelled", "exhausted", "loginFailed"}

\* The provider has logged in before it makes its first call.
SessionInit ==
    /\ session = 1
    /\ issued = 1
    /\ heard = 1
    /\ valid = {1}
    /\ loginMu = Nobody
    /\ \E kind \in [Calls -> Kinds] : call = [c \in Calls |->
          [pc |-> "begin", kind |-> kind[c], attempt |-> 0, reloggedIn |-> FALSE,
           param |-> NoSession,     \* the session in the parameters
           refused |-> NoSession,   \* the session that was answered 119, if any
           used |-> NoSession,      \* the session of the last request
           performed |-> 0, lost |-> 0]]

CallAt(c, pc) == call[c].pc = pc

\* Everything but the call itself stays as it is.
Become(c, next) ==
    /\ call' = [call EXCEPT ![c] = next]
    /\ UNCHANGED <<session, issued, heard, valid, loginMu>>

Return(c, outcome) == Become(c, [call[c] EXCEPT !.pc = outcome])

\* buildParams puts the session of this moment into the parameters.
BuildParams(c) ==
    /\ CallAt(c, "begin")
    /\ Become(c, [call[c] EXCEPT !.pc = "request", !.param = session])

----------------------------------------------------------------------------
(***************************************************************************)
(* One attempt (executeRequest, uploadAttempt, downloadAttempt).           *)
(***************************************************************************)
\* The session the request carries.
Carried(c) == IF call[c].kind = "file" THEN session ELSE call[c].param

\* Making the request of a POST takes the session out of the parameters, which
\* are the ones the next attempt starts from.
Requested(c) ==
    [call[c] EXCEPT !.used = Carried(c),
                    !.param = IF call[c].kind = "post" THEN NoSession ELSE @]

Accepted(c) == Carried(c) \in valid /\ call[c].kind # "refused"

\* Mutant: one attempt too many.
AgainOnceMore(next, pc) ==
    [next EXCEPT !.attempt = @ + 1,
                 !.pc = IF next.attempt = MaxRetries THEN "exhausted" ELSE pc]

\* What a loop does that comes round again: the attempt counts, whatever it was.
NextAttempt(next, pc) ==
    [next EXCEPT !.attempt = @ + 1,
                 !.pc = IF next.attempt + 1 = MaxRetries THEN "exhausted" ELSE pc]

\* Mutant: a success is tried again.
PerformsAgain(c) ==
    /\ CallAt(c, "request")
    /\ Accepted(c)
    /\ Become(c, NextAttempt([Requested(c) EXCEPT !.performed = @ + 1], "backoff"))

Performs(c) ==
    /\ CallAt(c, "request")
    /\ Accepted(c)
    /\ Become(c, [Requested(c) EXCEPT !.pc = "ok", !.performed = @ + 1])

\* No answer of DSM's was read: the connection failed, the request was cancelled, or
\* what came back is no envelope.  Whether that is tried again depends on the words of
\* the error alone: "i/o timeout" is, "Client.Timeout exceeded" is not.
NoAnswer(c, next) ==
    \/ Become(c, NextAttempt(next, "backoff"))
    \/ Become(c, [next EXCEPT !.pc = "unanswered"])

\* DSM does as it was told, and its answer does not arrive or cannot be read.
LosesAnswer(c) ==
    /\ CallAt(c, "request")
    /\ Accepted(c)
    /\ NoAnswer(c, [Requested(c) EXCEPT !.performed = @ + 1, !.lost = @ + 1])

\* A code other than 119: DSM has refused, and it is not asked again.
Rejects(c) ==
    /\ CallAt(c, "request")
    /\ Accepted(c)
    /\ Become(c, [Requested(c) EXCEPT !.pc = "error"])

\* DSM has not done it: it never saw the request, or died over it.
NotReached(c) ==
    /\ CallAt(c, "request")
    /\ NoAnswer(c, Requested(c))

\* 119: once it means logging in again, the second time it is the answer.
Expired(c) ==
    /\ CallAt(c, "request")
    /\ ~Accepted(c)
    /\ Become(c, IF call[c].reloggedIn
                 THEN [Requested(c) EXCEPT !.pc = "expired"]
                 ELSE [Requested(c) EXCEPT !.pc = "wantLogin", !.refused = Carried(c)])

\* The pause before the next attempt, unless the operation is cancelled.
Backoff(c) ==
    /\ CallAt(c, "backoff")
    /\ Return(c, "request") \/ Return(c, "cancelled")

----------------------------------------------------------------------------
(***************************************************************************)
(* relogin: one login at a time.  Whoever waited logs in all the same.     *)
(***************************************************************************)
\* Mutant: nobody waits.
LoginAtOnce(c) ==
    /\ CallAt(c, "wantLogin")
    /\ loginMu' = c
    /\ call' = [call EXCEPT ![c].pc = "login"]
    /\ UNCHANGED <<session, issued, heard, valid>>

TakeLoginMu(c) ==
    /\ CallAt(c, "wantLogin")
    /\ loginMu = Nobody
    /\ loginMu' = c
    /\ call' = [call EXCEPT ![c].pc = "login"]
    /\ UNCHANGED <<session, issued, heard, valid>>

\* Mutant: the lock covers the login call only, not what is done with its answer.
LoginUnlocks(c) ==
    /\ CallAt(c, "login")
    /\ issued' = issued + 1
    /\ heard' = issued'
    /\ valid' = valid \union {issued'}
    /\ call' = [call EXCEPT ![c].pc = "setSession", ![c].param = issued']
    /\ loginMu' = Nobody
    /\ UNCHANGED session

\* Mutant: a failed login keeps the lock.
LoginFailsLocked(c) ==
    /\ CallAt(c, "login")
    /\ call' = [call EXCEPT ![c].pc = "loginFailed"]
    /\ UNCHANGED <<session, issued, heard, valid, loginMu>>

\* DSM opens the session ...
LoginAccepted(c) ==
    /\ CallAt(c, "login")
    /\ issued' = issued + 1
    /\ heard' = issued'
    /\ valid' = valid \union {issued'}
    /\ call' = [call EXCEPT ![c].pc = "setSession", ![c].param = issued']
    /\ UNCHANGED <<session, loginMu>>

\* ... or opens it, and the answer is lost or unreadable: a session nobody carries ...
LoginUnheard(c) ==
    /\ CallAt(c, "login")
    /\ issued' = issued + 1
    /\ valid' = valid \union {issued'}
    /\ loginMu' = Nobody
    /\ call' = [call EXCEPT ![c].pc = "loginFailed"]
    /\ UNCHANGED <<session, heard>>

\* ... or refuses, or is not reached; a login is not retried.
LoginFails(c) ==
    /\ CallAt(c, "login")
    /\ loginMu' = Nobody
    /\ call' = [call EXCEPT ![c].pc = "loginFailed"]
    /\ UNCHANGED <<session, issued, heard, valid>>

SetSession(c) ==
    /\ CallAt(c, "setSession")
    /\ session' = call[c].param
    /\ loginMu' = Nobody
    /\ call' = [call EXCEPT ![c].pc = "refresh"]
    /\ UNCHANGED <<issued, heard, valid>>

\* Mutant: the call goes on with the session it had.
RefreshNothing(c) ==
    /\ CallAt(c, "refresh")
    /\ Become(c, NextAttempt([call[c] EXCEPT !.reloggedIn = TRUE, !.param = call[c].refused],
           "backoff"))

\* refreshSessionParams takes whatever session is current by now.
RefreshSessionParams(c) ==
    /\ CallAt(c, "refresh")
    /\ Become(c, NextAttempt([call[c] EXCEPT !.reloggedIn = TRUE, !.param = session], "backoff"))

----------------------------------------------------------------------------
\* DSM forgets a session; a login may make it forget the one before.
Expire ==
    /\ \E s \in valid : valid' = valid \ {s}
    /\ UNCHANGED <<session, issued, heard, loginMu, call>>

Terminating == (\A c \in Calls : call[c].pc \in Outcomes) /\ UNCHANGED sessionVars

CallStep(c) ==
    \/ BuildParams(c)
    \/ Performs(c) \/ LosesAnswer(c) \/ Rejects(c) \/ NotReached(c) \/ Expired(c)
    \/ Backoff(c)
    \/ TakeLoginMu(c) \/ LoginAccepted(c) \/ LoginUnheard(c) \/ LoginFails(c) \/ SetSession(c)
    \/ RefreshSessionParams(c)

SessionNext == (\E c \in Calls : CallStep(c)) \/ Expire \/ Terminating

SessionSpec == SessionInit /\ [][SessionNext]_sessionVars

\* A call under way is carried on: requests time out, waits are bounded.
FairSessionSpec == SessionSpec /\ \A c \in Calls : WF_sessionVars(CallStep(c))

----------------------------------------------------------------------------
(***************************************************************************)
(* Properties.                                                             *)
(***************************************************************************)
PCs == {"begin", "request", "backoff", "wantLogin", "login", "setSession", "refresh"}

\* At most one login is under way, and no login is under way without loginMu.
OneLogin == \A c \in Calls : call[c].pc \in {"login", "setSession"} <=> loginMu = c

\* The types, and OneLogin.
SessionTypeOK ==
    /\ OneLogin
    /\ session \in 1 .. heard /\ heard <= issued
    /\ issued \in Nat
    /\ valid \subseteq 1 .. issued
    /\ loginMu \in Calls \union {Nobody}
    /\ call \in [Calls ->
          [pc : PCs \union Outcomes, kind : Kinds, attempt : 0 .. MaxRetries,
           reloggedIn : BOOLEAN, param : 0 .. issued, refused : 0 .. issued,
           used : 0 .. issued, performed : 0 .. MaxRetries, lost : 0 .. MaxRetries]]

\* Once no login is under way the client's session is the last one DSM told it of: a
\* late answer never puts an older session back, and a login whose answer was lost
\* never keeps the ones after it from being installed.
LatestSession == loginMu = Nobody => session = heard

\* A call that is over was performed as often as an answer to it was lost, and once
\* more if it succeeded: a failure with every answer read, DSM's code among them,
\* has changed nothing at DSM, and a success is performed again only for a lost answer.
NothingBehind ==
    \A c \in Calls :
        call[c].pc \in Outcomes =>
            call[c].performed = call[c].lost + (IF call[c].pc = "ok" THEN 1 ELSE 0)

Genuine(c) == call[c].pc = "expired" => call[c].used > call[c].refused

\* A 119 is reported only when a session newer than the refused one was refused as
\* well: it is about the account, or the new session has expired too, and never
\* about a request that carried the old session or none.  A POST is excepted: one that
\* is sent again after a transient error carries no session.
ExpiredIsGenuine == \A c \in Calls : call[c].kind # "post" => Genuine(c)

\* What a call reports is what happened.
AnswersAreTrue == NothingBehind /\ ExpiredIsGenuine

\* Every call returns, whatever DSM answers.
EveryCallReturns == \A c \in Calls : <>(call[c].pc \in Outcomes)
=============================================================================
