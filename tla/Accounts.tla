------------------------------ MODULE Accounts -----------------------------
(***************************************************************************)
(* What stands between a password and a session (auth_handler.go and the   *)
(* statements of user_repo.go and rest_repo.go): the window of attempts    *)
(* that each API process keeps in memory, the count of failures and the    *)
(* lock in the row of the user, and the tokens that reset a password.      *)
(* A handler is a row of statements that commit one by one, and handlers   *)
(* interleave: a login judges the password by the row as it read it.       *)
(*                                                                         *)
(* Names carry the prefix Acc, for the runs that put this module beside    *)
(* another one.                                                            *)
(***************************************************************************)
EXTENDS Naturals, Sequences, FiniteSets

CONSTANTS
  AccUsers,
  Addresses,        \* of clients
  AccHandlers,      \* requests at work at the same time
  ResetTokens,
  MaxAttempts, AttemptWindow,                        \* 5 per 5 minutes
  LockoutThreshold, LockoutWindow, LockoutDuration,  \* 0 unless configured
  ResetTTL,                                          \* 0 unless configured
  MaxNow,           \* bound of the clock
  MaxLogins         \* bound of the attempts let pass for one key

ASSUME AccountsAssumption ==
  /\ \A n \in {MaxAttempts, AttemptWindow, LockoutThreshold, LockoutWindow,
               LockoutDuration, ResetTTL, MaxNow, MaxLogins} : n \in Nat
  /\ IsFiniteSet(AccHandlers)

Keys == Addresses \X AccUsers
Null == 0           \* NULL in a column of times; the clock starts at 1
NoRequest == [pc |-> "idle"]

VARIABLES
  now,
  attempts,     \* AuthHandler.attempts: recent times by address and user
  passed,       \* history: all times at which an attempt was let pass
  account,      \* failed_attempts, last_failed_at, locked_until; admits:
                \* the addresses its lists allow, none if it is inactive
  failures,     \* history: failures recorded since the account was cleared
  overrun,      \* history: those recorded under the lock that is on
  token,        \* password_reset_tokens
  resets,       \* history: passwords set with each token
  request       \* what each handler is at

windowVars == <<attempts, passed>>
lockVars == <<account, failures, overrun>>
resetVars == <<token, resets>>
accVars == <<now, windowVars, lockVars, resetVars, request>>

AccInit ==
  /\ now = 1
  /\ attempts = [k \in Keys |-> <<>>] /\ passed = attempts
  /\ account = [u \in AccUsers |->
                  [failed |-> 0, last |-> Null, until |-> Null,
                   admits |-> Addresses]]
  /\ failures = [u \in AccUsers |-> 0] /\ overrun = failures
  /\ token = [t \in ResetTokens |-> [state |-> "none"]]
  /\ resets = [t \in ResetTokens |-> 0]
  /\ request = [h \in AccHandlers |-> NoRequest]

Locked(a) == now < a.until
At(h, stage) == request[h].pc = stage
GoesTo(h, stage) == request' = [request EXCEPT ![h].pc = stage]
Answers(h) == request' = [request EXCEPT ![h] = NoRequest]
-----------------------------------------------------------------------------
(* Login.                                                                  *)

\* The times of a list come from one clock, under the mutex: the old ones are
\* at its head.
Without(times, old) == SubSeq(times, Cardinality(old) + 1, Len(times))

\* Mutant: a time that is a window old does not count.
RecentStrictly(times) ==
  Without(times, {i \in DOMAIN times : now - times[i] >= AttemptWindow})

\* What allowAttempt keeps of a list.
Recent(times) ==
  Without(times, {i \in DOMAIN times : now - times[i] > AttemptWindow})

Full(k) == Len(Recent(attempts[k])) >= MaxAttempts

TooManyAttempts(k) ==
  /\ Full(k)
  /\ attempts' = [attempts EXCEPT ![k] = Recent(@)]
  /\ UNCHANGED <<now, passed, lockVars, resetVars, request>>

\* The attempt is let pass; good says whether the password will be right.
LoginBegins(h, k, good) ==
  /\ At(h, "idle") /\ ~Full(k)
  /\ Len(passed[k]) < MaxLogins
  /\ attempts' = [attempts EXCEPT ![k] = Append(Recent(@), now)]
  /\ passed' = [passed EXCEPT ![k] = Append(@, now)]
  /\ request' = [request EXCEPT ![h] = [pc |-> "read", addr |-> k[1],
                                        user |-> k[2], good |-> good]]
  /\ UNCHANGED <<now, lockVars, resetVars>>

\* GetWithHashByUsername and the checks of what it returned.  Mutant: the
\* lock is not looked at.
Verdict(h, lockCounts) ==
  LET a == account[request[h].user] IN
  IF request[h].addr \notin a.admits THEN "failure"
  ELSE IF lockCounts /\ Locked(a) THEN "locked"
  ELSE IF request[h].good THEN "success" ELSE "wrong"

Judge(h, verdict) ==
  /\ At(h, "read")
  /\ IF verdict = "locked" THEN Answers(h) ELSE GoesTo(h, verdict)
  /\ UNCHANGED <<now, windowVars, lockVars, resetVars>>

ReadIgnoresLock(h) == Judge(h, Verdict(h, FALSE))
ReadUser(h) == Judge(h, Verdict(h, TRUE))

\* RecordLoginFailure: an address that is not let in.
RecordFailure(h) ==
  LET u == request[h].user IN
  /\ At(h, "failure")
  /\ account' = [account EXCEPT ![u].failed = @ + 1]
  /\ failures' = [failures EXCEPT ![u] = @ + 1]
  /\ Answers(h)
  /\ UNCHANGED <<now, windowVars, overrun, resetVars>>

\* RecordLoginFailureWithLockout, in one statement.
AfterWrong(a) ==
  LET fresh == a.last = Null \/ now - a.last > LockoutWindow
      count == IF fresh THEN 1 ELSE a.failed + 1 IN
  [a EXCEPT !.failed = count,
            !.last = now,
            !.until = IF count >= LockoutThreshold THEN now + LockoutDuration
                      ELSE @]

RecordWrong(h) ==
  LET u == request[h].user IN
  /\ At(h, "wrong")
  /\ account' = [account EXCEPT ![u] = AfterWrong(@)]
  /\ failures' = [failures EXCEPT ![u] = @ + 1]
  /\ overrun' = [overrun EXCEPT ![u] = IF Locked(account[u]) THEN @ + 1 ELSE 0]
  /\ Answers(h)
  /\ UNCHANGED <<now, windowVars, resetVars>>

\* RecordLoginSuccess, and then ClearFailuresAndUnlock.
RecordSuccess(h) ==
  /\ At(h, "success")
  /\ account' = [account EXCEPT ![request[h].user].failed = 0]
  /\ GoesTo(h, "clear")
  /\ UNCHANGED <<now, windowVars, failures, overrun, resetVars>>

Cleared(u) ==
  /\ account' = [account EXCEPT ![u].failed = 0, ![u].last = Null,
                                ![u].until = Null]
  /\ failures' = [failures EXCEPT ![u] = 0]
  /\ UNCHANGED overrun

ClearFailures(h) ==
  /\ At(h, "clear")
  /\ Cleared(request[h].user)
  /\ Answers(h)
  /\ UNCHANGED <<now, windowVars, resetVars>>

\* The errors of these statements are dropped.
RecordFails(h) ==
  /\ request[h].pc \in {"failure", "wrong", "success", "clear"}
  /\ IF At(h, "success") THEN GoesTo(h, "clear") ELSE Answers(h)
  /\ UNCHANGED <<now, windowVars, lockVars, resetVars>>
-----------------------------------------------------------------------------
(* Password reset.                                                         *)

\* RequestPasswordReset: NewResetToken and ResetRepo.Create; if that fails,
\* nobody is told.
RequestReset(u, t) ==
  /\ token[t].state = "none"
  /\ token' = [token EXCEPT ![t] = [state |-> "unused", user |-> u,
                                    expires |-> now + ResetTTL]]
  /\ UNCHANGED <<now, windowVars, lockVars, resets, request>>

\* Mutant: ResetRepo.Use looks at the token in one statement and marks it in
\* another, with the password.
LookAtToken(h, t) ==
  /\ At(h, "idle") /\ token[t].state = "unused" /\ now < token[t].expires
  /\ request' = [request EXCEPT ![h] = [pc |-> "set", token |-> t]]
  /\ UNCHANGED <<now, windowVars, lockVars, resetVars>>

\* ResetRepo.Use: the token is good once, and is spent whatever comes then.
UseToken(h, t) ==
  /\ At(h, "idle") /\ token[t].state = "unused" /\ now < token[t].expires
  /\ token' = [token EXCEPT ![t].state = "used"]
  /\ request' = [request EXCEPT ![h] = [pc |-> "set", token |-> t]]
  /\ UNCHANGED <<now, windowVars, lockVars, resets>>

\* Mutant: the count of failures is not cleared.
SetPasswordKeepsCount(h) ==
  LET t == request[h].token IN
  /\ At(h, "set")
  /\ account' = [account EXCEPT ![token[t].user].until = Null]
  /\ failures' = [failures EXCEPT ![token[t].user] = 0]
  /\ resets' = [resets EXCEPT ![t] = @ + 1]
  /\ Answers(h)
  /\ UNCHANGED <<now, windowVars, overrun, token>>

SetPassword(h) ==
  LET t == request[h].token IN
  /\ At(h, "set")
  /\ Cleared(token[t].user)
  /\ resets' = [resets EXCEPT ![t] = @ + 1]
  /\ Answers(h)
  /\ UNCHANGED <<now, windowVars, token>>

SetPasswordFails(h) ==
  /\ At(h, "set")
  /\ Answers(h)
  /\ UNCHANGED <<now, windowVars, lockVars, resetVars>>
-----------------------------------------------------------------------------
(* Administrators and the clock.                                           *)

UnlockAccount(u) ==
  /\ account[u].until # Null
  /\ Cleared(u)
  /\ UNCHANGED <<now, windowVars, resetVars, request>>

\* Update: is_active, allowed_ips and denied_ips.
Admit(u, addresses) ==
  /\ account' = [account EXCEPT ![u].admits = addresses]
  /\ UNCHANGED <<now, windowVars, failures, overrun, resetVars, request>>

Tick ==
  /\ now < MaxNow
  /\ now' = now + 1
  /\ UNCHANGED <<windowVars, lockVars, resetVars, request>>

AccHandler(h) ==
  \/ \E k \in Keys, good \in BOOLEAN : LoginBegins(h, k, good)
  \/ ReadUser(h) \/ RecordFailure(h) \/ RecordWrong(h)
  \/ RecordSuccess(h) \/ ClearFailures(h) \/ RecordFails(h)
  \/ \E t \in ResetTokens : UseToken(h, t)
  \/ SetPassword(h) \/ SetPasswordFails(h)

AccNext ==
  \/ \E h \in AccHandlers : AccHandler(h)
  \/ \E k \in Keys : TooManyAttempts(k)
  \/ \E u \in AccUsers, t \in ResetTokens : RequestReset(u, t)
  \/ \E u \in AccUsers : UnlockAccount(u)
  \/ \E u \in AccUsers, as \in SUBSET Addresses : Admit(u, as)
  \/ Tick

AccSpec == AccInit /\ [][AccNext]_accVars
-----------------------------------------------------------------------------
(* Properties.                                                             *)

Request ==
  {NoRequest}
    \cup [pc : {"read", "failure", "wrong", "success", "clear"},
          addr : Addresses, user : AccUsers, good : BOOLEAN]
    \cup [pc : {"set"}, token : ResetTokens]

\* Types; a list of attempts never grows beyond the limit.
AccTypeOK ==
  /\ now \in Nat
  /\ \A k \in Keys : Len(attempts[k]) <= MaxAttempts
  /\ attempts \in [Keys -> Seq(Nat)] /\ passed \in [Keys -> Seq(Nat)]
  /\ account \in [AccUsers -> [failed : Nat, last : Nat, until : Nat,
                               admits : SUBSET Addresses]]
  /\ failures \in [AccUsers -> Nat] /\ overrun \in [AccUsers -> Nat]
  /\ token \in [ResetTokens ->
                  {[state |-> "none"]}
                    \cup [state : {"unused", "used"}, user : AccUsers,
                          expires : Nat]]
  /\ resets \in [ResetTokens -> Nat]
  /\ request \in [AccHandlers -> Request]

\* "rate limit: 5 attempts per 5 minutes per IP+username" (Login): of any
\* MaxAttempts + 1 attempts that one process lets pass, the last comes more
\* than a window after the first, although the list that allowAttempt compacts
\* in place is all it remembers.
WindowKept ==
  \A k \in Keys : \A i \in DOMAIN passed[k] :
    i > MaxAttempts => passed[k][i] - passed[k][i - MaxAttempts] > AttemptWindow

\* A lock stops guessing (Login): once it is on, no more passwords are judged
\* than there were logins under way that had read the row before.
LockStops == \A u \in AccUsers : overrun[u] < Cardinality(AccHandlers)

\* An account is locked only after LockoutThreshold failures since it was
\* last cleared by a login, a reset or an administrator, whichever statements
\* of other logins came between (RecordLoginFailureWithLockout).
LockEarned ==
  \A u \in AccUsers : Locked(account[u]) => failures[u] >= LockoutThreshold

\* "atomically mark used if valid" (ResetRepo.Use): no two confirmations set a
\* password with one token.
TokenOnce == \A t \in ResetTokens : resets[t] <= 1
=============================================================================
