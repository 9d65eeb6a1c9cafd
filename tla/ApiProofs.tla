------------------------------ MODULE ApiProofs ------------------------------
(***************************************************************************)
(* What the API promises of accounts, of permissions and of its lists, for *)
(* any number of users, handlers, tokens, processes and rows and any       *)
(* limits.  The three modules share no state: each has its own invariant.  *)
(***************************************************************************)
EXTENDS MCApi, FiniteSetTheorems, SequenceTheorems, TLAPS

(* Accounts: locks and reset tokens.                                       *)

Account == [failed : Nat, last : Nat, until : Nat, admits : SUBSET Addresses]
Token ==
  {[state |-> "none"]}
    \cup [state : {"unused", "used"}, user : AccUsers, expires : Nat]

\* The types that the proofs need: of all but the window of attempts.
AccTyped ==
  /\ now \in Nat \ {0}
  /\ account \in [AccUsers -> Account]
  /\ failures \in [AccUsers -> Nat]
  /\ token \in [ResetTokens -> Token]
  /\ resets \in [ResetTokens -> Nat]
  /\ request \in [AccHandlers -> Request]

\* An account that was ever locked since it was cleared has its failures, and
\* no fewer than the row counts.
CountsAreLow ==
  \A u \in AccUsers :
    /\ account[u].failed <= failures[u]
    /\ account[u].until # Null => failures[u] >= LockoutThreshold

Sets(h, t) == At(h, "set") /\ request[h].token = t

\* A token is in the hands of one confirmation, or has set a password, or
\* neither; only one that is spent.
TokenInOneHand ==
  \A t \in ResetTokens :
    /\ resets[t] <= 1
    /\ \A h \in AccHandlers : Sets(h, t) =>
         /\ token[t].state = "used" /\ resets[t] = 0
         /\ \A g \in AccHandlers : Sets(g, t) => g = h
    /\ token[t].state # "used" => resets[t] = 0

AccInv == AccTyped /\ CountsAreLow /\ TokenInOneHand
-----------------------------------------------------------------------------
\* The limits are natural numbers.
LEMMA Limits ==
  /\ LockoutThreshold \in Nat /\ LockoutDuration \in Nat
  /\ LockoutWindow \in Nat /\ ResetTTL \in Nat
BY AccountsAssumption

\* What counts a failure keeps the columns in their types, counts one more at
\* most, and locks only when the count has come to the threshold.
LEMMA AfterWrongCounts ==
  ASSUME NEW a \in Account, now \in Nat
  PROVE  /\ AfterWrong(a) \in Account
         /\ AfterWrong(a).failed <= a.failed + 1
         /\ \/ AfterWrong(a).until = a.until
            \/ AfterWrong(a).failed >= LockoutThreshold
<1> DEFINE fresh == a.last = Null \/ now - a.last > LockoutWindow
           count == IF fresh THEN 1 ELSE a.failed + 1
           until == IF count >= LockoutThreshold THEN now + LockoutDuration
                    ELSE a.until
<1>1. AfterWrong(a) = [a EXCEPT !.failed = count, !.last = now, !.until = until]
  BY DEF AfterWrong
<1>2. a.failed \in Nat /\ a.until \in Nat
  BY DEF Account
<1>3. count \in Nat /\ count <= a.failed + 1
  BY <1>2
<1>4. until \in Nat /\ (until = a.until \/ count >= LockoutThreshold)
  BY <1>2, <1>3, Limits
<1> HIDE DEF count, until
<1> QED
  BY <1>1, <1>3, <1>4 DEF Account

\* What a request carries, by where it is.
LEMMA RequestTyped ==
  ASSUME NEW r \in Request
  PROVE  /\ r.pc \in {"read", "failure", "wrong", "success", "clear"} =>
              r \in [pc : {"read", "failure", "wrong", "success", "clear"},
                     addr : Addresses, user : AccUsers, good : BOOLEAN]
         /\ r.pc = "set" => r.token \in ResetTokens
BY DEF Request, NoRequest

\* A handler that answers, or goes on with the login it is at.
LEMMA MovesTyped ==
  ASSUME AccTyped, NEW h \in AccHandlers,
         \/ Answers(h)
         \/ /\ request[h].pc \in {"read", "success"}
            /\ \E stage \in {"failure", "wrong", "success", "clear"} :
                 GoesTo(h, stage)
  PROVE  /\ request' \in [AccHandlers -> Request]
         /\ \A g \in AccHandlers : request'[g].pc = "set" =>
              request'[g] = request[g] /\ g # h
<1>1. CASE Answers(h)
  BY <1>1 DEF AccTyped, Answers, Request, NoRequest
<1>2. ASSUME NEW stage \in {"failure", "wrong", "success", "clear"},
             request[h].pc \in {"read", "success"}, GoesTo(h, stage)
      PROVE  /\ request' \in [AccHandlers -> Request]
             /\ \A g \in AccHandlers : request'[g].pc = "set" =>
                  request'[g] = request[g] /\ g # h
  <2>1. request[h] \in Request
    BY DEF AccTyped
  <2>2. [request[h] EXCEPT !.pc = stage] \in Request
    BY <1>2, <2>1, RequestTyped DEF Request
  <2>3. request' = [request EXCEPT ![h] = [request[h] EXCEPT !.pc = stage]]
    BY <1>2 DEF GoesTo
  <2>4. request'[h].pc = stage
    BY <1>2, <2>1, <2>3, RequestTyped DEF AccTyped
  <2> QED
    BY <2>2, <2>3, <2>4 DEF AccTyped
<1> QED
  BY <1>1, <1>2

\* Initially nothing is counted and no token is handed out.
LEMMA InitAccInv == AccInit => AccInv
BY DEF AccInit, AccInv, AccTyped, CountsAreLow, TokenInOneHand, Account, Token,
       Request, NoRequest, Sets, At, Null

\* A request that moves without a new password, and changes neither the
\* accounts nor the tokens.
LEMMA RequestMoves ==
  ASSUME AccInv, UNCHANGED <<lockVars, resetVars>>, now' \in Nat \ {0},
         request' \in [AccHandlers -> Request],
         \A h \in AccHandlers : request'[h].pc = "set" => request'[h] = request[h]
  PROVE  AccInv'
BY DEF AccInv, AccTyped, CountsAreLow, TokenInOneHand, Sets, At, lockVars, resetVars

\* The same with one account written: its counts must stay low.
LEMMA AccountWritten ==
  ASSUME AccInv, NEW u \in AccUsers, NEW a \in Account, NEW n \in Nat,
         account' = [account EXCEPT ![u] = a],
         failures' = [failures EXCEPT ![u] = n],
         a.failed <= n, a.until # Null => n >= LockoutThreshold,
         UNCHANGED <<now, resetVars>>,
         request' \in [AccHandlers -> Request],
         \A h \in AccHandlers : request'[h].pc = "set" => request'[h] = request[h]
  PROVE  AccInv'
<1>1. AccTyped'
  BY DEF AccInv, AccTyped, resetVars
<1>2. CountsAreLow'
  BY DEF AccInv, AccTyped, CountsAreLow
<1>3. TokenInOneHand'
  BY DEF AccInv, TokenInOneHand, Sets, At, resetVars
<1> QED
  BY <1>1, <1>2, <1>3 DEF AccInv

\* One more failure is counted, in the row and in the history.
LEMMA RecordFailureInv ==
  ASSUME AccInv, NEW h \in AccHandlers, RecordFailure(h)
  PROVE  AccInv'
<1> DEFINE u == request[h].user
           a == [account[u] EXCEPT !.failed = @ + 1]
<1>1. u \in AccUsers
  BY RequestTyped DEF RecordFailure, At, AccInv, AccTyped
<1>2. account[u] \in Account /\ failures[u] \in Nat
  BY <1>1 DEF AccInv, AccTyped
<1>3. a \in Account /\ a.failed = account[u].failed + 1 /\ a.until = account[u].until
  BY <1>2 DEF Account
<1>4. /\ a.failed <= failures[u] + 1
      /\ a.until # Null => failures[u] + 1 >= LockoutThreshold
  BY <1>1, <1>2, <1>3, Limits DEF AccInv, CountsAreLow, Account
<1>5. account' = [account EXCEPT ![u] = a]
  BY DEF RecordFailure
<1>6. failures' = [failures EXCEPT ![u] = failures[u] + 1]
  BY DEF RecordFailure
<1>7. UNCHANGED <<now, resetVars>> /\ Answers(h)
  BY DEF RecordFailure
<1>8. /\ request' \in [AccHandlers -> Request]
      /\ \A g \in AccHandlers : request'[g].pc = "set" => request'[g] = request[g]
  BY <1>7, MovesTyped DEF AccInv
<1>9. failures[u] + 1 \in Nat
  BY <1>2
<1> HIDE DEF u, a
<1> QED
  BY <1>1, <1>3, <1>4, <1>5, <1>6, <1>7, <1>8, <1>9, AccountWritten

\* A wrong password: the window and the lock are worked out in one statement.
LEMMA RecordWrongInv ==
  ASSUME AccInv, NEW h \in AccHandlers, RecordWrong(h)
  PROVE  AccInv'
<1> DEFINE u == request[h].user
           a == AfterWrong(account[u])
<1>1. u \in AccUsers
  BY RequestTyped DEF RecordWrong, At, AccInv, AccTyped
<1>2. account[u] \in Account /\ failures[u] \in Nat /\ now \in Nat
  BY <1>1 DEF AccInv, AccTyped
<1>3. /\ a \in Account /\ a.failed <= account[u].failed + 1
      /\ a.until = account[u].until \/ a.failed >= LockoutThreshold
  BY <1>2, AfterWrongCounts
<1>4. a.failed \in Nat /\ account[u].failed \in Nat
  BY <1>2, <1>3 DEF Account
<1>5. /\ account[u].failed <= failures[u]
      /\ account[u].until # Null => failures[u] >= LockoutThreshold
  BY <1>1 DEF AccInv, CountsAreLow
<1> HIDE DEF a
<1>6. /\ a.failed <= failures[u] + 1
      /\ a.until # Null => failures[u] + 1 >= LockoutThreshold
  BY <1>2, <1>3, <1>4, <1>5, Limits
<1>7. account' = [account EXCEPT ![u] = a]
  BY DEF RecordWrong, a
<1>8. failures' = [failures EXCEPT ![u] = failures[u] + 1]
  BY DEF RecordWrong
<1>9. UNCHANGED <<now, resetVars>> /\ Answers(h)
  BY DEF RecordWrong
<1>10. /\ request' \in [AccHandlers -> Request]
       /\ \A g \in AccHandlers : request'[g].pc = "set" => request'[g] = request[g]
  BY <1>9, MovesTyped DEF AccInv
<1>11. failures[u] + 1 \in Nat
  BY <1>2
<1> HIDE DEF u
<1> QED
  BY <1>1, <1>3, <1>6, <1>7, <1>8, <1>9, <1>10, <1>11, AccountWritten

\* A login: the count goes, and the lock and the history stay.
LEMMA RecordSuccessInv ==
  ASSUME AccInv, NEW h \in AccHandlers, RecordSuccess(h)
  PROVE  AccInv'
<1> DEFINE u == request[h].user
           a == [account[u] EXCEPT !.failed = 0]
<1>1. u \in AccUsers
  BY RequestTyped DEF RecordSuccess, At, AccInv, AccTyped
<1>2. account[u] \in Account /\ failures[u] \in Nat
  BY <1>1 DEF AccInv, AccTyped
<1>3. a \in Account /\ a.failed = 0 /\ a.until = account[u].until
  BY <1>2 DEF Account
<1>4. a.failed <= failures[u] /\ (a.until # Null => failures[u] >= LockoutThreshold)
  BY <1>1, <1>2, <1>3 DEF AccInv, CountsAreLow
<1>5. account' = [account EXCEPT ![u] = a]
  BY DEF RecordSuccess
<1>6. failures' = [failures EXCEPT ![u] = failures[u]]
  BY <1>1 DEF RecordSuccess, AccInv, AccTyped
<1>7. UNCHANGED <<now, resetVars>> /\ GoesTo(h, "clear") /\ request[h].pc = "success"
  BY DEF RecordSuccess, At
<1>8. /\ request' \in [AccHandlers -> Request]
      /\ \A g \in AccHandlers : request'[g].pc = "set" => request'[g] = request[g]
  BY <1>7, MovesTyped DEF AccInv
<1> HIDE DEF u, a
<1> QED
  BY <1>1, <1>2, <1>3, <1>4, <1>5, <1>6, <1>7, <1>8, AccountWritten

\* Whatever clears an account clears the history with it.
LEMMA ClearedRow ==
  ASSUME AccInv, NEW u \in AccUsers, Cleared(u)
  PROVE  \E a \in Account :
           /\ a.failed = 0 /\ a.until = Null
           /\ account' = [account EXCEPT ![u] = a]
           /\ failures' = [failures EXCEPT ![u] = 0]
<1> DEFINE a == [account[u] EXCEPT !.failed = 0, !.last = Null, !.until = Null]
<1>1. account[u] \in Account
  BY DEF AccInv, AccTyped
<1>2. a \in Account /\ a.failed = 0 /\ a.until = Null
  BY <1>1 DEF Account, Null
<1>3. account' = [account EXCEPT ![u] = a] /\ failures' = [failures EXCEPT ![u] = 0]
  BY DEF Cleared
<1> HIDE DEF a
<1> QED
  BY <1>2, <1>3

LEMMA ClearedInv ==
  ASSUME AccInv, NEW u \in AccUsers, Cleared(u), UNCHANGED <<now, resetVars>>,
         request' \in [AccHandlers -> Request],
         \A h \in AccHandlers : request'[h].pc = "set" => request'[h] = request[h]
  PROVE  AccInv'
<1>1. PICK a \in Account :
        /\ a.failed = 0 /\ a.until = Null
        /\ account' = [account EXCEPT ![u] = a]
        /\ failures' = [failures EXCEPT ![u] = 0]
  BY ClearedRow
<1>2. 0 \in Nat /\ a.failed <= 0 /\ (a.until # Null => 0 >= LockoutThreshold)
  BY <1>1
<1> QED
  BY <1>1, <1>2, AccountWritten

\* A token comes into the hands of a confirmation when it is spent: nobody
\* else has it, and no password was set with it.
LEMMA UseTokenInv ==
  ASSUME AccInv, NEW h \in AccHandlers, NEW t \in ResetTokens, UseToken(h, t)
  PROVE  AccInv'
<1> DEFINE r == [pc |-> "set", token |-> t]
<1>1. /\ token[t].state = "unused" /\ request[h].pc = "idle"
      /\ token' = [token EXCEPT ![t].state = "used"]
      /\ request' = [request EXCEPT ![h] = r]
      /\ UNCHANGED <<now, lockVars, resets>>
  BY DEF UseToken, At
<1>2. token[t] \in Token /\ [token[t] EXCEPT !.state = "used"] \in Token
      /\ [token[t] EXCEPT !.state = "used"].state = "used"
  BY <1>1 DEF AccInv, AccTyped, Token
<1>3. r \in Request /\ r.pc = "set" /\ r.token = t
  BY DEF Request
<1>4. AccTyped'
  BY <1>1, <1>2, <1>3 DEF AccInv, AccTyped, lockVars
<1>5. CountsAreLow'
  BY <1>1 DEF AccInv, CountsAreLow, lockVars
<1>6. resets[t] = 0 /\ \A g \in AccHandlers : ~Sets(g, t)
  BY <1>1 DEF AccInv, TokenInOneHand
<1>7. \A g \in AccHandlers : \A s \in ResetTokens :
        Sets(g, s)' <=> (IF g = h THEN s = t ELSE Sets(g, s))
  BY <1>1, <1>3 DEF AccInv, AccTyped, Sets, At
<1>8. \A s \in ResetTokens : token'[s].state = IF s = t THEN "used" ELSE token[s].state
  BY <1>1, <1>2 DEF AccInv, AccTyped
<1>9. TokenInOneHand'
  <2> SUFFICES ASSUME NEW s \in ResetTokens
               PROVE  /\ resets'[s] <= 1
                      /\ \A f \in AccHandlers : Sets(f, s)' =>
                           /\ token'[s].state = "used" /\ resets'[s] = 0
                           /\ \A g \in AccHandlers : Sets(g, s)' => g = f
                      /\ token'[s].state # "used" => resets'[s] = 0
    BY DEF TokenInOneHand
  <2>1. CASE s = t
    BY <1>1, <1>6, <1>7, <1>8, <2>1
  <2>2. CASE s # t
    BY <1>1, <1>7, <1>8, <2>2 DEF AccInv, TokenInOneHand
  <2> QED
    BY <2>1, <2>2
<1> QED
  BY <1>4, <1>5, <1>9 DEF AccInv

\* The password is set by the one that has the token, which leaves its hands.
LEMMA SetPasswordInv ==
  ASSUME AccInv, NEW h \in AccHandlers, SetPassword(h)
  PROVE  AccInv'
<1> DEFINE t == request[h].token
           u == token[t].user
<1>1. /\ request[h].pc = "set" /\ Cleared(u) /\ Answers(h)
      /\ resets' = [resets EXCEPT ![t] = @ + 1]
      /\ UNCHANGED <<now, token>>
  BY DEF SetPassword, At
<1>2. t \in ResetTokens
  BY <1>1, RequestTyped DEF AccInv, AccTyped
<1>3. Sets(h, t)
  BY <1>1 DEF Sets, At
<1>4. /\ token[t].state = "used" /\ resets[t] = 0
      /\ \A g \in AccHandlers : Sets(g, t) => g = h
  BY <1>2, <1>3 DEF AccInv, TokenInOneHand
<1>5. u \in AccUsers
  BY <1>2, <1>4 DEF AccInv, AccTyped, Token
<1>6. /\ request' \in [AccHandlers -> Request]
      /\ \A g \in AccHandlers : request'[g].pc = "set" =>
           request'[g] = request[g] /\ g # h
  BY <1>1, MovesTyped DEF AccInv
<1>7. PICK a \in Account :
        /\ a.failed = 0 /\ a.until = Null
        /\ account' = [account EXCEPT ![u] = a]
        /\ failures' = [failures EXCEPT ![u] = 0]
  BY <1>1, <1>5, ClearedRow
<1>8. \A s \in ResetTokens : resets'[s] = IF s = t THEN 1 ELSE resets[s]
  BY <1>1, <1>2, <1>4 DEF AccInv, AccTyped
<1> HIDE DEF u
<1>9. AccTyped'
  <2>1. resets' \in [ResetTokens -> Nat]
    BY <1>1, <1>2 DEF AccInv, AccTyped
  <2> QED
    BY <1>1, <1>5, <1>6, <1>7, <2>1 DEF AccInv, AccTyped
<1>10. CountsAreLow'
  BY <1>5, <1>7 DEF AccInv, AccTyped, CountsAreLow
<1>11. \A g \in AccHandlers : \A s \in ResetTokens :
         Sets(g, s)' => Sets(g, s) /\ s # t
  BY <1>4, <1>6 DEF Sets, At
<1> HIDE DEF t
<1>12. TokenInOneHand'
  BY <1>1, <1>4, <1>8, <1>11 DEF AccInv, TokenInOneHand
<1> QED
  BY <1>9, <1>10, <1>12 DEF AccInv

\* A new token is in nobody's hands.
LEMMA RequestResetInv ==
  ASSUME AccInv, NEW u \in AccUsers, NEW t \in ResetTokens, RequestReset(u, t)
  PROVE  AccInv'
<1> DEFINE new == [state |-> "unused", user |-> u, expires |-> now + ResetTTL]
<1>1. /\ token[t].state = "none" /\ token' = [token EXCEPT ![t] = new]
      /\ UNCHANGED <<now, lockVars, resets, request>>
  BY DEF RequestReset
<1>2. new \in Token /\ new.state = "unused"
  BY Limits DEF AccInv, AccTyped, Token
<1> HIDE DEF new
<1>3. AccTyped'
  BY <1>1, <1>2 DEF AccInv, AccTyped, lockVars
<1>4. CountsAreLow'
  BY <1>1 DEF AccInv, CountsAreLow, lockVars
<1>5. resets[t] = 0 /\ \A g \in AccHandlers : ~Sets(g, t)
  BY <1>1 DEF AccInv, TokenInOneHand
<1>6. \A g \in AccHandlers : \A s \in ResetTokens : Sets(g, s)' <=> Sets(g, s)
  BY <1>1 DEF Sets, At
<1>7. \A s \in ResetTokens :
        token'[s].state = IF s = t THEN "unused" ELSE token[s].state
  BY <1>1, <1>2 DEF AccInv, AccTyped
<1>8. TokenInOneHand'
  BY <1>1, <1>5, <1>6, <1>7 DEF AccInv, TokenInOneHand
<1> QED
  BY <1>3, <1>4, <1>8 DEF AccInv

\* An administrator changes who is let in, and nothing that is counted.
LEMMA AdmitInv ==
  ASSUME AccInv, NEW u \in AccUsers, NEW as \in SUBSET Addresses, Admit(u, as)
  PROVE  AccInv'
<1> DEFINE a == [account[u] EXCEPT !.admits = as]
<1>1. account[u] \in Account /\ failures[u] \in Nat
  BY DEF AccInv, AccTyped
<1>2. a \in Account /\ a.failed = account[u].failed /\ a.until = account[u].until
  BY <1>1 DEF Account
<1>3. account' = [account EXCEPT ![u] = a] /\ UNCHANGED <<now, resetVars, request>>
  BY DEF Admit
<1>4. failures' = [failures EXCEPT ![u] = failures[u]]
  BY DEF Admit, AccInv, AccTyped
<1>5. a.failed <= failures[u] /\ (a.until # Null => failures[u] >= LockoutThreshold)
  BY <1>2 DEF AccInv, CountsAreLow
<1>6. request' \in [AccHandlers -> Request]
  BY <1>3 DEF AccInv, AccTyped
<1> HIDE DEF a
<1> QED
  BY <1>1, <1>2, <1>3, <1>4, <1>5, <1>6, AccountWritten
-----------------------------------------------------------------------------
\* Every step of a handler keeps the invariant.
LEMMA HandlerInv ==
  ASSUME AccInv, NEW h \in AccHandlers, AccHandler(h)
  PROVE  AccInv'
<1>1. ASSUME NEW k \in Keys, NEW good \in BOOLEAN, LoginBegins(h, k, good)
      PROVE  AccInv'
  <2> DEFINE r == [pc |-> "read", addr |-> k[1], user |-> k[2], good |-> good]
  <2>1. r \in Request /\ r.pc = "read"
    BY DEF Request, Keys
  <2>2. request' = [request EXCEPT ![h] = r] /\ UNCHANGED <<now, lockVars, resetVars>>
    BY <1>1 DEF LoginBegins
  <2>3. /\ request' \in [AccHandlers -> Request]
        /\ \A g \in AccHandlers : request'[g].pc = "set" => request'[g] = request[g]
    BY <2>1, <2>2 DEF AccInv, AccTyped
  <2>4. now' \in Nat \ {0}
    BY <2>2 DEF AccInv, AccTyped
  <2> QED
    BY <2>2, <2>3, <2>4, RequestMoves
<1>2. CASE ReadUser(h)
  <2> DEFINE verdict == Verdict(h, TRUE)
  <2>1. verdict \in {"failure", "locked", "success", "wrong"}
    BY DEF Verdict
  <2>2. /\ request[h].pc = "read" /\ UNCHANGED <<now, lockVars, resetVars>>
        /\ Answers(h) \/ (GoesTo(h, verdict) /\ verdict # "locked")
    BY <1>2 DEF ReadUser, Judge, At
  <2> HIDE DEF verdict
  <2>3. /\ request' \in [AccHandlers -> Request]
        /\ \A g \in AccHandlers : request'[g].pc = "set" => request'[g] = request[g]
    BY <2>1, <2>2, MovesTyped DEF AccInv
  <2>4. now' \in Nat \ {0}
    BY <2>2 DEF AccInv, AccTyped
  <2> QED
    BY <2>2, <2>3, <2>4, RequestMoves
<1>3. CASE RecordFailure(h)
  BY <1>3, RecordFailureInv
<1>4. CASE RecordWrong(h)
  BY <1>4, RecordWrongInv
<1>5. CASE RecordSuccess(h)
  BY <1>5, RecordSuccessInv
<1>6. CASE ClearFailures(h)
  <2>1. request[h].user \in AccUsers
    BY <1>6, RequestTyped DEF ClearFailures, At, AccInv, AccTyped
  <2>2. Cleared(request[h].user) /\ Answers(h) /\ UNCHANGED <<now, resetVars>>
    BY <1>6 DEF ClearFailures
  <2>3. /\ request' \in [AccHandlers -> Request]
        /\ \A g \in AccHandlers : request'[g].pc = "set" => request'[g] = request[g]
    BY <2>2, MovesTyped DEF AccInv
  <2> QED
    BY <2>1, <2>2, <2>3, ClearedInv
<1>7. CASE RecordFails(h) \/ SetPasswordFails(h)
  <2>1. /\ UNCHANGED <<now, lockVars, resetVars>>
        /\ Answers(h) \/ (GoesTo(h, "clear") /\ request[h].pc = "success")
    BY <1>7 DEF RecordFails, SetPasswordFails, At
  <2>2. /\ request' \in [AccHandlers -> Request]
        /\ \A g \in AccHandlers : request'[g].pc = "set" => request'[g] = request[g]
    BY <2>1, MovesTyped DEF AccInv
  <2>3. now' \in Nat \ {0}
    BY <2>1 DEF AccInv, AccTyped
  <2> QED
    BY <2>1, <2>2, <2>3, RequestMoves
<1>8. ASSUME NEW t \in ResetTokens, UseToken(h, t) PROVE AccInv'
  BY <1>8, UseTokenInv
<1>9. CASE SetPassword(h)
  BY <1>9, SetPasswordInv
<1> QED
  BY <1>1, <1>2, <1>3, <1>4, <1>5, <1>6, <1>7, <1>8, <1>9 DEF AccHandler

\* Every step keeps the invariant.
LEMMA NextAccInv == AccInv /\ [AccNext]_accVars => AccInv'
<1> SUFFICES ASSUME AccInv, [AccNext]_accVars PROVE AccInv'
  OBVIOUS
<1>1. ASSUME UNCHANGED <<lockVars, resetVars, request>>, now' \in Nat \ {0}
      PROVE  AccInv'
  <2>1. /\ request' \in [AccHandlers -> Request]
        /\ \A g \in AccHandlers : request'[g].pc = "set" => request'[g] = request[g]
    BY <1>1 DEF AccInv, AccTyped
  <2> QED
    BY <1>1, <2>1, RequestMoves
<1>2. CASE UNCHANGED accVars
  BY <1>1, <1>2 DEF accVars, AccInv, AccTyped
<1>3. ASSUME NEW k \in Keys, TooManyAttempts(k) PROVE AccInv'
  BY <1>1, <1>3 DEF TooManyAttempts, AccInv, AccTyped
<1>4. CASE Tick
  BY <1>1, <1>4 DEF Tick, AccInv, AccTyped
<1>5. ASSUME NEW u \in AccUsers, UnlockAccount(u) PROVE AccInv'
  <2>1. Cleared(u) /\ UNCHANGED <<now, resetVars, request>>
    BY <1>5 DEF UnlockAccount
  <2>2. request' \in [AccHandlers -> Request]
    BY <2>1 DEF AccInv, AccTyped
  <2> QED
    BY <2>1, <2>2, ClearedInv
<1> QED
  BY <1>2, <1>3, <1>4, <1>5, HandlerInv, RequestResetInv, AdmitInv DEF AccNext

\* The invariant holds in every reachable state.
LEMMA AccInvHolds == AccSpec => []AccInv
<1>1. AccInit => AccInv
  BY InitAccInv
<1>2. AccInv /\ [AccNext]_accVars => AccInv'
  BY NextAccInv
<1> QED
  BY <1>1, <1>2, PTL DEF AccSpec

\* However many confirmations of one token overlap, and wherever statements
\* fail, it sets one password at most (ResetRepo.Use, SetPassword).
THEOREM ResetOnce == AccSpec => []TokenOnce
<1>1. AccInv => TokenOnce
  BY DEF AccInv, TokenInOneHand, TokenOnce
<1> QED
  BY <1>1, AccInvHolds, PTL

\* However many logins of a user overlap, the account is locked only after as
\* many failures as the threshold says (RecordLoginFailureWithLockout).
THEOREM LocksAreEarned == AccSpec => []LockEarned
<1>1. AccInv => LockEarned
  BY DEF AccInv, AccTyped, CountsAreLow, LockEarned, Locked, Account, Null
<1> QED
  BY <1>1, AccInvHolds, PTL
-----------------------------------------------------------------------------
(* A lock stops guessing.                                                  *)

\* The logins of u that were found wrong and are still to be recorded.
Wrong(u) == {h \in AccHandlers : At(h, "wrong") /\ request[h].user = u}

\* What was recorded under the lock, and what may still be, were logins under
\* way when the lock came on, and the one that put it on is not among them.
FewUnderLock ==
  /\ overrun \in [AccUsers -> Nat]
  /\ \A u \in AccUsers :
       /\ overrun[u] < Cardinality(AccHandlers)
       /\ Locked(account[u]) =>
            overrun[u] + Cardinality(Wrong(u)) < Cardinality(AccHandlers)

LEMMA WrongFinite ==
  ASSUME NEW u
  PROVE  /\ IsFiniteSet(AccHandlers) /\ Cardinality(AccHandlers) \in Nat
         /\ IsFiniteSet(Wrong(u)) /\ Cardinality(Wrong(u)) \in Nat
<1>1. Wrong(u) \in SUBSET AccHandlers
  BY DEF Wrong
<1> QED
  BY <1>1, FS_Subset, FS_CardinalityType, AccountsAssumption

\* A handler that answers, or goes on with a login that is not a wrong one of
\* u, adds nothing to what may still be recorded of u.
LEMMA WrongMoves ==
  ASSUME AccTyped, NEW h \in AccHandlers, NEW u \in AccUsers,
         \/ Answers(h)
         \/ /\ request[h].pc \in {"read", "success"}
            /\ \E stage \in {"failure", "wrong", "success", "clear"} :
                 GoesTo(h, stage) /\ (stage = "wrong" => request[h].user # u)
  PROVE  Wrong(u)' \subseteq Wrong(u)
<1>1. request[h] \in Request /\ request \in [AccHandlers -> Request]
  BY DEF AccTyped
<1>2. CASE Answers(h)
  BY <1>1, <1>2 DEF Answers, Wrong, At, NoRequest
<1>3. ASSUME NEW stage \in {"failure", "wrong", "success", "clear"},
             request[h].pc \in {"read", "success"}, GoesTo(h, stage),
             stage = "wrong" => request[h].user # u
      PROVE  Wrong(u)' \subseteq Wrong(u)
  <2>1. request' = [request EXCEPT ![h] = [request[h] EXCEPT !.pc = stage]]
    BY <1>3 DEF GoesTo
  <2>2. /\ \A g \in AccHandlers \ {h} : request'[g] = request[g]
        /\ request'[h].pc = stage /\ request'[h].user = request[h].user
    BY <1>1, <1>3, <2>1, RequestTyped
  <2> QED
    BY <1>3, <2>2 DEF Wrong, At
<1> QED
  BY <1>2, <1>3

\* What clears an account takes its lock off, and locks no other.
LEMMA ClearedUnlocks ==
  ASSUME AccTyped, NEW v, Cleared(v)
  PROVE  \A u \in AccUsers : account'[u].until \in {account[u].until, Null}
BY DEF AccTyped, Account, Cleared

\* A step that locks nobody and finds no password of a locked account wrong
\* leaves all as it is.
LEMMA LockUntouched ==
  ASSUME AccInv, FewUnderLock, overrun' = overrun,
         \A u \in AccUsers : Locked(account[u])' => Locked(account[u]),
         \A u \in AccUsers : Locked(account[u]) => Wrong(u)' \subseteq Wrong(u)
  PROVE  FewUnderLock'
<1> SUFFICES ASSUME NEW u \in AccUsers, Locked(account[u])'
             PROVE  overrun[u] + Cardinality(Wrong(u)') < Cardinality(AccHandlers)
  BY DEF FewUnderLock
<1>1. Locked(account[u]) /\ Wrong(u)' \subseteq Wrong(u)
  OBVIOUS
<1>2. Cardinality(Wrong(u)') \in Nat /\ Cardinality(Wrong(u)') <= Cardinality(Wrong(u))
  BY <1>1, WrongFinite, FS_Subset, FS_CardinalityType
<1> QED
  BY <1>1, <1>2, WrongFinite DEF FewUnderLock

\* A failure under the lock moves from what may still be recorded to what was;
\* the one that puts the lock on leaves room for itself.
LEMMA WrongUnderLock ==
  ASSUME AccInv, FewUnderLock, NEW h \in AccHandlers, RecordWrong(h)
  PROVE  FewUnderLock'
<1>0. request[h] \in Request /\ request \in [AccHandlers -> Request]
  BY DEF AccInv, AccTyped
<1> PICK u \in AccUsers : u = request[h].user
  BY <1>0, RequestTyped DEF RecordWrong, At
<1>1. /\ account' = [account EXCEPT ![u] = AfterWrong(account[u])] /\ now' = now
      /\ overrun' = [overrun EXCEPT ![u] = IF Locked(account[u]) THEN overrun[u] + 1 ELSE 0]
      /\ request' = [request EXCEPT ![h] = NoRequest] /\ request[h].pc = "wrong"
  BY DEF RecordWrong, Answers, At
<1>2. /\ \A v \in AccUsers \ {u} : account'[v] = account[v] /\ overrun'[v] = overrun[v]
      /\ overrun'[u] = IF Locked(account[u]) THEN overrun[u] + 1 ELSE 0
      /\ overrun' \in [AccUsers -> Nat]
  BY <1>1 DEF AccInv, AccTyped, FewUnderLock
<1>3. /\ Wrong(u)' = Wrong(u) \ {h} /\ h \in Wrong(u)
      /\ \A v \in AccUsers \ {u} : Wrong(v)' = Wrong(v)
  BY <1>0, <1>1 DEF Wrong, At, NoRequest
<1>4. Cardinality(Wrong(u)') = Cardinality(Wrong(u)) - 1
  BY <1>3, WrongFinite, FS_RemoveElement
<1>5. Cardinality(Wrong(u)) <= Cardinality(AccHandlers) /\ Cardinality(Wrong(u)) # 0
  BY <1>3, WrongFinite, FS_Subset, FS_EmptySet DEF Wrong
<1>6. ASSUME NEW v \in AccUsers \ {u}
      PROVE  /\ overrun'[v] < Cardinality(AccHandlers)
             /\ Locked(account[v])' =>
                  overrun'[v] + Cardinality(Wrong(v)') < Cardinality(AccHandlers)
  BY <1>1, <1>2, <1>3 DEF FewUnderLock, Locked
<1>7. /\ overrun'[u] < Cardinality(AccHandlers)
      /\ overrun'[u] + Cardinality(Wrong(u)') < Cardinality(AccHandlers)
  <2>1. /\ overrun[u] \in Nat
        /\ Locked(account[u]) =>
             overrun[u] + Cardinality(Wrong(u)) < Cardinality(AccHandlers)
    BY DEF FewUnderLock
  <2> QED
    BY <1>2, <1>4, <1>5, <2>1, WrongFinite
<1> QED
  BY <1>2, <1>6, <1>7 DEF FewUnderLock

LEMMA NextLocks ==
  ASSUME AccInv, FewUnderLock, [AccNext]_accVars
  PROVE  FewUnderLock'
<1>0. /\ request \in [AccHandlers -> Request] /\ account \in [AccUsers -> Account]
      /\ now \in Nat
  BY DEF AccInv, AccTyped
<1>1. CASE \E h \in AccHandlers : RecordWrong(h)
  BY <1>1, WrongUnderLock
<1>2. ASSUME NEW h \in AccHandlers, ReadUser(h) PROVE FewUnderLock'
  <2>1. /\ UNCHANGED <<now, account, overrun>>
        /\ Answers(h) \/ GoesTo(h, Verdict(h, TRUE))
        /\ request[h].pc = "read"
    BY <1>2 DEF ReadUser, Judge, lockVars, At
  <2>2. Locked(account[request[h].user]) => Verdict(h, TRUE) # "wrong"
    BY DEF Verdict
  <2>3. Verdict(h, TRUE) \in {"failure", "locked", "success", "wrong"}
    BY DEF Verdict
  <2>4. Verdict(h, TRUE) = "locked" => Answers(h)
    BY <1>2 DEF ReadUser, Judge
  <2>5. \A u \in AccUsers : Locked(account[u]) => Wrong(u)' \subseteq Wrong(u)
    BY <2>1, <2>2, <2>3, <2>4, WrongMoves DEF AccInv
  <2> QED
    BY <2>1, <2>5, LockUntouched DEF Locked
<1>3. ASSUME NEW h \in AccHandlers,
             \/ \E k \in Keys, good \in BOOLEAN : LoginBegins(h, k, good)
             \/ \E t \in ResetTokens : UseToken(h, t)
      PROVE  FewUnderLock'
  <2>1. UNCHANGED <<now, account, overrun>>
    BY <1>3 DEF LoginBegins, UseToken, lockVars
  <2>2. /\ \A g \in AccHandlers \ {h} : request'[g] = request[g]
        /\ request'[h].pc \in {"read", "set"}
    BY <1>0, <1>3 DEF LoginBegins, UseToken
  <2>3. \A u \in AccUsers : Wrong(u)' \subseteq Wrong(u)
    BY <2>2 DEF Wrong, At
  <2> QED
    BY <2>1, <2>3, LockUntouched DEF Locked
<1>4. ASSUME NEW h \in AccHandlers,
             \/ RecordFails(h) \/ SetPasswordFails(h) \/ RecordFailure(h)
             \/ RecordSuccess(h) \/ ClearFailures(h) \/ SetPassword(h)
      PROVE  FewUnderLock'
  <2>1. /\ now' = now /\ overrun' = overrun
        /\ \/ Answers(h)
           \/ request[h].pc = "success" /\ GoesTo(h, "clear")
    BY <1>4 DEF RecordFails, SetPasswordFails, RecordFailure, RecordSuccess,
       ClearFailures,
                SetPassword, Cleared, lockVars, At
  <2>2. \A u \in AccUsers : Wrong(u)' \subseteq Wrong(u)
    BY <2>1, WrongMoves DEF AccInv
  <2>3. \A u \in AccUsers : account'[u].until \in {account[u].until, Null}
    <3>1. CASE RecordFails(h) \/ SetPasswordFails(h)
      BY <3>1 DEF RecordFails, SetPasswordFails, lockVars
    <3>2. CASE RecordFailure(h)
      BY <1>0, <3>2 DEF RecordFailure, Account
    <3>3. CASE RecordSuccess(h)
      BY <1>0, <3>3 DEF RecordSuccess, Account
    <3>4. CASE ClearFailures(h) \/ SetPassword(h)
      BY <3>4, ClearedUnlocks DEF ClearFailures, SetPassword, AccInv
    <3> QED
      BY <1>4, <3>1, <3>2, <3>3, <3>4
  <2>4. \A u \in AccUsers : Locked(account[u])' => Locked(account[u])
    BY <1>0, <2>1, <2>3 DEF Locked, Null
  <2> QED
    BY <2>1, <2>2, <2>4, LockUntouched
<1>5. CASE \/ \E k \in Keys : TooManyAttempts(k)
           \/ \E u \in AccUsers, t \in ResetTokens : RequestReset(u, t)
           \/ \E u \in AccUsers : UnlockAccount(u)
           \/ \E u \in AccUsers, as \in SUBSET Addresses : Admit(u, as)
           \/ Tick \/ UNCHANGED accVars
  <2>1. UNCHANGED <<overrun, request>> /\ now' \in {now, now + 1}
    BY <1>5 DEF TooManyAttempts, RequestReset, UnlockAccount, Admit, Cleared, Tick,
       accVars, lockVars
  <2>2. \A u \in AccUsers : account'[u].until \in {account[u].until, Null}
    <3>1. CASE \E u \in AccUsers : UnlockAccount(u)
      BY <3>1, ClearedUnlocks DEF UnlockAccount, AccInv
    <3>2. CASE \E u \in AccUsers, as \in SUBSET Addresses : Admit(u, as)
      BY <1>0, <3>2 DEF Admit, Account
    <3>3. account' = account \/ (\E u \in AccUsers : UnlockAccount(u))
                             \/ (\E u \in AccUsers, as \in SUBSET Addresses : Admit(u, as))
      BY <1>5 DEF TooManyAttempts, RequestReset, Tick, accVars, lockVars
    <3> QED
      BY <3>1, <3>2, <3>3
  <2>3. \A u \in AccUsers : Locked(account[u])' => Locked(account[u])
    <3>1. \A u \in AccUsers : account[u].until \in Nat
      BY <1>0 DEF Account
    <3> QED
      BY <1>0, <2>1, <2>2, <3>1 DEF Locked, Null
  <2>4. \A u \in AccUsers : Wrong(u)' = Wrong(u)
    BY <2>1 DEF Wrong, At
  <2> QED
    BY <2>1, <2>3, <2>4, LockUntouched
<1> QED
  BY <1>1, <1>2, <1>3, <1>4, <1>5 DEF AccNext, AccHandler

\* Once the lock is on, no more failures are recorded for the account than
\* there were other logins under way, whatever the clock, administrators and
\* resets do (Login, RecordLoginFailureWithLockout).
THEOREM LocksStop == AccHandlers # {} /\ AccSpec => []LockStops
<1> SUFFICES ASSUME AccHandlers # {} PROVE AccSpec => []LockStops
  OBVIOUS
<1>1. AccInit => FewUnderLock
  <2>1. Cardinality(AccHandlers) \in Nat \ {0}
    BY WrongFinite, FS_EmptySet
  <2> QED
    BY <2>1 DEF AccInit, FewUnderLock, Locked, Null
<1>2. AccInv /\ FewUnderLock /\ [AccNext]_accVars => FewUnderLock'
  BY NextLocks
<1>3. FewUnderLock => LockStops
  BY DEF FewUnderLock, LockStops
<1> QED
  BY AccInvHolds, <1>1, <1>2, <1>3, PTL DEF AccSpec
-----------------------------------------------------------------------------
(* The window of attempts.                                                 *)

\* At time t, with a in memory of the attempts p: a is the end of p, and what
\* is missing is older than the window.
Window(a, p, t) ==
  /\ a \in Seq(Nat) /\ p \in Seq(Nat)
  /\ Len(a) <= MaxAttempts /\ Len(a) <= Len(p)
  /\ \A i \in 1..Len(a) : a[i] = p[Len(p) - Len(a) + i]
  /\ \A i \in 1..(Len(p) - Len(a)) : t - p[i] > AttemptWindow
  /\ \A i \in 1..Len(p) : p[i] <= t
  /\ \A i, j \in 1..Len(p) : i <= j => p[i] <= p[j]
  /\ \A i \in 1..Len(p) : i > MaxAttempts => p[i] - p[i - MaxAttempts] > AttemptWindow

Windows ==
  /\ now \in Nat
  /\ attempts \in [Keys -> Seq(Nat)] /\ passed \in [Keys -> Seq(Nat)]
  /\ \A k \in Keys : Window(attempts[k], passed[k], now)

LEMMA WindowLimits == MaxAttempts \in Nat /\ AttemptWindow \in Nat
BY AccountsAssumption

\* In a list in order, the members below some value are the first.
LEMMA FirstOnes ==
  ASSUME NEW n \in Nat, NEW old \in SUBSET (1..n),
         \A i, j \in 1..n : i <= j /\ j \in old => i \in old
  PROVE  /\ Cardinality(old) \in 0..n
         /\ \A i \in 1..n : i \in old <=> i <= Cardinality(old)
<1>1. \A m \in 0..n : IsFiniteSet(1..m) /\ Cardinality(1..m) = m
  BY FS_Interval
<1>2. /\ IsFiniteSet(old) /\ Cardinality(old) \in Nat /\ Cardinality(old) <= n
  <2>1. IsFiniteSet(1..n) /\ Cardinality(1..n) = n
    BY <1>1
  <2>2. IsFiniteSet(old) /\ Cardinality(old) <= Cardinality(1..n)
    BY <2>1, FS_Subset
  <2> QED
    BY <2>1, <2>2, FS_CardinalityType
<1>3. ASSUME NEW i \in 1..n, i \in old PROVE i <= Cardinality(old)
  <2>1. 1..i \subseteq old
    BY <1>3
  <2> QED
    BY <2>1, <1>1, <1>2, FS_Subset
<1>4. ASSUME NEW i \in 1..n, i \notin old PROVE Cardinality(old) < i
  <2>1. old \subseteq 1..(i - 1) /\ i - 1 \in 0..n
    BY <1>4
  <2>2. IsFiniteSet(1..(i - 1)) /\ Cardinality(1..(i - 1)) = i - 1
    BY <2>1, <1>1
  <2>3. Cardinality(old) <= i - 1
    BY <2>1, <2>2, FS_Subset
  <2> QED
    BY <2>3, <1>2
<1> QED
  BY <1>2, <1>3, <1>4

\* What allowAttempt drops leaves a window.
LEMMA RecentWindow ==
  ASSUME now \in Nat, NEW a, NEW p, Window(a, p, now)
  PROVE  Window(Recent(a), p, now)
<1> DEFINE old == {i \in DOMAIN a : now - a[i] > AttemptWindow}
           c == Cardinality(old)
           r == Recent(a)
<1>1. Len(a) \in Nat /\ Len(p) \in Nat /\ DOMAIN a = 1..Len(a)
      /\ (\A i \in 1..Len(a) : a[i] \in Nat) /\ (\A i \in 1..Len(p) : p[i] \in Nat)
  BY LenProperties, ElementOfSeq DEF Window
<1>2. \A i, j \in 1..Len(a) : i <= j => a[i] <= a[j]
  <2> SUFFICES ASSUME NEW i \in 1..Len(a), NEW j \in 1..Len(a), i <= j
               PROVE  a[i] <= a[j]
    OBVIOUS
  <2> DEFINE d == Len(p) - Len(a)
  <2>1. d + i \in 1..Len(p) /\ d + j \in 1..Len(p) /\ d + i <= d + j
    BY <1>1 DEF Window
  <2>2. a[i] = p[d + i] /\ a[j] = p[d + j]
    BY <1>1 DEF Window
  <2> HIDE DEF d
  <2> QED
    BY <2>1, <2>2 DEF Window
<1>3. \A i, j \in 1..Len(a) : i <= j /\ j \in old => i \in old
  BY <1>1, <1>2, WindowLimits
<1>4. c \in 0..Len(a) /\ \A i \in 1..Len(a) : i \in old <=> i <= c
  <2>1. old \in SUBSET (1..Len(a))
    BY <1>1
  <2> HIDE DEF old
  <2> QED
    BY <1>1, <1>3, <2>1, FirstOnes
<1>5. \A i \in 1..c : now - a[i] > AttemptWindow
  BY <1>1, <1>4
<1>6. r = SubSeq(a, c + 1, Len(a))
  BY DEF Recent, Without
<1> HIDE DEF old, c, r
<1>7. /\ r \in Seq(Nat) /\ Len(r) = Len(a) - c
      /\ \A i \in 1..Len(r) : r[i] = a[c + i]
  <2>1. c + 1 \in Int /\ Len(a) \in Int /\ \A i \in (c + 1)..Len(a) : a[i] \in Nat
    BY <1>1, <1>4
  <2>2. /\ r \in Seq(Nat) /\ Len(r) = IF c + 1 <= Len(a) THEN Len(a) - (c + 1) + 1 ELSE 0
        /\ \A i \in 1..(Len(a) - (c + 1) + 1) : r[i] = a[(c + 1) + i - 1]
    BY <1>6, <2>1, SubSeqProperties
  <2>3. c \in Nat /\ c <= Len(a)
    BY <1>1, <1>4
  <2>4. Len(r) = Len(a) - c
    <3>1. Len(r) = IF c + 1 <= Len(a) THEN Len(a) - (c + 1) + 1 ELSE 0
      BY <2>2
    <3>2. Len(a) \in Nat
      BY <1>1
    <3> QED
      BY <2>3, <3>1, <3>2
  <2>5. ASSUME NEW i \in 1..Len(r) PROVE r[i] = a[c + i]
    <3>1. i \in 1..(Len(a) - (c + 1) + 1) /\ (c + 1) + i - 1 = c + i
      BY <1>1, <2>3, <2>4
    <3>2. r[i] = a[(c + 1) + i - 1]
      BY <2>2, <3>1
    <3> QED
      BY <3>1, <3>2
  <2> QED
    BY <2>2, <2>4, <2>5
<1>8. \A i \in 1..Len(r) : r[i] = p[Len(p) - Len(r) + i]
  <2> SUFFICES ASSUME NEW i \in 1..Len(r)
               PROVE  r[i] = p[Len(p) - Len(r) + i]
    OBVIOUS
  <2>1. /\ c + i \in 1..Len(a)
        /\ Len(p) - Len(a) + (c + i) = Len(p) - Len(r) + i
    BY <1>1, <1>4, <1>7
  <2>2. a[c + i] = p[Len(p) - Len(a) + (c + i)]
    BY <2>1 DEF Window
  <2>3. r[i] = a[c + i]
    BY <1>7
  <2> QED
    BY <2>1, <2>2, <2>3
<1>9. \A i \in 1..(Len(p) - Len(r)) : now - p[i] > AttemptWindow
  <2> SUFFICES ASSUME NEW i \in 1..(Len(p) - Len(r))
               PROVE  now - p[i] > AttemptWindow
    OBVIOUS
  <2>1. CASE i <= Len(p) - Len(a)
    BY <2>1, <1>1, <1>4, <1>7 DEF Window
  <2>2. CASE i > Len(p) - Len(a)
    <3>1. i - (Len(p) - Len(a)) \in 1..c /\ i - (Len(p) - Len(a)) \in 1..Len(a)
      BY <2>2, <1>1, <1>4, <1>7 DEF Window
    <3>2. a[i - (Len(p) - Len(a))] = p[i]
      BY <3>1, <1>1 DEF Window
    <3> QED
      BY <3>1, <3>2, <1>5
  <2> QED
    BY <2>1, <2>2, <1>1, <1>7
<1>10. Len(r) <= MaxAttempts /\ Len(r) <= Len(p)
  BY <1>1, <1>4, <1>7, WindowLimits DEF Window
<1> QED
  BY <1>7, <1>8, <1>9, <1>10 DEF Window, r

\* One more attempt, when fewer than the limit are in the window.
LEMMA PassKeepsWindow ==
  ASSUME NEW t \in Nat, NEW a, NEW p, Window(a, p, t), Len(a) < MaxAttempts
  PROVE  Window(Append(a, t), Append(p, t), t)
<1> DEFINE b == Append(a, t)
           q == Append(p, t)
<1>1. Len(a) \in Nat /\ Len(p) \in Nat
      /\ (\A i \in 1..Len(p) : p[i] \in Nat)
  BY LenProperties, ElementOfSeq DEF Window
<1>2. /\ b \in Seq(Nat) /\ Len(b) = Len(a) + 1 /\ b[Len(a) + 1] = t
      /\ \A i \in 1..Len(a) : b[i] = a[i]
  BY AppendProperties DEF Window
<1>3. /\ q \in Seq(Nat) /\ Len(q) = Len(p) + 1 /\ q[Len(p) + 1] = t
      /\ \A i \in 1..Len(p) : q[i] = p[i]
  BY AppendProperties DEF Window
<1> HIDE DEF b, q
<1>4. \A i \in 1..Len(b) : b[i] = q[Len(q) - Len(b) + i]
  <2> SUFFICES ASSUME NEW i \in 1..Len(b)
               PROVE  b[i] = q[Len(q) - Len(b) + i]
    OBVIOUS
  <2>1. CASE i = Len(a) + 1
    BY <2>1, <1>1, <1>2, <1>3
  <2>2. CASE i \in 1..Len(a)
    <3>1. /\ Len(p) - Len(a) + i \in 1..Len(p)
          /\ Len(q) - Len(b) + i = Len(p) - Len(a) + i
      BY <2>2, <1>1, <1>2, <1>3 DEF Window
    <3>2. b[i] = a[i] /\ q[Len(p) - Len(a) + i] = p[Len(p) - Len(a) + i]
      BY <2>2, <3>1, <1>2, <1>3
    <3>3. a[i] = p[Len(p) - Len(a) + i]
      BY <2>2 DEF Window
    <3> QED
      BY <3>1, <3>2, <3>3
  <2> QED
    BY <2>1, <2>2, <1>1, <1>2
<1>5. \A i \in 1..(Len(q) - Len(b)) : t - q[i] > AttemptWindow
  <2> SUFFICES ASSUME NEW i \in 1..(Len(q) - Len(b))
               PROVE  t - q[i] > AttemptWindow
    OBVIOUS
  <2>1. i \in 1..(Len(p) - Len(a)) /\ i \in 1..Len(p)
    BY <1>1, <1>2, <1>3
  <2> QED
    BY <2>1, <1>3 DEF Window
<1>6. /\ \A i \in 1..Len(q) : q[i] <= t
      /\ \A i, j \in 1..Len(q) : i <= j => q[i] <= q[j]
  <2>1. \A i \in 1..Len(p) : p[i] <= t
    BY DEF Window
  <2>2. \A i, j \in 1..Len(p) : i <= j => p[i] <= p[j]
    BY DEF Window
  <2>3. \A i \in 1..Len(q) : i \in 1..Len(p) \/ i = Len(p) + 1
    BY <1>1, <1>3
  <2>4. \A i \in 1..Len(q) : q[i] <= t
    BY <1>3, <2>1, <2>3
  <2> QED
    BY <1>1, <1>3, <2>2, <2>3, <2>4
<1>7. \A i \in 1..Len(q) : i > MaxAttempts => q[i] - q[i - MaxAttempts] > AttemptWindow
  <2> SUFFICES ASSUME NEW i \in 1..Len(q), i > MaxAttempts
               PROVE  q[i] - q[i - MaxAttempts] > AttemptWindow
    OBVIOUS
  <2>1. CASE i \in 1..Len(p)
    <3>1. i - MaxAttempts \in 1..Len(p)
      BY <2>1, <1>1, WindowLimits
    <3> QED
      BY <2>1, <3>1, <1>3 DEF Window
  <2>2. CASE i = Len(p) + 1
    <3>1. i - MaxAttempts \in 1..(Len(p) - Len(a)) /\ i - MaxAttempts \in 1..Len(p)
      BY <2>2, <1>1, WindowLimits DEF Window
    <3> QED
      BY <2>2, <3>1, <1>3 DEF Window
  <2> QED
    BY <2>1, <2>2, <1>1, <1>3
<1>8. Len(b) <= MaxAttempts /\ Len(b) <= Len(q)
  BY <1>1, <1>2, <1>3, WindowLimits DEF Window
<1> QED
  BY <1>2, <1>3, <1>4, <1>5, <1>6, <1>7, <1>8 DEF Window, b, q

LEMMA WindowLater ==
  ASSUME NEW t \in Nat, NEW a, NEW p, Window(a, p, t)
  PROVE  Window(a, p, t + 1)
<1>1. Len(a) \in Nat /\ Len(p) \in Nat /\ (\A i \in 1..Len(p) : p[i] \in Nat)
  BY LenProperties, ElementOfSeq DEF Window
<1>2. \A i \in 1..(Len(p) - Len(a)) : (t + 1) - p[i] > AttemptWindow
  <2> TAKE i \in 1..(Len(p) - Len(a))
  <2>1. i \in 1..Len(p)
    BY <1>1
  <2>2. t - p[i] > AttemptWindow
    BY DEF Window
  <2> QED
    BY <1>1, <2>1, <2>2, WindowLimits
<1>3. \A i \in 1..Len(p) : p[i] <= t + 1
  BY <1>1 DEF Window
<1> QED
  BY <1>2, <1>3 DEF Window

LEMMA NextWindows == Windows /\ [AccNext]_accVars => Windows'
<1> SUFFICES ASSUME Windows, [AccNext]_accVars PROVE Windows'
  OBVIOUS
<1>1. ASSUME NEW h \in AccHandlers, NEW k \in Keys, NEW good, LoginBegins(h, k, good)
      PROVE  Windows'
  <2>1. Window(Recent(attempts[k]), passed[k], now) /\ Len(Recent(attempts[k])) < MaxAttempts
    <3>1. Window(Recent(attempts[k]), passed[k], now)
      BY RecentWindow DEF Windows
    <3>2. Len(Recent(attempts[k])) \in Nat
      BY <3>1, LenProperties DEF Window
    <3> QED
      BY <1>1, <3>1, <3>2, WindowLimits DEF LoginBegins, Full
  <2>2. Window(Append(Recent(attempts[k]), now), Append(passed[k], now), now)
    BY <2>1, PassKeepsWindow DEF Windows
  <2>3. /\ now' = now
        /\ attempts' = [attempts EXCEPT ![k] = Append(Recent(@), now)]
        /\ passed' = [passed EXCEPT ![k] = Append(@, now)]
    BY <1>1 DEF LoginBegins
  <2>4. /\ Append(Recent(attempts[k]), now) \in Seq(Nat)
        /\ Append(passed[k], now) \in Seq(Nat)
    BY <2>2 DEF Window
  <2> QED
    BY <2>2, <2>3, <2>4 DEF Windows
<1>2. ASSUME NEW k \in Keys, TooManyAttempts(k) PROVE Windows'
  <2>1. Window(Recent(attempts[k]), passed[k], now)
    BY RecentWindow DEF Windows
  <2>2. /\ UNCHANGED <<now, passed>>
        /\ attempts' = [attempts EXCEPT ![k] = Recent(@)]
    BY <1>2 DEF TooManyAttempts
  <2>3. Recent(attempts[k]) \in Seq(Nat)
    BY <2>1 DEF Window
  <2> QED
    BY <2>1, <2>2, <2>3 DEF Windows
<1>3. CASE Tick
  BY <1>3, WindowLater DEF Tick, Windows, windowVars
<1>4. CASE UNCHANGED <<now, windowVars>>
  BY <1>4 DEF Windows, windowVars
<1>5. ASSUME NEW h \in AccHandlers, AccHandler(h)
      PROVE  Windows'
  <2>1. \/ \E k \in Keys, good \in BOOLEAN : LoginBegins(h, k, good)
        \/ UNCHANGED <<now, windowVars>>
    BY <1>5 DEF AccHandler, ReadUser, Judge, RecordFailure, RecordWrong,
       RecordSuccess,
                ClearFailures, RecordFails, UseToken, SetPassword, SetPasswordFails
  <2> QED
    BY <1>1, <1>4, <2>1
<1> QED
  BY <1>2, <1>3, <1>4, <1>5 DEF AccNext, accVars, RequestReset, UnlockAccount, Admit

LEMMA WindowsHold == AccSpec => []Windows
<1>1. AccInit => Windows
  BY WindowLimits, EmptySeq DEF AccInit, Windows, Window
<1> QED
  BY <1>1, NextWindows, PTL DEF AccSpec

\* "rate limit: 5 attempts per 5 minutes per IP+username" (Login): of any
\* MaxAttempts + 1 attempts let pass by a process, the last comes more than a
\* window after the first.
THEOREM WindowIsKept == AccSpec => []WindowKept
<1>1. Windows => WindowKept
  <2> SUFFICES ASSUME Windows, NEW k \in Keys
               PROVE  \A i \in DOMAIN passed[k] :
                        i > MaxAttempts =>
                          passed[k][i] - passed[k][i - MaxAttempts] > AttemptWindow
    BY DEF WindowKept
  <2>1. passed[k] \in Seq(Nat)
    BY DEF Windows, Window
  <2>2. DOMAIN passed[k] = 1..Len(passed[k])
    BY <2>1, LenProperties
  <2> QED
    BY <2>2 DEF Windows, Window
<1> QED
  BY <1>1, WindowsHold, PTL

\* The types of the accounts; a list of attempts never grows beyond the limit.
LEMMA AccTypes == AccSpec => []AccTypeOK
<1> DEFINE Counted == overrun \in [AccUsers -> Nat]
<1>1. AccInit => Counted
  BY DEF AccInit
<1>2. Counted /\ [AccNext]_accVars => Counted'
  <2> SUFFICES ASSUME Counted, [AccNext]_accVars PROVE Counted'
    OBVIOUS
  <2>1. CASE UNCHANGED overrun
    BY <2>1
  <2>2. ASSUME NEW h \in AccHandlers, RecordWrong(h) PROVE Counted'
    <3>1. PICK u, n : /\ overrun' = [overrun EXCEPT ![u] = n]
                      /\ n = overrun[u] + 1 \/ n = 0
      BY <2>2 DEF RecordWrong
    <3>2. u \in AccUsers => n \in Nat
      BY <3>1
    <3>3. \A v \in AccUsers : overrun'[v] \in Nat
      BY <3>1, <3>2
    <3> QED
      BY <3>1, <3>3
  <2>3. ASSUME NEW h \in AccHandlers, AccHandler(h)
        PROVE  RecordWrong(h) \/ UNCHANGED overrun
    BY <2>3
    DEF AccHandler, LoginBegins, ReadUser, Judge, RecordFailure, RecordSuccess, Cleared,
        ClearFailures, RecordFails, UseToken, SetPassword, SetPasswordFails, lockVars
  <2> QED
    BY <2>1, <2>2, <2>3
    DEF AccNext, TooManyAttempts, RequestReset, UnlockAccount, Cleared, Admit, Tick,
        accVars, lockVars
<1>3. AccInv /\ Windows /\ Counted => AccTypeOK
  <2> SUFFICES ASSUME AccInv, Windows, Counted
               PROVE  AccTypeOK
    OBVIOUS
  <2>1. \A k \in Keys : Len(attempts[k]) <= MaxAttempts
    BY DEF Windows, Window
  <2> QED
    BY <2>1 DEF Windows, AccInv, AccTyped, AccTypeOK, Account, Token
<1> QED
  BY <1>1, <1>2, <1>3, AccInvHolds, WindowsHold, PTL DEF AccSpec
-----------------------------------------------------------------------------
(* Access: grants, tokens and the seeder.                                  *)

TablesTyped ==
  /\ role \in [RoleIds -> RoleNames \cup {Unused, Gone}]
  /\ perm \in [PermIds -> Codes \cup {Unused, Gone}]
  /\ userName \in [UserIds -> UserNames \cup {Unused, Gone}]
  /\ userRole \in [UserIds -> RoleIds \cup {NoRole}]
  /\ roleGrants \subseteq RoleIds \X PermIds
  /\ userGrants \subseteq UserIds \X PermIds

TablesOK ==
  /\ TablesTyped
  /\ Unique(role) /\ Unique(perm) /\ Unique(userName)
  /\ References

\* What a running seeder has written of the permissions: each of the first
\* codes, once, at a row of its own.
InOrder(s) ==
  /\ IsFiniteSet(seed[s].perms)
  /\ Cardinality(seed[s].perms) <= Len(SeedCodes)
  /\ \A i \in 1..Cardinality(seed[s].perms) :
       \E x \in seed[s].perms : x[1] = SeedCodes[i]
  /\ \A x \in seed[s].perms :
       \E i \in 1..Cardinality(seed[s].perms) : x[1] = SeedCodes[i]
  /\ \A x, y \in seed[s].perms : x[1] = y[1] \/ x[2] = y[2] => x = y

\* The rows that it has locked are as it found them: they have the value that
\* it writes, or they are not there and neither is the value.
Found(column, i, value) ==
  column[i] = value \/ (column[i] = Unused /\ ~Taken(column, value))

RowsLocked(s) ==
  /\ seed[s].role \in RoleIds /\ Found(role, seed[s].role, AdminRole)
  /\ \A x \in seed[s].perms : Found(perm, x[2], x[1])

\* Each permission in hand is granted, or will be, or was revoked.
GrantsInHand(s) ==
  /\ \A x \in seed[s].perms :
       <<seed[s].role, x[2]>> \in seed[s].granted \cup roleGrants \cup revoked
  /\ \A g \in seed[s].granted :
       g[1] = seed[s].role /\ \E x \in seed[s].perms : x[2] = g[2]

SeedTyped ==
  /\ seed \in [ApiProcesses ->
                 [pc : {"off", "seeding", "up", "blind"}, role : RoleIds \cup {0},
                  perms : SUBSET (Codes \X PermIds),
                  granted : SUBSET (RoleIds \X PermIds)]]
  /\ revoked \subseteq RoleIds \X PermIds

SeedsOK ==
  /\ SeedTyped
  /\ \A s, t \in ApiProcesses : Seeding(s) /\ Seeding(t) => s = t
  /\ \A s \in ApiProcesses : Seeding(s) => InOrder(s) /\ RowsLocked(s) /\ GrantsInHand(s)

\* What a token, or a login at work, says of its user was so when it was read.
Said(t) ==
  \A c \in t.codes : t.user \in UserIds /\ held[<<t.user, c>>] >= t.read

TokensTyped ==
  /\ bearer \in [Bearers -> [user : UserIds \cup {0}, codes : SUBSET Codes,
                             read : Nat, expires : Nat]]
  /\ signing \in [Signers -> [user : UserIds \cup {0}, codes : SUBSET Codes,
                              read : Nat]]
  /\ clock \in Nat /\ changes \in Nat
  /\ held \in [UserIds \X Codes -> Nat]

TokensOK ==
  /\ TokensTyped
  /\ \A x \in UserIds \X Codes : held[x] <= clock
  /\ \A k \in Bearers : Said(bearer[k])
  /\ \A h \in Signers : Said(signing[h])

AccessInv == TablesOK /\ SeedsOK /\ TokensOK
-----------------------------------------------------------------------------
\* What the constants are.
LEMMA Constants ==
  /\ 1 \in RoleIds /\ 1 \in PermIds /\ 1 \in UserIds
  /\ 0 \notin RoleIds /\ 0 \notin UserIds
  /\ RoleIds \subseteq Nat /\ PermIds \subseteq Nat /\ UserIds \subseteq Nat
  /\ AdminRole \in RoleNames /\ AdminCode \in Codes /\ FirstUser \in UserNames
  /\ Unused \notin RoleNames \cup Codes \cup UserNames
  /\ Gone \notin RoleNames \cup Codes \cup UserNames
  /\ JWTExpiry \in Nat
BY AccessAssumption, MarksAreNoNames
-----------------------------------------------------------------------------
(* The statements of the handlers.                                         *)

\* No row, value or grant that a running seeder counts on is touched.
LocksHold ==
  /\ \A r \in HeldRoles : role'[r] = role[r]
  /\ HeldRoles # {} /\ Taken(role, AdminRole)' => Taken(role, AdminRole)
  /\ \A p \in HeldPerms : perm'[p] = perm[p]
  /\ \A c \in HeldCodes : Taken(perm, c)' => Taken(perm, c)

\* Of the grants of a role and a permission that it has locked, at most those
\* in revoked are gone.
GrantsHold ==
  \A r \in HeldRoles, p \in HeldPerms :
    <<r, p>> \in roleGrants => <<r, p>> \in roleGrants'

\* A row gets a name that no row has: the names stay unique.
LEMMA Named ==
  ASSUME NEW column, NEW i \in DOMAIN column, NEW name, name \notin {Unused, Gone},
         ~Taken(column, name), Unique(column)
  PROVE  /\ Unique([column EXCEPT ![i] = name])
         /\ Rows([column EXCEPT ![i] = name]) = Rows(column) \cup {i}
<1> DEFINE after == [column EXCEPT ![i] = name]
<1>1. Rows(after) = Rows(column) \cup {i}
  BY DEF Rows
<1>2. \A j \in Rows(column) : column[j] # name
  BY DEF Taken
<1>3. \A j \in Rows(after) : j # i => j \in Rows(column) /\ after[j] = column[j]
  BY DEF Rows
<1>4. after[i] = name
  OBVIOUS
<1>5. Unique(after)
  BY <1>2, <1>3, <1>4 DEF Unique
<1> QED
  BY <1>1, <1>5

\* A row goes: the rest are as they were.
LEMMA Removed ==
  ASSUME NEW column, NEW i \in DOMAIN column, Unique(column)
  PROVE  /\ Unique([column EXCEPT ![i] = Gone])
         /\ Rows([column EXCEPT ![i] = Gone]) = Rows(column) \ {i}
<1> DEFINE after == [column EXCEPT ![i] = Gone]
<1>1. Rows(after) = Rows(column) \ {i}
  BY DEF Rows
<1>2. \A j \in Rows(after) : j \in Rows(column) /\ after[j] = column[j]
  BY <1>1 DEF Rows
<1>3. Unique(after)
  BY <1>2 DEF Unique
<1> QED
  BY <1>1, <1>3

\* The id of a new row is not in use, and in no seeder's hands.
LEMMA NextIsFree ==
  ASSUME NEW column, NEW pending, NEW i \in NextId(column, pending)
  PROVE  i \in DOMAIN column /\ i \notin pending /\ column[i] = Unused /\ i \notin Rows(column)
BY DEF NextId, Rows

\* Statements on users touch nothing that a seeder has locked.
LEMMA UserStatements ==
  ASSUME TablesOK, NEW u \in UserIds, NEW r \in RoleIds \cup {NoRole},
         NEW name \in UserNames, NEW p \in PermIds,
         \/ InsertUser(name, r) \/ UpdateUserRow(u, r) \/ SetUserRole(u, r)
         \/ DeleteUserRow(u) \/ GrantUserPermission(u, p)
         \/ RevokeUserPermission(u, p)
  PROVE  TablesOK' /\ LocksHold /\ GrantsHold
<1> USE Constants DEF TablesOK, TablesTyped
<1>1. UNCHANGED <<role, perm, roleGrants>>
  BY DEF InsertUser, UpdateUserRow, SetUserRole, DeleteUserRow,
         GrantUserPermission, RevokeUserPermission, grants, users
<1>2. LocksHold /\ GrantsHold
  BY <1>1 DEF LocksHold, GrantsHold, Taken, Rows
<1>3. SUFFICES /\ userName' \in [UserIds -> UserNames \cup {Unused, Gone}]
               /\ Unique(userName')
               /\ userRole' \in [UserIds -> RoleIds \cup {NoRole}]
               /\ userGrants' \subseteq UserIds \X PermIds
               /\ \A v \in UserIds : userRole'[v] \in Rows(role) \cup {NoRole}
               /\ \A x \in userGrants' :
                    x[1] \in Rows(userName') /\ x[2] \in Rows(perm)
  <2>1. Rows(role)' = Rows(role) /\ Rows(perm)' = Rows(perm)
        /\ Unique(role)' /\ Unique(perm)'
    BY <1>1 DEF Rows, Unique
  <2>2. Rows(userName)' = Rows(userName') /\ Unique(userName)' = Unique(userName')
    BY DEF Rows, Unique
  <2> QED
    BY <1>1, <1>2, <2>1, <2>2 DEF References
<1> USE DEF References
<1>4. CASE InsertUser(name, r)
  <2>1. PICK v \in NextId(userName, {}) :
          /\ userName' = [userName EXCEPT ![v] = name]
          /\ userRole' = [userRole EXCEPT ![v] = r]
    BY <1>4 DEF InsertUser
  <2>2. v \in UserIds
    BY <2>1, NextIsFree
  <2>3. userName' \in [UserIds -> UserNames \cup {Unused, Gone}] /\ Unique(userName')
        /\ Rows(userName') = Rows(userName) \cup {v}
    BY <1>4, <2>1, <2>2, Named DEF InsertUser
  <2> QED
    BY <1>4, <2>1, <2>2, <2>3 DEF InsertUser, grants
<1>5. CASE UpdateUserRow(u, r) \/ SetUserRole(u, r)
  BY <1>5 DEF UpdateUserRow, SetUserRole, grants
<1>6. CASE DeleteUserRow(u)
  <2>1. userName' \in [UserIds -> UserNames \cup {Unused, Gone}] /\ Unique(userName')
        /\ Rows(userName') = Rows(userName) \ {u}
    BY <1>6, Removed DEF DeleteUserRow
  <2> QED
    BY <1>6, <2>1 DEF DeleteUserRow
<1>7. CASE GrantUserPermission(u, p) \/ RevokeUserPermission(u, p)
  BY <1>7 DEF GrantUserPermission, RevokeUserPermission, users
<1> QED
  BY <1>4, <1>5, <1>6, <1>7
\* Statements on roles leave the role of a running seeder alone.
LEMMA RoleStatements ==
  ASSUME TablesOK, NEW r \in RoleIds, NEW name \in RoleNames,
         InsertRole(name) \/ UpdateRoleRow(r, name) \/ DeleteRoleRow(r)
  PROVE  TablesOK' /\ LocksHold /\ GrantsHold
<1> USE Constants DEF TablesOK, TablesTyped
<1>1. UNCHANGED <<perm, userName>>
  BY DEF InsertRole, UpdateRoleRow, DeleteRoleRow, users
<1>2. /\ \A p \in HeldPerms : perm'[p] = perm[p]
      /\ \A c \in HeldCodes : Taken(perm, c)' => Taken(perm, c)
  BY <1>1 DEF Taken, Rows
<1>3. SUFFICES /\ role' \in [RoleIds -> RoleNames \cup {Unused, Gone}]
               /\ Unique(role')
               /\ userRole' \in [UserIds -> RoleIds \cup {NoRole}]
               /\ roleGrants' \subseteq roleGrants /\ userGrants' = userGrants
               /\ \A u \in UserIds : userRole'[u] \in Rows(role') \cup {NoRole}
               /\ \A x \in roleGrants' : x[1] \in Rows(role')
               /\ \A h \in HeldRoles : role'[h] = role[h]
               /\ HeldRoles # {} /\ Taken(role', AdminRole) => Taken(role, AdminRole)
               /\ GrantsHold
  <2>1. Rows(perm)' = Rows(perm) /\ Rows(userName)' = Rows(userName)
        /\ Unique(perm)' /\ Unique(userName)'
    BY <1>1 DEF Rows, Unique
  <2>2. Rows(role)' = Rows(role') /\ Unique(role)' = Unique(role')
        /\ Taken(role, AdminRole)' = Taken(role', AdminRole)
    BY DEF Rows, Unique, Taken
  <2> QED
    BY <1>1, <1>2, <2>1, <2>2 DEF References, LocksHold
<1> USE DEF References
<1>4. ASSUME NEW v \in RoleIds \ HeldRoles, ~Taken(role, name),
             name = AdminRole => HeldRoles = {},
             role' = [role EXCEPT ![v] = name]
      PROVE  /\ role' \in [RoleIds -> RoleNames \cup {Unused, Gone}]
             /\ Unique(role') /\ Rows(role') = Rows(role) \cup {v}
             /\ \A h \in HeldRoles : role'[h] = role[h]
             /\ HeldRoles # {} /\ Taken(role', AdminRole) => Taken(role, AdminRole)
  <2>1. Unique(role') /\ Rows(role') = Rows(role) \cup {v}
    BY <1>4, Named
  <2>4. AdminRole # name /\ Taken(role', AdminRole) => Taken(role, AdminRole)
    BY <1>4, <2>1 DEF Taken, Rows
  <2>2. \A h \in HeldRoles : h # v
    BY <1>4
  <2>3. \A h \in HeldRoles : role'[h] = role[h]
    BY <1>4, <2>2
  <2> QED
    BY <1>4, <2>1, <2>3, <2>4
<1>5. CASE InsertRole(name)
  <2>1. PICK v \in NextId(role, HeldRoles) : role' = [role EXCEPT ![v] = name]
    BY <1>5 DEF InsertRole
  <2>2. v \in RoleIds \ HeldRoles
    BY <2>1, NextIsFree
  <2>3. /\ ~Taken(role, name) /\ (name = AdminRole => HeldRoles = {})
        /\ UNCHANGED <<userRole, grants>> /\ GrantsHold
    BY <1>5 DEF InsertRole, users, grants, GrantsHold
  <2>4. /\ role' \in [RoleIds -> RoleNames \cup {Unused, Gone}]
        /\ Unique(role') /\ Rows(role') = Rows(role) \cup {v}
        /\ \A h \in HeldRoles : role'[h] = role[h]
        /\ HeldRoles # {} /\ Taken(role', AdminRole) => Taken(role, AdminRole)
    BY <1>4, <2>1, <2>2, <2>3
  <2> QED
    BY <2>3, <2>4 DEF grants
<1>6. CASE UpdateRoleRow(r, name)
  <2>1. /\ ~Taken(role, name) /\ (name = AdminRole => HeldRoles = {})
        /\ r \in RoleIds \ HeldRoles /\ role' = [role EXCEPT ![r] = name]
        /\ UNCHANGED <<userRole, grants>> /\ GrantsHold
    BY <1>6 DEF UpdateRoleRow, users, grants, GrantsHold
  <2>2. /\ role' \in [RoleIds -> RoleNames \cup {Unused, Gone}]
        /\ Unique(role') /\ Rows(role') = Rows(role) \cup {r}
        /\ \A h \in HeldRoles : role'[h] = role[h]
        /\ HeldRoles # {} /\ Taken(role', AdminRole) => Taken(role, AdminRole)
    BY <1>4, <2>1
  <2> QED
    BY <2>1, <2>2 DEF grants
<1>7. CASE DeleteRoleRow(r)
  <2>1. Unique(role') /\ Rows(role') = Rows(role) \ {r}
    BY <1>7, Removed DEF DeleteRoleRow
  <2>5. Taken(role', AdminRole) => Taken(role, AdminRole)
    BY <1>7, <2>1 DEF DeleteRoleRow, Taken, Rows
  <2>2. \A h \in HeldRoles : h # r
    BY <1>7 DEF DeleteRoleRow
  <2>3. GrantsHold
    BY <1>7, <2>2 DEF DeleteRoleRow, GrantsHold
  <2>4. \A h \in HeldRoles : role'[h] = role[h]
    BY <1>7, <2>2 DEF DeleteRoleRow
  <2> QED
    BY <1>7, <2>1, <2>3, <2>4, <2>5 DEF DeleteRoleRow
<1> QED
  BY <1>5, <1>6, <1>7

\* Statements on permissions leave those of a running seeder alone.
LEMMA PermissionStatements ==
  ASSUME TablesOK, NEW p \in PermIds, NEW code \in Codes,
         \/ InsertPermission(code) \/ UpdatePermissionRow(p, code)
         \/ DeletePermissionRow(p)
  PROVE  TablesOK' /\ LocksHold /\ GrantsHold
<1> USE Constants DEF TablesOK, TablesTyped
<1>1. UNCHANGED <<role, userName, userRole>>
  BY DEF InsertPermission, UpdatePermissionRow, DeletePermissionRow, users
<1>2. /\ \A r \in HeldRoles : role'[r] = role[r]
      /\ Taken(role, AdminRole)' => Taken(role, AdminRole)
  BY <1>1 DEF Taken, Rows
<1>3. SUFFICES /\ perm' \in [PermIds -> Codes \cup {Unused, Gone}]
               /\ Unique(perm')
               /\ roleGrants' \subseteq roleGrants /\ userGrants' \subseteq userGrants
               /\ \A x \in roleGrants' : x[2] \in Rows(perm')
               /\ \A x \in userGrants' : x[2] \in Rows(perm')
               /\ \A q \in HeldPerms : perm'[q] = perm[q]
               /\ \A c \in HeldCodes : Taken(perm', c) => Taken(perm, c)
               /\ GrantsHold
  <2>1. Rows(role)' = Rows(role) /\ Rows(userName)' = Rows(userName)
        /\ Unique(role)' /\ Unique(userName)'
    BY <1>1 DEF Rows, Unique
  <2>2. Rows(perm)' = Rows(perm') /\ Unique(perm)' = Unique(perm')
        /\ \A c \in HeldCodes : Taken(perm, c)' = Taken(perm', c)
    BY DEF Rows, Unique, Taken
  <2> QED
    BY <1>1, <1>2, <2>1, <2>2 DEF References, LocksHold
<1> USE DEF References
<1>4. ASSUME NEW v \in PermIds \ HeldPerms, ~Taken(perm, code), code \notin HeldCodes,
             perm' = [perm EXCEPT ![v] = code]
      PROVE  /\ perm' \in [PermIds -> Codes \cup {Unused, Gone}]
             /\ Unique(perm') /\ Rows(perm') = Rows(perm) \cup {v}
             /\ \A q \in HeldPerms : perm'[q] = perm[q]
             /\ \A c \in HeldCodes : Taken(perm', c) => Taken(perm, c)
  <2>1. Unique(perm') /\ Rows(perm') = Rows(perm) \cup {v}
    BY <1>4, Named
  <2>2. \A q \in HeldPerms : perm'[q] = perm[q]
    BY <1>4
  <2>3. \A c \in HeldCodes : Taken(perm', c) => Taken(perm, c)
    BY <1>4, <2>1 DEF Taken, Rows
  <2> QED
    BY <1>4, <2>1, <2>2, <2>3
<1>5. CASE InsertPermission(code)
  <2>1. PICK v \in NextId(perm, HeldPerms) : perm' = [perm EXCEPT ![v] = code]
    BY <1>5 DEF InsertPermission
  <2>2. v \in PermIds \ HeldPerms
    BY <2>1, NextIsFree
  <2> QED
    BY <1>4, <1>5, <2>1, <2>2 DEF InsertPermission, grants, users, GrantsHold
<1>6. CASE UpdatePermissionRow(p, code)
  BY <1>4, <1>6 DEF UpdatePermissionRow, grants, users, GrantsHold
<1>7. CASE DeletePermissionRow(p)
  <2>1. Unique(perm') /\ Rows(perm') = Rows(perm) \ {p}
    BY <1>7, Removed DEF DeletePermissionRow
  <2>5. \A c \in HeldCodes : Taken(perm', c) => Taken(perm, c)
    BY <1>7, <2>1 DEF DeletePermissionRow, Taken, Rows
  <2>2. \A q \in HeldPerms : q # p
    BY <1>7 DEF DeletePermissionRow
  <2>3. GrantsHold
    BY <1>7, <2>2 DEF DeletePermissionRow, GrantsHold
  <2>4. \A q \in HeldPerms : perm'[q] = perm[q]
    BY <1>7, <2>2 DEF DeletePermissionRow
  <2> QED
    BY <1>7, <2>1, <2>3, <2>4, <2>5 DEF DeletePermissionRow
<1> QED
  BY <1>5, <1>6, <1>7

\* Grants to roles go to rows that are there; only a revocation takes one away.
LEMMA GrantStatements ==
  ASSUME TablesOK, NEW r \in RoleIds, NEW p \in PermIds,
         GrantRolePermission(r, p) \/ RevokeRolePermission(r, p)
  PROVE  /\ TablesOK' /\ LocksHold
         /\ GrantRolePermission(r, p) => GrantsHold
         /\ roleGrants \ {<<r, p>>} \subseteq roleGrants'
<1>1. UNCHANGED <<role, perm, userName, userRole, userGrants>>
      /\ roleGrants \ {<<r, p>>} \subseteq roleGrants'
  BY DEF GrantRolePermission, RevokeRolePermission, users
<1>2. LocksHold
  BY <1>1 DEF LocksHold, Taken, Rows
<1>3. Rows(role)' = Rows(role) /\ Rows(perm)' = Rows(perm)
      /\ Rows(userName)' = Rows(userName)
      /\ (Unique(role) /\ Unique(perm) /\ Unique(userName)
          => Unique(role)' /\ Unique(perm)' /\ Unique(userName)')
  BY <1>1 DEF Rows, Unique
<1>4. /\ roleGrants' \subseteq roleGrants \cup {<<r, p>>}
      /\ \/ r \in Rows(role) /\ p \in Rows(perm)
         \/ roleGrants' \subseteq roleGrants
  BY DEF GrantRolePermission, RevokeRolePermission
<1>5. TablesOK'
  BY <1>1, <1>3, <1>4 DEF TablesOK, TablesTyped, References
<1>6. GrantRolePermission(r, p) => GrantsHold
  BY DEF GrantRolePermission, GrantsHold
<1> QED
  BY <1>1, <1>2, <1>5, <1>6
-----------------------------------------------------------------------------
(* The seeder.                                                             *)

\* What is locked by the one seeder that runs.
LEMMA OneSeeder ==
  ASSUME SeedsOK, NEW s \in ApiProcesses, Seeding(s)
  PROVE  /\ Seeders = {s} /\ HeldRoles = {seed[s].role}
         /\ HeldPermRows = seed[s].perms /\ HeldGrants = seed[s].granted
         /\ \A p : p \in HeldPerms <=> \E x \in seed[s].perms : x[2] = p
         /\ \A c : c \in HeldCodes <=> \E x \in seed[s].perms : x[1] = c
<1>1. Seeders = {s}
  BY DEF Seeders, SeedsOK
<1>2. HeldPermRows = seed[s].perms /\ HeldGrants = seed[s].granted
  BY <1>1 DEF HeldPermRows, HeldGrants
<1>3. HeldRoles = {seed[s].role}
  BY <1>1 DEF HeldRoles
<1> QED
  BY <1>1, <1>2, <1>3 DEF HeldPerms, HeldCodes

\* While the handlers keep off what is locked, a seeder finds it as it was.
LEMMA SeedsStay ==
  ASSUME SeedsOK, LocksHold, UNCHANGED seed,
         revoked' \subseteq RoleIds \X PermIds,
         \A s \in ApiProcesses : Seeding(s) =>
           \A x \in seed[s].perms :
             <<seed[s].role, x[2]>> \in roleGrants \cup revoked =>
             <<seed[s].role, x[2]>> \in roleGrants' \cup revoked'
  PROVE  SeedsOK'
<1>1. SeedTyped'
  BY DEF SeedsOK, SeedTyped
<1>2. \A s, t \in ApiProcesses : Seeding(s)' /\ Seeding(t)' => s = t
  BY DEF SeedsOK, Seeding
<1>3. SUFFICES ASSUME NEW s \in ApiProcesses, Seeding(s)
               PROVE  InOrder(s)' /\ RowsLocked(s)' /\ GrantsInHand(s)'
  BY <1>1, <1>2 DEF SeedsOK, Seeding
<1>4. InOrder(s) /\ RowsLocked(s) /\ GrantsInHand(s)
  BY <1>3 DEF SeedsOK
<1>5. InOrder(s)'
  BY <1>4 DEF InOrder
<1>6. RowsLocked(s)'
  <2>1. seed[s].role \in HeldRoles
    BY <1>3, OneSeeder
  <2>2. Found(role, seed[s].role, AdminRole) => Found(role, seed[s].role, AdminRole)'
    BY <2>1 DEF Found, LocksHold, Taken
  <2>3. \A x \in seed[s].perms : x[1] \in HeldCodes /\ x[2] \in HeldPerms
    BY <1>3, OneSeeder
  <2>4. ASSUME NEW x \in seed[s].perms, Found(perm, x[2], x[1])
        PROVE  Found(perm', x[2], x[1])
    <3>1. perm'[x[2]] = perm[x[2]]
      BY <2>3 DEF LocksHold
    <3>2. Taken(perm', x[1]) => Taken(perm, x[1])
      BY <2>3 DEF LocksHold, Taken, Rows
    <3> QED
      BY <2>4, <3>1, <3>2 DEF Found
  <2>5. \A x \in seed[s].perms : Found(perm', x[2], x[1])
    BY <1>4, <2>4 DEF RowsLocked
  <2> QED
    BY <1>4, <2>2, <2>5 DEF RowsLocked, Found, Taken, Rows
<1>7. GrantsInHand(s)'
  BY <1>3, <1>4 DEF GrantsInHand
<1> QED
  BY <1>5, <1>6, <1>7

\* A process that stops seeding leaves the others as they are.
LEMMA SeederGone ==
  ASSUME SeedsOK, NEW s \in ApiProcesses, NEW stage \in {"off", "up", "blind"},
         seed' = [seed EXCEPT ![s] = NotSeeding(stage)], UNCHANGED revoked,
         Seeding(s) \/ UNCHANGED <<role, perm, roleGrants>>
  PROVE  SeedsOK'
<1>1. SeedTyped'
  BY DEF SeedsOK, SeedTyped, NotSeeding
<1>2. ~Seeding(s)' /\ \A t \in ApiProcesses \ {s} : seed'[t] = seed[t]
  BY DEF Seeding, SeedsOK, SeedTyped, NotSeeding
<1>3. \A t \in ApiProcesses : Seeding(t)' => Seeding(t) /\ t # s
  BY <1>2 DEF Seeding
<1>4. CASE Seeding(s)
  BY <1>1, <1>3, <1>4 DEF SeedsOK
<1>5. CASE UNCHANGED <<role, perm, roleGrants>>
  <2>1. ASSUME NEW t \in ApiProcesses, Seeding(t)'
        PROVE  InOrder(t)' /\ RowsLocked(t)' /\ GrantsInHand(t)'
    <3>1. seed'[t] = seed[t] /\ InOrder(t) /\ RowsLocked(t) /\ GrantsInHand(t)
      BY <1>2, <1>3, <2>1 DEF SeedsOK
    <3> QED
      BY <1>5, <3>1 DEF InOrder, RowsLocked, GrantsInHand, Found, Taken, Rows
  <2> QED
    BY <1>1, <1>3, <2>1 DEF SeedsOK
<1> QED
  BY <1>4, <1>5

\* The row that an upsert writes has the value, or is a free one.
LEMMA UpsertedIsFound ==
  ASSUME NEW column, NEW value, NEW pending, NEW i \in Upserted(column, value, pending)
  PROVE  /\ i \in DOMAIN column /\ Found(column, i, value)
         /\ column[i] = value \/ i \notin pending
BY DEF Upserted, Found, NextId, Rows

\* A seeder begins with the role alone.
LEMMA SeedRoleBegins ==
  ASSUME TablesTyped, SeedsOK, NEW s \in ApiProcesses, SeedRole(s)
  PROVE  SeedsOK'
<1>1. PICK r \in Upserted(role, AdminRole, {}) :
        seed' = [seed EXCEPT ![s] = [NotSeeding("seeding") EXCEPT !.role = r]]
  BY DEF SeedRole
<1>2. r \in RoleIds /\ Found(role, r, AdminRole)
  BY <1>1, UpsertedIsFound DEF TablesTyped
<1>3. SeedTyped'
  BY <1>1, <1>2 DEF SeedRole, SeedsOK, SeedTyped, NotSeeding
<1>4. \A t \in ApiProcesses : ~Seeding(t)
  BY DEF SeedRole, HeldRoles, Seeders
<1>5. /\ seed'[s].role = r /\ seed'[s].perms = {} /\ seed'[s].granted = {}
      /\ \A t \in ApiProcesses \ {s} : ~Seeding(t)'
  BY <1>1, <1>4 DEF SeedsOK, SeedTyped, NotSeeding, Seeding
<1>6. Cardinality({}) = 0 /\ IsFiniteSet({})
  BY FS_EmptySet
<1>7. InOrder(s)'
  BY <1>5, <1>6, AccessAssumption DEF InOrder
<1>8. RowsLocked(s)' /\ GrantsInHand(s)'
  BY <1>2, <1>5 DEF RowsLocked, GrantsInHand, Found, Taken, Rows, SeedRole,
     unseeded, tables
<1> QED
  BY <1>3, <1>5, <1>7, <1>8 DEF SeedsOK
\* One more code, at a row that is none of the others'.
LEMMA SeedPermissionKeeps ==
  ASSUME TablesTyped, SeedsOK, NEW s \in ApiProcesses, SeedPermission(s)
  PROVE  SeedsOK'
<1> DEFINE perms == seed[s].perms
           n == Cardinality(perms)
           c == SeedCodes[n + 1]
<1>1. Seeding(s) /\ InOrder(s) /\ RowsLocked(s) /\ GrantsInHand(s)
  BY DEF SeedPermission, SeedsOK
<1>2. UNCHANGED <<role, perm, roleGrants, revoked>>
  BY DEF SeedPermission, unseeded, tables, grants
<1>3. PICK p \in Upserted(perm, Todo(s), HeldPerms) :
        seed' = [seed EXCEPT
          ![s].perms = @ \cup {<<Todo(s), p>>},
          ![s].granted = @ \cup ({<<seed[s].role, p>>} \ roleGrants)]
  BY DEF SeedPermission
<1>4. /\ n \in Nat /\ n < Len(SeedCodes) /\ Len(SeedCodes) \in Nat
      /\ n + 1 \in DOMAIN SeedCodes /\ Todo(s) = c /\ c \in Codes
      /\ \A i \in 1..n : i \in DOMAIN SeedCodes /\ SeedCodes[i] # c
  <2>1. n \in Nat /\ n <= Len(SeedCodes) /\ n # Len(SeedCodes)
    BY <1>1, FS_CardinalityType DEF InOrder, SeedPermission, AllSeeded
  <2>2. Len(SeedCodes) \in Nat /\ DOMAIN SeedCodes = 1..Len(SeedCodes)
        /\ \A i \in DOMAIN SeedCodes : SeedCodes[i] \in Codes
    BY AccessAssumption
  <2> QED
    BY <2>1, <2>2, AccessAssumption DEF Todo
<1>5. p \in PermIds /\ Found(perm, p, c) /\ (perm[p] = c \/ p \notin HeldPerms)
  BY <1>3, <1>4, UpsertedIsFound DEF TablesTyped
<1>6. \A x \in perms : x[1] # c
  BY <1>1, <1>4 DEF InOrder
<1>7. \A x \in perms : x[2] # p
  <2>1. SUFFICES ASSUME NEW x \in perms, x[2] = p
                 PROVE  FALSE
    OBVIOUS
  <2>2. p \in HeldPerms
    BY <1>1, <2>1, OneSeeder
  <2>3. perm[p] = c /\ c # Unused
    BY <1>4, <1>5, <2>2, Constants
  <2> QED
    BY <1>1, <1>6, <2>1, <2>3 DEF RowsLocked, Found
<1>8. seed[s].role \in RoleIds
  BY <1>1 DEF RowsLocked
<1>9. /\ SeedTyped'
      /\ seed'[s].pc = "seeding" /\ seed'[s].role = seed[s].role
      /\ seed'[s].perms = perms \cup {<<c, p>>}
      /\ seed'[s].granted = seed[s].granted \cup ({<<seed[s].role, p>>} \ roleGrants)
      /\ \A t \in ApiProcesses \ {s} : seed'[t] = seed[t]
  <2>1. <<c, p>> \in Codes \X PermIds /\ <<seed[s].role, p>> \in RoleIds \X PermIds
    BY <1>4, <1>5, <1>8
  <2>2. /\ Todo(s) = c /\ Seeding(s) /\ revoked' = revoked
        /\ seed \in [ApiProcesses ->
             [pc : {"off", "seeding", "up", "blind"}, role : RoleIds \cup {0},
              perms : SUBSET (Codes \X PermIds),
              granted : SUBSET (RoleIds \X PermIds)]]
    BY <1>1, <1>2, <1>4 DEF SeedsOK, SeedTyped
  <2> HIDE DEF c
  <2>3. /\ seed'[s].pc = "seeding" /\ seed'[s].role = seed[s].role
        /\ seed'[s].perms = seed[s].perms \cup {<<c, p>>}
        /\ seed'[s].granted = seed[s].granted \cup ({<<seed[s].role, p>>} \ roleGrants)
        /\ \A t \in ApiProcesses \ {s} : seed'[t] = seed[t]
    BY <1>3, <2>2 DEF Seeding
  <2> DEFINE A == Codes \X PermIds
             B == RoleIds \X PermIds
             Start == [pc : {"off", "seeding", "up", "blind"}, role : RoleIds \cup {0},
                       perms : SUBSET A, granted : SUBSET B]
             grant == {<<seed[s].role, p>>} \ roleGrants
             after == [[seed[s] EXCEPT !.perms = @ \cup {<<c, p>>}]
                         EXCEPT !.granted = @ \cup grant]
  <2>4. seed' = [seed EXCEPT ![s] = after]
    BY <1>3, <2>2
  <2>5. after \in Start
    <3>1. <<c, p>> \in A /\ grant \subseteq B /\ seed[s] \in Start
      BY <2>1, <2>2
    <3> HIDE DEF A, B, grant
    <3> QED
      BY <3>1
  <2>6. seed' \in [ApiProcesses -> Start]
    <3> HIDE DEF after, Start, A, B, grant
    <3>1. seed \in [ApiProcesses -> Start]
      BY <2>2 DEF Start, A, B
    <3> QED
      BY <2>4, <2>5, <3>1
  <2>7. SeedTyped'
    BY <2>2, <2>6 DEF SeedTyped, SeedsOK
  <2> QED
    BY <2>3, <2>7
<1>10. IsFiniteSet(perms \cup {<<c, p>>}) /\ Cardinality(perms \cup {<<c, p>>}) = n + 1
  <2>1. <<c, p>> \notin perms
    BY <1>6
  <2> QED
    BY <1>1, <2>1, FS_AddElement DEF InOrder
<1>11. InOrder(s)'
  <2>1. \A i \in 1..(n + 1) : \E x \in perms \cup {<<c, p>>} : x[1] = SeedCodes[i]
    <3>1. TAKE i \in 1..(n + 1)
    <3>2. CASE i = n + 1
      <4>1. <<c, p>>[1] = SeedCodes[i]
        BY <3>2
      <4> QED
        BY <4>1
    <3>3. CASE i # n + 1
      <4>1. i \in 1..n
        BY <1>4, <3>3
      <4> QED
        BY <1>1, <4>1 DEF InOrder
    <3> QED
      BY <3>2, <3>3
  <2>2. \A x \in perms \cup {<<c, p>>} : \E i \in 1..(n + 1) : x[1] = SeedCodes[i]
    <3>1. TAKE x \in perms \cup {<<c, p>>}
    <3>2. CASE x = <<c, p>>
      BY <1>4, <3>2
    <3>3. CASE x \in perms
      BY <1>1, <1>4, <3>3 DEF InOrder
    <3> QED
      BY <3>2, <3>3
  <2>3. \A x, y \in perms \cup {<<c, p>>} : x[1] = y[1] \/ x[2] = y[2] => x = y
    BY <1>1, <1>6, <1>7 DEF InOrder
  <2>4. n + 1 <= Len(SeedCodes)
    BY <1>4
  <2>5. seed'[s].perms = perms \cup {<<c, p>>} /\ Cardinality(seed'[s].perms) = n + 1
    BY <1>9, <1>10
  <2> HIDE DEF perms, n, c
  <2> QED
    BY <1>10, <2>1, <2>2, <2>3, <2>4, <2>5 DEF InOrder
<1>12. RowsLocked(s)'
  <2>1. Found(role, seed[s].role, AdminRole)
        /\ \A x \in perms \cup {<<c, p>>} : Found(perm, x[2], x[1])
    BY <1>1, <1>5 DEF RowsLocked
  <2>2. seed'[s].role \in RoleIds /\ Found(role', seed'[s].role, AdminRole)
        /\ \A x \in seed'[s].perms : Found(perm', x[2], x[1])
    BY <1>2, <1>8, <1>9, <2>1
  <2> QED
    BY <2>2 DEF RowsLocked, Found, Taken, Rows
<1>13. GrantsInHand(s)'
  <2> DEFINE granted == seed[s].granted \cup ({<<seed[s].role, p>>} \ roleGrants)
  <2>1. \A x \in perms \cup {<<c, p>>} :
          <<seed[s].role, x[2]>> \in granted \cup roleGrants \cup revoked
    BY <1>1 DEF GrantsInHand
  <2>2. \A g \in granted :
          g[1] = seed[s].role /\ \E x \in perms \cup {<<c, p>>} : x[2] = g[2]
    <3>1. TAKE g \in granted
    <3>2. CASE g = <<seed[s].role, p>>
      <4>1. g[1] = seed[s].role /\ <<c, p>>[2] = g[2]
        BY <3>2
      <4> QED
        BY <4>1
    <3>3. CASE g \in seed[s].granted
      BY <1>1, <3>3 DEF GrantsInHand
    <3> QED
      BY <3>2, <3>3
  <2> HIDE DEF perms, c
  <2> QED
    BY <1>2, <1>9, <2>1, <2>2 DEF GrantsInHand
<1>14. \A t \in ApiProcesses : Seeding(t)' => t = s
  BY <1>1, <1>9 DEF SeedsOK, Seeding
<1> QED
  BY <1>9, <1>11, <1>12, <1>13, <1>14 DEF SeedsOK

\* A seeder that has done commits: its rows have their values, and every code
\* is granted to the Admin role.
LEMMA SeedCommitWrites ==
  ASSUME TablesOK, SeedsOK, NEW s \in ApiProcesses, SeedCommit(s)
  PROVE  /\ role' = [role EXCEPT ![seed[s].role] = AdminRole]
         /\ \A x \in seed[s].perms : x[2] \in PermIds /\ perm'[x[2]] = x[1]
         /\ \A p \in PermIds :
              (\A x \in seed[s].perms : x[2] # p) => perm'[p] = perm[p]
         /\ perm' \in [PermIds -> Codes \cup {Unused, Gone}]
         /\ InOrder(s) /\ RowsLocked(s) /\ GrantsInHand(s)
<1>1. Seeding(s) /\ InOrder(s) /\ RowsLocked(s) /\ GrantsInHand(s)
  BY DEF SeedCommit, SeedsOK
<1>2. \A p : p \in HeldPerms <=> \E x \in seed[s].perms : x[2] = p
  BY <1>1, OneSeeder
<1>3. seed[s].perms \subseteq Codes \X PermIds
  BY DEF SeedsOK, SeedTyped
<1>4. ASSUME NEW x \in seed[s].perms
      PROVE  x[2] \in PermIds /\ perm'[x[2]] = x[1]
  <2>1. x = <<x[1], x[2]>> /\ x[1] \in Codes /\ x[2] \in PermIds
    BY <1>3
  <2>2. \A c \in Codes : <<c, x[2]>> \in seed[s].perms => c = x[1]
    BY <1>1 DEF InOrder
  <2>3. (CHOOSE c \in Codes : <<c, x[2]>> \in seed[s].perms) = x[1]
    BY <2>1, <2>2
  <2>4. x[2] \in HeldPerms
    BY <1>2
  <2> QED
    BY <2>1, <2>3, <2>4 DEF SeedCommit
<1>5. ASSUME NEW p \in PermIds, \A x \in seed[s].perms : x[2] # p
      PROVE  perm'[p] = perm[p]
  BY <1>2, <1>5 DEF SeedCommit
<1>6. perm' \in [PermIds -> Codes \cup {Unused, Gone}]
  <2>1. \A p \in PermIds : perm'[p] \in Codes \cup {Unused, Gone}
    <3>1. TAKE p \in PermIds
    <3>2. CASE \E x \in seed[s].perms : x[2] = p
      BY <1>3, <1>4, <3>2
    <3>3. CASE ~\E x \in seed[s].perms : x[2] = p
      BY <1>5, <3>3 DEF TablesOK, TablesTyped
    <3> QED
      BY <3>2, <3>3
  <2>2. perm' = [p \in PermIds |-> perm'[p]]
    BY DEF SeedCommit
  <2> QED
    BY <2>1, <2>2
<1> QED
  BY <1>1, <1>4, <1>5, <1>6 DEF SeedCommit
\* The tables after a commit are in order.
LEMMA SeedCommitKeeps ==
  ASSUME TablesOK, SeedsOK, NEW s \in ApiProcesses, SeedCommit(s)
  PROVE  TablesOK'
<1> USE Constants
<1> DEFINE r == seed[s].role
<1>1. /\ role' = [role EXCEPT ![r] = AdminRole]
      /\ \A x \in seed[s].perms : x[2] \in PermIds /\ perm'[x[2]] = x[1]
      /\ \A p \in PermIds :
           (\A x \in seed[s].perms : x[2] # p) => perm'[p] = perm[p]
      /\ perm' \in [PermIds -> Codes \cup {Unused, Gone}]
      /\ InOrder(s) /\ RowsLocked(s) /\ GrantsInHand(s)
  BY SeedCommitWrites
<1>2. seed[s].perms \subseteq Codes \X PermIds /\ seed[s].granted \subseteq RoleIds \X PermIds
  BY DEF SeedsOK, SeedTyped
<1>3. /\ role' \in [RoleIds -> RoleNames \cup {Unused, Gone}]
      /\ Unique(role') /\ Rows(role') = Rows(role) \cup {r}
  <2>1. r \in RoleIds /\ r \in DOMAIN role /\ AdminRole \notin {Unused, Gone}
    BY <1>1 DEF RowsLocked, TablesOK, TablesTyped
  <2>2. CASE role[r] = AdminRole
    <3>1. role' = role /\ r \in Rows(role)
      BY <1>1, <2>1, <2>2 DEF TablesOK, TablesTyped, Rows
    <3> QED
      BY <3>1 DEF TablesOK, TablesTyped
  <2>3. CASE ~Taken(role, AdminRole)
    BY <1>1, <2>1, <2>3, Named DEF TablesOK, TablesTyped
  <2> QED
    BY <1>1, <2>2, <2>3 DEF RowsLocked, Found
<1>4. \A x \in seed[s].perms : x[1] \in Codes /\ x[2] \in Rows(perm')
  BY <1>1, <1>2 DEF Rows
<1>5. /\ Rows(perm) \subseteq Rows(perm')
      /\ \A p \in Rows(perm') : \/ p \in Rows(perm) /\ perm'[p] = perm[p]
                                \/ \E x \in seed[s].perms : x[2] = p /\ ~Taken(perm, x[1])
  <2>1. ASSUME NEW p \in PermIds, \A x \in seed[s].perms : x[2] # p
        PROVE  /\ p \in Rows(perm) <=> p \in Rows(perm')
               /\ perm'[p] = perm[p]
    BY <1>1, <2>1 DEF TablesOK, TablesTyped, Rows
  <2>2. ASSUME NEW x \in seed[s].perms
        PROVE  \/ x[2] \in Rows(perm) /\ perm'[x[2]] = perm[x[2]]
               \/ ~Taken(perm, x[1])
    BY <1>1, <1>2 DEF RowsLocked, Found, TablesOK, TablesTyped, Rows
  <2>3. Rows(perm) \subseteq PermIds /\ Rows(perm') \subseteq PermIds
    BY <1>1 DEF TablesOK, TablesTyped, Rows
  <2> QED
    BY <1>4, <2>1, <2>2, <2>3
<1>6. Unique(perm')
  <2>1. SUFFICES ASSUME NEW p \in Rows(perm'), NEW q \in Rows(perm'), perm'[p] = perm'[q]
                 PROVE  p = q
    BY DEF Unique
  <2>2. ASSUME NEW x \in seed[s].perms, ~Taken(perm, x[1]),
               NEW i \in Rows(perm'), perm'[i] = x[1]
        PROVE  i = x[2]
    <3>1. i \in Rows(perm) => perm[i] # x[1]
      BY <2>2 DEF Taken
    <3>2. PICK y \in seed[s].perms : y[2] = i
      BY <1>5, <2>2, <3>1
    <3> QED
      BY <1>1, <2>2, <3>2 DEF InOrder
  <2>3. CASE p \in Rows(perm) /\ perm'[p] = perm[p] /\ q \in Rows(perm) /\ perm'[q] = perm[q]
    BY <2>1, <2>3 DEF TablesOK, Unique
  <2>4. CASE \E x \in seed[s].perms : x[2] = p /\ ~Taken(perm, x[1])
    BY <1>1, <2>1, <2>2, <2>4
  <2>5. CASE \E x \in seed[s].perms : x[2] = q /\ ~Taken(perm, x[1])
    BY <1>1, <2>1, <2>2, <2>5
  <2> QED
    BY <1>5, <2>3, <2>4, <2>5
<1>7. UNCHANGED <<userName, userRole, userGrants>>
      /\ roleGrants' = roleGrants \cup seed[s].granted
  BY DEF SeedCommit, users
<1>8. \A x \in roleGrants' : x[1] \in Rows(role') /\ x[2] \in Rows(perm')
  <2>1. \A x \in seed[s].granted : x[1] \in Rows(role') /\ x[2] \in Rows(perm')
    BY <1>1, <1>3, <1>4 DEF GrantsInHand
  <2>2. \A x \in roleGrants : x[1] \in Rows(role') /\ x[2] \in Rows(perm')
    BY <1>3, <1>5 DEF TablesOK, References
  <2> QED
    BY <1>7, <2>1, <2>2
<1>9. /\ Rows(role)' = Rows(role') /\ Rows(perm)' = Rows(perm')
      /\ Unique(role)' = Unique(role') /\ Unique(perm)' = Unique(perm')
      /\ Rows(userName)' = Rows(userName) /\ Unique(userName)' = Unique(userName)
  BY <1>7 DEF Rows, Unique
<1> HIDE DEF r
<1>10. TablesTyped'
  BY <1>1, <1>2, <1>3, <1>7 DEF TablesOK, TablesTyped
<1>11. References'
  <2>1. \A u \in UserIds : userRole[u] \in Rows(role') \cup {NoRole}
    BY <1>3 DEF TablesOK, References
  <2>2. \A x \in userGrants : x[1] \in Rows(userName) /\ x[2] \in Rows(perm')
    BY <1>5 DEF TablesOK, References
  <2> QED
    BY <1>7, <1>8, <1>9, <2>1, <2>2 DEF References
<1> QED
  BY <1>3, <1>6, <1>9, <1>10, <1>11 DEF TablesOK

\* ... and the Admin role has every code, but for what was revoked meanwhile.
LEMMA SeedCommitIsWhole ==
  ASSUME TablesOK, SeedsOK, NEW s \in ApiProcesses, SeedCommit(s)
  PROVE  Seeded(s)
<1> USE Constants
<1> DEFINE r == seed[s].role
<1>1. /\ role' = [role EXCEPT ![r] = AdminRole]
      /\ \A x \in seed[s].perms : x[2] \in PermIds /\ perm'[x[2]] = x[1]
      /\ perm' \in [PermIds -> Codes \cup {Unused, Gone}]
      /\ InOrder(s) /\ RowsLocked(s) /\ GrantsInHand(s)
  BY SeedCommitWrites
<1>2. r \in Rows(role)' /\ role'[r] = AdminRole
  BY <1>1 DEF RowsLocked, TablesOK, TablesTyped, Rows
<1>3. roleGrants' = roleGrants \cup seed[s].granted
  BY DEF SeedCommit
<1>4. seed[s].perms \subseteq Codes \X PermIds
  BY DEF SeedsOK, SeedTyped
<1>5. ASSUME NEW i \in DOMAIN SeedCodes
      PROVE  \E p \in Rows(perm)' :
               perm'[p] = SeedCodes[i] /\ <<r, p>> \in roleGrants' \cup revoked
  <2>1. i \in 1..Cardinality(seed[s].perms)
    BY AccessAssumption DEF SeedCommit, AllSeeded
  <2>2. PICK x \in seed[s].perms : x[1] = SeedCodes[i]
    BY <1>1, <2>1 DEF InOrder
  <2>3. x[2] \in Rows(perm)' /\ perm'[x[2]] = SeedCodes[i]
    BY <1>1, <1>4, <2>2 DEF Rows
  <2>4. <<r, x[2]>> \in roleGrants' \cup revoked
    BY <1>1, <1>3 DEF GrantsInHand
  <2> QED
    BY <2>3, <2>4
<1> QED
  BY <1>2, <1>5 DEF Seeded
-----------------------------------------------------------------------------
(* The invariant.                                                          *)

\* A handler that takes no grant from a role does what its statement does.
LEMMA HandlersKeep ==
  ASSUME TablesOK, SeedsOK, UNCHANGED <<seed, revoked>>,
         TablesOK' /\ LocksHold /\ GrantsHold
  PROVE  TablesOK' /\ SeedsOK'
<1>1. ASSUME NEW s \in ApiProcesses, Seeding(s), NEW x \in seed[s].perms,
             <<seed[s].role, x[2]>> \in roleGrants \cup revoked
      PROVE  <<seed[s].role, x[2]>> \in roleGrants' \cup revoked'
  <2>1. seed[s].role \in HeldRoles /\ x[2] \in HeldPerms
    BY <1>1, OneSeeder
  <2> QED
    BY <1>1, <2>1 DEF GrantsHold
<1>2. revoked' \subseteq RoleIds \X PermIds
  BY DEF SeedsOK, SeedTyped
<1> QED
  BY <1>1, <1>2, SeedsStay

\* What is revoked while a seeder runs is remembered.
LEMMA RevokeKeeps ==
  ASSUME TablesOK, SeedsOK, NEW r \in RoleIds, NEW p \in PermIds,
         RevokeFromRole(r, p)
  PROVE  TablesOK' /\ SeedsOK'
<1>1. TablesOK' /\ LocksHold /\ roleGrants \ {<<r, p>>} \subseteq roleGrants'
  BY GrantStatements DEF RevokeFromRole, ByAdmin
<1>2. UNCHANGED seed
      /\ revoked' = IF HeldRoles = {} THEN {} ELSE revoked \cup {<<r, p>>}
  BY DEF RevokeFromRole, ByAdmin
<1>3. \A s \in ApiProcesses : Seeding(s) => HeldRoles # {}
  BY DEF HeldRoles, Seeders
<1>4. revoked' \subseteq RoleIds \X PermIds
  BY <1>2 DEF SeedsOK, SeedTyped
<1> QED
  BY <1>1, <1>2, <1>3, <1>4, SeedsStay

\* Every step keeps the tables and the seeders in order.
LEMMA NextTables ==
  ASSUME TablesOK, SeedsOK, AccessStep
  PROVE  TablesOK' /\ SeedsOK'
<1> USE Constants DEF Handler, ByAdmin
<1>1. CASE \/ \E n \in UserNames, r \in RoleIds \cup {NoRole} : CreateUser(n, r)
           \/ \E u \in UserIds, r \in RoleIds \cup {NoRole} : UpdateUser(u, r)
           \/ \E u \in UserIds, r \in RoleIds : SetRole(u, r)
           \/ \E u \in UserIds : DeleteUser(u)
           \/ \E u \in UserIds, p \in PermIds : GrantPermission(u, p)
           \/ \E u \in UserIds, p \in PermIds : RevokePermission(u, p)
  <2>1. /\ UNCHANGED <<seed, revoked>>
        /\ \E u \in UserIds, r \in RoleIds \cup {NoRole}, n \in UserNames, p \in PermIds :
             \/ InsertUser(n, r) \/ UpdateUserRow(u, r) \/ SetUserRole(u, r)
             \/ DeleteUserRow(u) \/ GrantUserPermission(u, p)
             \/ RevokeUserPermission(u, p)
    BY <1>1 DEF CreateUser, UpdateUser, SetRole, DeleteUser, GrantPermission,
                RevokePermission
  <2> QED
    BY <2>1, UserStatements, HandlersKeep
<1>2. CASE \/ \E n \in RoleNames : CreateRole(n)
           \/ \E r \in RoleIds, n \in RoleNames : UpdateRole(r, n)
           \/ \E r \in RoleIds : DeleteRole(r)
  <2>1. /\ UNCHANGED <<seed, revoked>>
        /\ \E r \in RoleIds, n \in RoleNames :
             InsertRole(n) \/ UpdateRoleRow(r, n) \/ DeleteRoleRow(r)
    BY <1>2 DEF CreateRole, UpdateRole, DeleteRole
  <2> QED
    BY <2>1, RoleStatements, HandlersKeep
<1>3. CASE \/ \E c \in Codes : CreatePermission(c)
           \/ \E p \in PermIds, c \in Codes : UpdatePermission(p, c)
           \/ \E p \in PermIds : DeletePermission(p)
  <2>1. /\ UNCHANGED <<seed, revoked>>
        /\ \E p \in PermIds, c \in Codes :
             InsertPermission(c) \/ UpdatePermissionRow(p, c) \/ DeletePermissionRow(p)
    BY <1>3 DEF CreatePermission, UpdatePermission, DeletePermission
  <2> QED
    BY <2>1, PermissionStatements, HandlersKeep
<1>4. CASE \E r \in RoleIds, p \in PermIds : GrantToRole(r, p)
  BY <1>4, GrantStatements, HandlersKeep DEF GrantToRole
<1>5. CASE \E r \in RoleIds, p \in PermIds : RevokeFromRole(r, p)
  BY <1>5, RevokeKeeps
<1>6. ASSUME UNCHANGED tables
      PROVE  TablesOK'
  BY <1>6 DEF TablesOK, TablesTyped, Unique, References, Rows, tables, users, grants
<1>7. CASE \/ \E h \in Signers, u \in UserIds : ReadCodes(h, u)
           \/ \E h \in Signers, k \in Bearers : Sign(h, k)
           \/ AccessTick
  <2>1. UNCHANGED <<tables, seed, revoked>>
    BY <1>7 DEF ReadCodes, Sign, AccessTick
  <2>2. LocksHold /\ GrantsHold
    BY <2>1 DEF LocksHold, GrantsHold, tables, grants, Taken, Rows
  <2> QED
    BY <1>6, <2>1, <2>2, HandlersKeep
<1>8. CASE \E s \in ApiProcesses :
             SeedRole(s) \/ SeedPermission(s) \/ SeedCommitFails(s) \/ Restart(s)
  <2>1. PICK s \in ApiProcesses :
          SeedRole(s) \/ SeedPermission(s) \/ SeedCommitFails(s) \/ Restart(s)
    BY <1>8
  <2>2. UNCHANGED tables
    BY <2>1 DEF SeedRole, SeedPermission, SeedCommitFails, Restart, unseeded
  <2>3. TablesOK' /\ TablesTyped
    BY <1>6, <2>2 DEF TablesOK
  <2>4. CASE SeedCommitFails(s)
    BY <2>2, <2>3, <2>4, SeederGone DEF SeedCommitFails, tables, grants
  <2>5. CASE Restart(s)
    BY <2>2, <2>3, <2>5, SeederGone DEF Restart, tables, grants
  <2> QED
    BY <2>1, <2>3, <2>4, <2>5, SeedRoleBegins, SeedPermissionKeeps
<1>9. CASE \E s \in ApiProcesses : SeedCommit(s)
  <2>1. PICK s \in ApiProcesses : SeedCommit(s)
    BY <1>9
  <2>2. SeedsOK'
    BY <2>1, SeederGone DEF SeedCommit
  <2> QED
    BY <2>1, <2>2, SeedCommitKeeps
<1> QED
  BY <1>1, <1>2, <1>3, <1>4, <1>5, <1>7, <1>8, <1>9 DEF AccessStep

\* Nobody has a code that is none.
LEMMA EffectiveCodes ==
  ASSUME TablesOK, NEW u
  PROVE  Effective(u) \subseteq Codes
BY DEF Effective, Rows, TablesOK, TablesTyped

\* Which steps touch tokens.
LEMMA TokenMoves ==
  ASSUME TokensTyped, AccessStep
  PROVE  /\ clock' \in Nat /\ clock' >= clock /\ changes' \in Nat
         /\ \/ UNCHANGED <<bearer, signing>>
            \/ \E h \in Signers, u \in UserIds : ReadCodes(h, u)
            \/ \E h \in Signers, k \in Bearers : Sign(h, k)
<1> USE DEF TokensTyped, Handler, ByAdmin
<1>1. CASE \/ \E h \in Signers, u \in UserIds : ReadCodes(h, u)
           \/ \E h \in Signers, k \in Bearers : Sign(h, k)
  <2>1. UNCHANGED <<clock, changes>>
    BY <1>1 DEF ReadCodes, Sign
  <2> QED
    BY <1>1, <2>1
<1>2. CASE \E s \in ApiProcesses :
             SeedRole(s) \/ SeedPermission(s) \/ SeedCommit(s) \/ SeedCommitFails(s)
               \/ Restart(s)
  BY <1>2 DEF SeedRole, SeedPermission, SeedCommit, SeedCommitFails, Restart,
     unseeded
<1>3. CASE AccessTick
  BY <1>3 DEF AccessTick
<1>4. CASE \/ \E n \in UserNames, r \in RoleIds \cup {NoRole} : CreateUser(n, r)
           \/ \E u \in UserIds, r \in RoleIds \cup {NoRole} : UpdateUser(u, r)
           \/ \E u \in UserIds, r \in RoleIds : SetRole(u, r)
           \/ \E u \in UserIds : DeleteUser(u)
           \/ \E u \in UserIds, p \in PermIds : GrantPermission(u, p)
           \/ \E u \in UserIds, p \in PermIds : RevokePermission(u, p)
  BY <1>4 DEF CreateUser, UpdateUser, SetRole, DeleteUser, GrantPermission,
              RevokePermission
<1>5. CASE \/ \E n \in RoleNames : CreateRole(n)
           \/ \E r \in RoleIds, n \in RoleNames : UpdateRole(r, n)
           \/ \E r \in RoleIds : DeleteRole(r)
           \/ \E r \in RoleIds, p \in PermIds : GrantToRole(r, p)
           \/ \E r \in RoleIds, p \in PermIds : RevokeFromRole(r, p)
  BY <1>5 DEF CreateRole, UpdateRole, DeleteRole, GrantToRole, RevokeFromRole
<1>6. CASE \/ \E c \in Codes : CreatePermission(c)
           \/ \E p \in PermIds, c \in Codes : UpdatePermission(p, c)
           \/ \E p \in PermIds : DeletePermission(p)
  BY <1>6 DEF CreatePermission, UpdatePermission, DeletePermission
<1> QED
  BY <1>1, <1>2, <1>3, <1>4, <1>5, <1>6 DEF AccessStep

\* A token says what its user had when it was read, or later.
LEMMA NextTokens ==
  ASSUME TablesOK, TokensOK, AccessNext
  PROVE  TokensOK'
<1> USE Constants
<1>1. held' = [x \in UserIds \X Codes |->
                 IF x[2] \in Effective(x[1]) THEN clock ELSE held[x]]
  BY DEF AccessNext
<1>2. clock \in Nat /\ clock' \in Nat /\ clock' >= clock /\ changes' \in Nat
  BY TokenMoves DEF TokensOK, TokensTyped, AccessNext
<1>3. /\ held' \in [UserIds \X Codes -> Nat]
      /\ \A x \in UserIds \X Codes :
           /\ held[x] \in Nat /\ held'[x] \in Nat /\ held'[x] >= held[x]
           /\ held'[x] <= clock'
           /\ x[2] \in Effective(x[1]) => held'[x] = clock
  BY <1>1, <1>2 DEF TokensOK, TokensTyped
<1>4. ASSUME NEW t, t.user \in UserIds \cup {0}, t.codes \subseteq Codes, t.read \in Nat,
             Said(t)
      PROVE  Said(t)'
  <2>1. ASSUME NEW c \in t.codes
        PROVE  t.user \in UserIds /\ held'[<<t.user, c>>] >= t.read
    <3>1. t.user \in UserIds /\ held[<<t.user, c>>] >= t.read /\ <<t.user, c>> \in UserIds \X Codes
      BY <1>4, <2>1 DEF Said
    <3>2. held'[<<t.user, c>>] >= held[<<t.user, c>>]
          /\ held[<<t.user, c>>] \in Nat /\ held'[<<t.user, c>>] \in Nat
      BY <1>3, <3>1
    <3> QED
      BY <1>4, <3>1, <3>2
  <2> QED
    BY <2>1 DEF Said
<1>5. /\ \A k \in Bearers : Said(bearer[k]) /\ bearer[k].user \in UserIds \cup {0}
           /\ bearer[k].codes \subseteq Codes /\ bearer[k].read \in Nat
      /\ \A h \in Signers : Said(signing[h]) /\ signing[h].user \in UserIds \cup {0}
           /\ signing[h].codes \subseteq Codes /\ signing[h].read \in Nat
  BY DEF TokensOK, TokensTyped
<1> DEFINE SaidNow(t) == \A c \in t.codes : t.user \in UserIds /\ held'[<<t.user, c>>] >= t.read
<1>6. /\ \A k \in Bearers : SaidNow(bearer[k])
      /\ \A h \in Signers : SaidNow(signing[h])
  <2>1. \A t : Said(t)' <=> SaidNow(t)
    BY DEF Said
  <2> QED
    BY <1>4, <1>5, <2>1
<1>7. SUFFICES /\ bearer' \in [Bearers -> [user : UserIds \cup {0}, codes : SUBSET Codes,
                                           read : Nat, expires : Nat]]
               /\ signing' \in [Signers -> [user : UserIds \cup {0}, codes : SUBSET Codes,
                                            read : Nat]]
               /\ \A k \in Bearers : SaidNow(bearer'[k])
               /\ \A h \in Signers : SaidNow(signing'[h])
  BY <1>2, <1>3 DEF TokensOK, TokensTyped, Said
<1>8. CASE UNCHANGED <<bearer, signing>>
  BY <1>6, <1>8 DEF TokensOK, TokensTyped
<1>9. CASE \E h \in Signers, u \in UserIds : ReadCodes(h, u)
  <2>1. PICK h \in Signers, u \in UserIds : ReadCodes(h, u)
    BY <1>9
  <2>2. PICK codes \in SUBSET Effective(u) :
          signing' = [signing EXCEPT ![h] = [user |-> u, codes |-> codes, read |-> clock]]
    BY <2>1 DEF ReadCodes
  <2>3. codes \subseteq Codes /\ UNCHANGED bearer
    BY <2>1, EffectiveCodes DEF ReadCodes
  <2>4. \A c \in codes : held'[<<u, c>>] = clock
    BY <1>3, <2>2, <2>3
  <2>5. SaidNow([user |-> u, codes |-> codes, read |-> clock])
    BY <1>2, <2>4
  <2> HIDE DEF SaidNow
  <2> QED
    BY <1>2, <1>6, <2>2, <2>3, <2>5 DEF TokensOK, TokensTyped
<1>10. CASE \E h \in Signers, k \in Bearers : Sign(h, k)
  <2>1. PICK h \in Signers, k \in Bearers : Sign(h, k)
    BY <1>10
  <2> DEFINE signed == [user |-> signing[h].user, codes |-> signing[h].codes,
                        read |-> signing[h].read, expires |-> clock + JWTExpiry]
  <2>2. bearer' = [bearer EXCEPT ![k] = signed]
        /\ signing' = [signing EXCEPT ![h] = NotSigning]
    BY <2>1 DEF Sign
  <2>3. SaidNow(signed) /\ SaidNow(NotSigning)
    BY <1>6 DEF NotSigning
  <2>4. signed \in [user : UserIds \cup {0}, codes : SUBSET Codes, read : Nat, expires : Nat]
        /\ NotSigning \in [user : UserIds \cup {0}, codes : SUBSET Codes, read : Nat]
    BY <1>2, <1>5 DEF NotSigning
  <2> HIDE DEF SaidNow, signed
  <2> QED
    BY <1>6, <2>2, <2>3, <2>4 DEF TokensOK, TokensTyped
<1> QED
  BY <1>8, <1>9, <1>10, TokenMoves DEF AccessNext, TokensOK
\* Only the seeder's steps move it.
LEMMA SeedMoves ==
  ASSUME AccessStep, seed' # seed
  PROVE  \E s \in ApiProcesses :
           SeedRole(s) \/ SeedPermission(s) \/ SeedCommit(s) \/ SeedCommitFails(s)
             \/ Restart(s)
BY DEF AccessStep, Handler, ByAdmin, CreateUser, UpdateUser, SetRole, DeleteUser,
       GrantPermission, RevokePermission, CreateRole, UpdateRole, DeleteRole,
       GrantToRole, RevokeFromRole, CreatePermission, UpdatePermission,
       DeletePermission, ReadCodes, Sign, AccessTick

\* At first there is one of each, and nobody holds or says anything.
LEMMA InitAccess == AccessInit => AccessInv
<1> SUFFICES ASSUME AccessInit
             PROVE  AccessInv
  OBVIOUS
<1> USE Constants DEF AccessInit
<1>1. /\ Rows(role) = {1} /\ Rows(perm) = {1} /\ Rows(userName) = {1}
  BY DEF First, Rows
<1>2. TablesTyped
  BY DEF TablesTyped, First, NoRole
<1>3. Unique(role) /\ Unique(perm) /\ Unique(userName)
  BY <1>1 DEF Unique
<1>4. References
  BY <1>1 DEF References, NoRole
<1>5. SeedsOK
  <2>1. \A s \in ApiProcesses : ~Seeding(s)
    BY DEF Seeding, NotSeeding
  <2> QED
    BY <2>1 DEF SeedsOK, SeedTyped, NotSeeding
<1>6. TokensOK
  BY DEF TokensOK, TokensTyped, Said, NoToken, NotSigning
<1> QED
  BY <1>2, <1>3, <1>4, <1>5, <1>6 DEF AccessInv, TablesOK

\* Nothing moves when no step is taken.
LEMMA AccessStands ==
  ASSUME AccessInv, UNCHANGED accessVars
  PROVE  AccessInv'
<1> USE DEF AccessInv, accessVars, tables, users, grants
<1>1. TablesOK'
  BY DEF TablesOK, TablesTyped, Unique, References, Rows
<1>2. LocksHold
  BY DEF LocksHold, Taken, Rows
<1>3. SeedsOK'
  BY <1>2, SeedsStay DEF SeedsOK, SeedTyped
<1>4. TokensOK'
  BY DEF TokensOK, TokensTyped, Said
<1> QED
  BY <1>1, <1>3, <1>4

LEMMA AccessInvariant == AccessSpec => []AccessInv
<1>1. AccessInv /\ [AccessNext]_accessVars => AccessInv'
  BY NextTables, NextTokens, AccessStands DEF AccessNext, AccessInv
<1> QED
  BY <1>1, InitAccess, PTL DEF AccessSpec

\* Every variable has its type, and no two rows one name.
LEMMA AccessTypes == AccessSpec => []AccessTypeOK
<1>1. AccessInv => AccessTypeOK
  BY DEF AccessInv, TablesOK, TablesTyped, SeedsOK, SeedTyped, TokensOK,
     TokensTyped,
         AccessTypeOK
<1> QED
  BY <1>1, AccessInvariant, PTL

\* Whoever deletes and seeds at the same time, a grant and a role in use name
\* rows that are there (the foreign keys, with the locks of seeder.Run).
LEMMA ReferencesHold == AccessSpec => []References
<1>1. AccessInv => References
  BY DEF AccessInv, TablesOK
<1> QED
  BY <1>1, AccessInvariant, PTL

\* A token passes with a code no longer than its user had it when the login
\* read the codes (authz.go, auth_handler.go): for any expiry and any clock.
THEOREM TokensAreTrue == AccessSpec => []StaleNoLonger
<1>1. AccessInv => StaleNoLonger
  <2>1. SUFFICES ASSUME TokensOK, NEW k \in Bearers, NEW code \in Codes,
                        RequirePerm(k, code)
                 PROVE  held[bearer[k].user, code] >= bearer[k].read
    BY DEF AccessInv, StaleNoLonger
  <2> QED
    BY <2>1 DEF TokensOK, Said, RequirePerm
<1> QED
  BY <1>1, AccessInvariant, PTL

\* A commit of the seeder leaves the Admin role with every code that it seeds,
\* but for what was revoked while it ran (seeder.Run), among any number of
\* processes that start and of administrators.
THEOREM SeedersFinish == AccessSpec => SeedWhole
<1>1. ASSUME AccessInv, [AccessNext]_accessVars, NEW s \in ApiProcesses,
             Seeding(s), seed'[s].pc = "up"
      PROVE  Seeded(s)
  <2>1. TablesOK /\ SeedsOK /\ SeedTyped
    BY <1>1 DEF AccessInv, SeedsOK
  <2>2. seed'[s].pc # seed[s].pc
    BY <1>1 DEF Seeding
  <2>3. AccessStep
    BY <1>1, <2>2 DEF AccessNext, accessVars
  <2>4. \E t \in ApiProcesses : SeedRole(t) \/ SeedPermission(t) \/ SeedCommit(t)
          \/ SeedCommitFails(t) \/ Restart(t)
    BY <2>2, <2>3, SeedMoves
  <2>5. PICK t \in ApiProcesses : SeedRole(t) \/ SeedPermission(t) \/ SeedCommit(t)
          \/ SeedCommitFails(t) \/ Restart(t)
    BY <2>4
  <2>6. SeedCommit(t) /\ s = t
    <3>1. CASE SeedRole(t)
      BY <1>1, <2>1, <2>2, <3>1 DEF SeedRole, NotSeeding, SeedTyped
    <3>2. CASE SeedPermission(t)
      BY <1>1, <2>1, <2>2, <3>2 DEF SeedPermission, SeedTyped
    <3>3. CASE SeedCommitFails(t) \/ Restart(t)
      BY <1>1, <2>1, <2>2, <3>3 DEF SeedCommitFails, Restart, NotSeeding, SeedTyped
    <3>4. CASE SeedCommit(t)
      BY <1>1, <2>1, <2>2, <3>4 DEF SeedCommit, SeedTyped
    <3> QED
      BY <2>5, <3>1, <3>2, <3>3, <3>4
  <2> QED
    BY <2>1, <2>6, SeedCommitIsWhole
<1>2. AccessInv /\ [AccessNext]_accessVars =>
        [\A s \in ApiProcesses : Seeding(s) /\ seed'[s].pc = "up" => Seeded(s)]_accessVars
  BY <1>1
<1> QED
  BY <1>2, AccessInvariant, PTL DEF AccessSpec, SeedWhole
-----------------------------------------------------------------------------
(* Listing: creations and pages.                                           *)

\* Rows that come before one in the list.
Before(i) == {j \in RowIds : IF NewestFirst THEN j > i ELSE j < i}

\* Under a client's key there is one row or none: as many were made as were
\* given up, and that one.
OneEach ==
  Keyed =>
    /\ \A i, j \in RowIds : key[i] \in Clients /\ key[i] = key[j] => i = j
    /\ \A c \in Clients :
         made[c] = released[c] + (IF \E i \in RowIds : key[i] = c THEN 1 ELSE 0)

\* The reader has seen what comes before its offset of the rows that are left.
SeenSoFar ==
  /\ walk.pc = "walking" =>
       /\ walk.left \subseteq RowIds
       /\ \A i \in walk.left : Rank(i) < walk.offset => i \in walk.seen
  /\ walk.pc = "over" => walk.left \subseteq walk.seen

ListInv == ListTypeOK /\ OneEach /\ SeenSoFar
-----------------------------------------------------------------------------
\* What the constants are.
LEMMA ListConstants ==
  /\ PageSize \in Nat /\ PageSize > 0 /\ MaxRows \in Nat
  /\ NoRow \notin Clients /\ NullKey \notin Clients /\ NoRow # NullKey
BY ListingAssumption, ClientsAreNoMarks

\* There are finitely many rows: a rank is a number.
Ranked ==
  /\ RowIds \subseteq Nat /\ IsFiniteSet(RowIds)
  /\ \A i : /\ IsFiniteSet(Before(i)) /\ Rank(i) = Cardinality(Before(i))
            /\ Rank(i) \in Nat

LEMMA RanksAreNumbers == ListTypeOK => Ranked
<1> SUFFICES ASSUME ListTypeOK
             PROVE  Ranked
  OBVIOUS
<1>1. RowIds \subseteq 1..lastId /\ lastId \in Nat
  BY ListConstants DEF ListTypeOK
<1>2. IsFiniteSet(RowIds)
  <2>1. IsFiniteSet(1..lastId)
    BY <1>1, FS_Interval
  <2> QED
    BY <1>1, <2>1, FS_Subset
<1>3. ASSUME NEW i
      PROVE  IsFiniteSet(Before(i)) /\ Rank(i) = Cardinality(Before(i)) /\ Rank(i) \in Nat
  <2>1. Before(i) \subseteq RowIds
    BY DEF Before
  <2>2. IsFiniteSet(Before(i))
    BY <1>2, <2>1, FS_Subset
  <2>3. Rank(i) = Cardinality(Before(i))
    BY DEF Rank, Before
  <2> QED
    BY <2>2, <2>3, FS_CardinalityType
<1> QED
  BY <1>1, <1>2, <1>3 DEF Ranked

\* What comes before another row has the lower rank.
LEMMA RanksGrow ==
  ASSUME ListTypeOK, NEW i \in RowIds, NEW j \in RowIds, j \in Before(i)
  PROVE  Rank(j) < Rank(i)
<1>1. i \in Nat /\ j \in Nat /\ \A k \in RowIds : k \in Nat
  BY RanksAreNumbers DEF Ranked
<1>2. Before(j) \subseteq Before(i)
  <2>1. ASSUME NEW k \in Before(j)
        PROVE  k \in Before(i)
    <3>1. k \in RowIds /\ k \in Nat
      BY <1>1 DEF Before
    <3>2. CASE kind = "servers"
      BY <1>1, <3>1, <3>2 DEF Before, NewestFirst
    <3>3. CASE kind # "servers"
      BY <1>1, <3>1, <3>3 DEF Before, NewestFirst
    <3> QED
      BY <3>2, <3>3
  <2> QED
    BY <2>1
<1>3. j \notin Before(j)
  BY <1>1 DEF Before
<1>4. Cardinality(Before(j)) <= Cardinality(Before(i))
      /\ Cardinality(Before(i)) # Cardinality(Before(j))
  BY <1>2, <1>3, RanksAreNumbers, FS_Subset DEF Ranked
<1> QED
  BY <1>4, RanksAreNumbers DEF Ranked

\* The rows before one have all the ranks below its own: a page that ends
\* before a row is full.
LEMMA PageIsFull ==
  ASSUME ListTypeOK, NEW offset \in Nat, NEW i \in RowIds,
         Rank(i) >= offset + PageSize
  PROVE  Cardinality(Page(offset)) >= PageSize
<1> USE ListConstants
<1> DEFINE ranks == [j \in Before(i) |-> Rank(j)]
           below == 0..(Rank(i) - 1)
           wanted == offset..(offset + PageSize - 1)
           onPage == [j \in Page(offset) |-> Rank(j)]
<1>1. Rank(i) \in Nat /\ IsFiniteSet(Before(i)) /\ Rank(i) = Cardinality(Before(i))
      /\ \A j : Rank(j) \in Nat
  BY RanksAreNumbers DEF Ranked
<1>2. Before(i) \subseteq RowIds /\ RowIds \subseteq Nat
  BY RanksAreNumbers DEF Ranked, Before
<1>3. IsFiniteSet(below) /\ Cardinality(below) = Rank(i)
  <2> DEFINE last == Rank(i) - 1
  <2>1. last \in Int /\ last + 1 = Rank(i) /\ last >= -1
    BY <1>1
  <2> HIDE DEF last
  <2>2. IsFiniteSet(0..last)
        /\ Cardinality(0..last) = IF 0 > last THEN 0 ELSE last - 0 + 1
    BY <2>1, FS_Interval
  <2>3. Cardinality(0..last) = last + 1
    BY <2>1, <2>2
  <2> QED
    BY <2>1, <2>2, <2>3 DEF last
<1>4. ranks \in Injection(Before(i), below)
  <2>1. \A j \in Before(i) : Rank(j) \in below
    <3>1. TAKE j \in Before(i)
    <3>2. j \in RowIds /\ Rank(j) \in Nat
      BY <1>1, <1>2
    <3>3. Rank(j) < Rank(i)
      BY <3>2, RanksGrow
    <3> QED
      BY <1>1, <3>2, <3>3
  <2>2. \A j, k \in Before(i) : j # k => Rank(j) # Rank(k)
    <3>1. TAKE j \in Before(i), k \in Before(i)
    <3>2. j \in RowIds /\ k \in RowIds /\ j \in Nat /\ k \in Nat
          /\ Rank(j) \in Nat /\ Rank(k) \in Nat
      BY <1>1, <1>2
    <3>3. j # k => j \in Before(k) \/ k \in Before(j)
      BY <3>2 DEF Before, NewestFirst
    <3>4. j \in Before(k) => Rank(j) < Rank(k)
      BY <3>2, RanksGrow
    <3>5. k \in Before(j) => Rank(k) < Rank(j)
      BY <3>2, RanksGrow
    <3> QED
      BY <3>2, <3>3, <3>4, <3>5
  <2> QED
    BY <2>1, <2>2 DEF Injection, IsInjective
<1>5. ranks \in Surjection(Before(i), below)
  BY <1>1, <1>3, <1>4, FS_Injection
<1>6. \A n \in wanted : \E j \in Page(offset) : Rank(j) = n
  <2>1. TAKE n \in wanted
  <2>2. n \in below
    BY <1>1
  <2>3. PICK j \in Before(i) : Rank(j) = n
    BY <1>5, <2>2 DEF Surjection
  <2>4. j \in Page(offset)
    BY <1>2, <2>1, <2>3 DEF Page
  <2> QED
    BY <2>3, <2>4
<1>7. onPage \in Surjection(Page(offset), wanted)
  <2>1. \A j \in Page(offset) : Rank(j) \in wanted
    BY <1>1 DEF Page
  <2> QED
    BY <1>6, <2>1 DEF Surjection
<1>8. IsFiniteSet(Page(offset))
  <2>1. Page(offset) \subseteq RowIds
    BY DEF Page
  <2> QED
    BY <2>1, RanksAreNumbers, FS_Subset DEF Ranked
<1>9. Cardinality(wanted) = PageSize
  BY FS_Interval
<1>10. Cardinality(wanted) <= Cardinality(Page(offset))
  BY <1>7, <1>8, FS_Surjection
<1> QED
  BY <1>9, <1>10, <1>8, FS_CardinalityType
-----------------------------------------------------------------------------
(* The invariant.                                                          *)

LEMMA InitListing == ListInit => ListInv
<1> SUFFICES ASSUME ListInit
             PROVE  ListInv
  OBVIOUS
<1> USE ListConstants DEF ListInit
<1>1. RowIds = {}
  BY DEF RowIds
<1>2. ListTypeOK
  BY <1>1 DEF ListTypeOK, NotWalking
<1>3. OneEach
  BY <1>1 DEF OneEach
<1>4. SeenSoFar
  BY DEF SeenSoFar, NotWalking
<1> QED
  BY <1>2, <1>3, <1>4 DEF ListInv

\* An insert is one row more, the last of all, under a key that has none.
LEMMA InsertKeeps ==
  ASSUME ListInv, NEW c \in Clients, Insert(c), calling' \subseteq Clients
  PROVE  ListInv'
<1> USE ListConstants
<1> DEFINE new == lastId + 1
<1>0. ListTypeOK' => Ranked'
  BY RanksAreNumbers, PTL
<1>1. /\ lastId \in Nat /\ new \in Ids /\ new \notin RowIds /\ lastId' = new
      /\ key' = [key EXCEPT ![new] = c] /\ made' = [made EXCEPT ![c] = @ + 1]
      /\ UNCHANGED <<kind, released, walk>> /\ KeyUnused(c)
  BY DEF Insert, ListInv, ListTypeOK, Ids
<1>2. RowIds' = RowIds \cup {new}
  BY <1>1 DEF RowIds, ListInv, ListTypeOK
<1>3. ListTypeOK'
  <2>1. RowIds' \subseteq 1..lastId'
    BY <1>1, <1>2 DEF ListInv, ListTypeOK
  <2>2. key' \in [Ids -> Clients \cup {NoRow, NullKey}] /\ lastId' \in 0..MaxRows
        /\ made' \in [Clients -> Nat]
    BY <1>1 DEF ListInv, ListTypeOK, Ids
  <2> QED
    BY <1>1, <2>1, <2>2 DEF ListInv, ListTypeOK, Ids
<1>4. OneEach'
  <2>1. SUFFICES ASSUME Keyed
                 PROVE  /\ \A i, j \in RowIds' : key'[i] \in Clients /\ key'[i] = key'[j] => i = j
                        /\ \A d \in Clients : made'[d] = released[d] +
                             (IF \E i \in RowIds' : key'[i] = d THEN 1 ELSE 0)
    BY <1>1 DEF OneEach, Keyed
  <2>2. /\ \A i \in RowIds : key[i] # c /\ key'[i] = key[i]
        /\ key'[new] = c
    BY <1>1, <2>1 DEF KeyUnused, RowIds, ListInv, ListTypeOK
  <2>3. OneEach /\ Keyed
    BY <2>1 DEF ListInv
  <2>4. \A i, j \in RowIds' : key'[i] \in Clients /\ key'[i] = key'[j] => i = j
    BY <1>2, <2>2, <2>3 DEF OneEach
  <2>5. ASSUME NEW d \in Clients
        PROVE  made'[d] = released[d] + (IF \E i \in RowIds' : key'[i] = d THEN 1 ELSE 0)
    <3>1. made[d] = released[d] + (IF \E i \in RowIds : key[i] = d THEN 1 ELSE 0)
          /\ made[d] \in Nat /\ released[d] \in Nat
      BY <2>3 DEF OneEach, ListInv, ListTypeOK
    <3>2. CASE d = c
      <4>1. made'[d] = made[d] + 1
        BY <1>1, <3>2 DEF ListInv, ListTypeOK
      <4>2. ~\E i \in RowIds : key[i] = d
        BY <2>2, <3>2
      <4>3. \E i \in RowIds' : key'[i] = d
        BY <1>2, <2>2, <3>2
      <4> QED
        BY <3>1, <4>1, <4>2, <4>3
    <3>3. CASE d # c
      <4>1. made'[d] = made[d]
        BY <1>1, <3>3 DEF ListInv, ListTypeOK
      <4>2. (\E i \in RowIds' : key'[i] = d) <=> (\E i \in RowIds : key[i] = d)
        BY <1>2, <2>2, <3>3
      <4> QED
        BY <3>1, <4>1, <4>2
    <3> QED
      BY <3>2, <3>3
  <2> QED
    BY <2>4, <2>5
<1>5. SeenSoFar'
  <2>1. \A i \in RowIds : Rank(i) <= Rank(i)' /\ Rank(i) \in Nat /\ Rank(i)' \in Nat
    <3>1. TAKE i \in RowIds
    <3>2. Rank(i) = Cardinality(Before(i)) /\ Rank(i) \in Nat
      BY RanksAreNumbers DEF Ranked, ListInv
    <3>3. Rank(i)' = Cardinality(Before(i)') /\ Rank(i)' \in Nat /\ IsFiniteSet(Before(i)')
      BY <1>0, <1>3 DEF Ranked
    <3>4. Before(i) \subseteq Before(i)'
      BY <1>1, <1>2 DEF Before, NewestFirst
    <3> QED
      BY <3>2, <3>3, <3>4, FS_Subset
  <2>2. walk.pc = "walking" => walk.left \subseteq RowIds' /\ walk.left \subseteq RowIds
    BY <1>2 DEF ListInv, SeenSoFar
  <2>3. ASSUME walk.pc = "walking", NEW i \in walk.left, Rank(i)' < walk.offset
        PROVE  i \in walk.seen
    <3>1. i \in RowIds /\ walk.offset \in Nat
      BY <2>2, <2>3 DEF ListInv, ListTypeOK
    <3>2. Rank(i) < walk.offset
      BY <2>1, <2>3, <3>1
    <3> QED
      BY <2>3, <3>2 DEF ListInv, SeenSoFar
  <2> QED
    BY <1>1, <2>2, <2>3 DEF ListInv, SeenSoFar
<1> QED
  BY <1>3, <1>4, <1>5 DEF ListInv

\* A row that gets another key keeps its rank; one that goes ends the promise.
LEMMA RewriteKeeps ==
  ASSUME ListInv, NEW i \in Ids, NEW k \in Clients \cup {NoRow, NullKey},
         Rewritten(i, k), k \in Clients => KeyUnused(k),
         UNCHANGED <<kind, lastId, calling>>,
         \/ k # NoRow /\ UNCHANGED walk
         \/ walk' = [walk EXCEPT !.left = {}]
  PROVE  ListInv'
<1> USE ListConstants
<1>1. /\ i \in RowIds /\ k # key[i] /\ key' = [key EXCEPT ![i] = k]
      /\ made' = IF k \in Clients THEN [made EXCEPT ![k] = @ + 1] ELSE made
      /\ released' = IF key[i] = NullKey THEN released
                     ELSE [released EXCEPT ![key[i]] = @ + 1]
  BY DEF Rewritten
<1>2. RowIds' = IF k = NoRow THEN RowIds \ {i} ELSE RowIds
  BY <1>1 DEF RowIds, ListInv, ListTypeOK
<1>3. key[i] \in Clients \cup {NullKey}
  BY <1>1 DEF RowIds, ListInv, ListTypeOK
<1>4. ListTypeOK'
  <2>1. key' \in [Ids -> Clients \cup {NoRow, NullKey}]
        /\ made' \in [Clients -> Nat]
        /\ released' \in [Clients -> Nat] /\ RowIds' \subseteq 1..lastId
    BY <1>1, <1>2, <1>3 DEF ListInv, ListTypeOK
  <2>2. walk' \in [pc : {"idle", "walking", "over"}, offset : Nat,
                   seen : SUBSET Ids, left : SUBSET Ids]
    BY DEF ListInv, ListTypeOK
  <2> QED
    BY <2>1, <2>2 DEF ListInv, ListTypeOK, Ids
<1>5. OneEach'
  <2>1. SUFFICES ASSUME Keyed
                 PROVE  /\ \A h, j \in RowIds' : key'[h] \in Clients /\ key'[h] = key'[j] => h = j
                        /\ \A d \in Clients : made'[d] = released'[d] +
                             (IF \E j \in RowIds' : key'[j] = d THEN 1 ELSE 0)
    BY DEF OneEach, Keyed
  <2>2. OneEach /\ Keyed
    BY <2>1 DEF ListInv
  <2>3. /\ \A j \in RowIds' : j \in RowIds /\ (j # i => key'[j] = key[j])
        /\ i \in RowIds' => key'[i] = k /\ k # NoRow
        /\ \A j \in RowIds : j # i => j \in RowIds'
        /\ k # NoRow => i \in RowIds'
    BY <1>1, <1>2 DEF ListInv, ListTypeOK, RowIds
  <2>4. k \in Clients => \A j \in RowIds : key[j] # k
    BY <2>2 DEF KeyUnused
  <2>5. \A h, j \in RowIds' : key'[h] \in Clients /\ key'[h] = key'[j] => h = j
    BY <2>2, <2>3, <2>4 DEF OneEach
  <2>6. ASSUME NEW d \in Clients
        PROVE  made'[d] = released'[d] + (IF \E j \in RowIds' : key'[j] = d THEN 1 ELSE 0)
    <3>1. made[d] = released[d] + (IF \E j \in RowIds : key[j] = d THEN 1 ELSE 0)
          /\ made[d] \in Nat /\ released[d] \in Nat
      BY <2>2 DEF OneEach, ListInv, ListTypeOK
    <3>2. CASE key[i] = d
      <4>1. released'[d] = released[d] + 1 /\ made'[d] = made[d]
        BY <1>1, <3>2 DEF ListInv, ListTypeOK
      <4>2. \E j \in RowIds : key[j] = d
        BY <1>1, <3>2
      <4>3. ~\E j \in RowIds' : key'[j] = d
        BY <1>1, <2>2, <2>3, <3>2 DEF OneEach
      <4> QED
        BY <3>1, <4>1, <4>2, <4>3
    <3>3. CASE k = d
      <4>1. released'[d] = released[d] /\ made'[d] = made[d] + 1
        BY <1>1, <1>3, <3>3 DEF ListInv, ListTypeOK
      <4>2. ~\E j \in RowIds : key[j] = d
        BY <2>4, <3>3
      <4>3. \E j \in RowIds' : key'[j] = d
        BY <1>1, <2>3, <3>3
      <4> QED
        BY <3>1, <4>1, <4>2, <4>3
    <3>4. CASE key[i] # d /\ k # d
      <4>1. released'[d] = released[d] /\ made'[d] = made[d]
        BY <1>1, <1>3, <3>4 DEF ListInv, ListTypeOK
      <4>2. (\E j \in RowIds' : key'[j] = d) <=> (\E j \in RowIds : key[j] = d)
        BY <2>3, <3>4
      <4> QED
        BY <3>1, <4>1, <4>2
    <3> QED
      BY <3>2, <3>3, <3>4
  <2> QED
    BY <2>5, <2>6
<1>6. SeenSoFar'
  <2>1. CASE k # NoRow /\ UNCHANGED walk
    <3>1. RowIds' = RowIds /\ \A j : Rank(j)' = Rank(j)
      BY <1>2, <2>1 DEF Rank, NewestFirst
    <3> QED
      BY <2>1, <3>1 DEF ListInv, SeenSoFar
  <2>2. CASE walk' = [walk EXCEPT !.left = {}]
    <3>1. walk'.left = {}
      BY <2>2 DEF ListInv, ListTypeOK
    <3> QED
      BY <3>1 DEF SeenSoFar
  <2> QED
    BY <2>1, <2>2
<1> QED
  BY <1>4, <1>5, <1>6 DEF ListInv
\* The reader sees a page; the last is the first that is not full, and then no
\* row is left behind it.
LEMMA ListPageKeeps ==
  ASSUME ListInv, ListPage, UNCHANGED kind
  PROVE  ListInv'
<1> USE ListConstants
<1> DEFINE page == Page(walk.offset)
<1>1. /\ walk.pc = "walking" /\ UNCHANGED <<key, lastId, calling, made, released>>
      /\ walk' = [walk EXCEPT !.seen = @ \cup page, !.offset = @ + PageSize,
                    !.pc = IF Cardinality(page) < PageSize THEN "over" ELSE @]
  BY DEF ListPage, table, counts
<1>2. page \subseteq RowIds /\ RowIds \subseteq Ids
  BY DEF Page, RowIds
<1>3. /\ walk \in [pc : {"idle", "walking", "over"}, offset : Nat,
                   seen : SUBSET Ids, left : SUBSET Ids]
  BY DEF ListInv, ListTypeOK
<1>4. /\ walk'.offset = walk.offset + PageSize /\ walk'.seen = walk.seen \cup page
      /\ walk'.left = walk.left
      /\ walk'.pc = IF Cardinality(page) < PageSize THEN "over" ELSE "walking"
      /\ walk' \in [pc : {"idle", "walking", "over"}, offset : Nat,
                    seen : SUBSET Ids, left : SUBSET Ids]
  <2>1. walk'.offset = walk.offset + PageSize /\ walk'.seen = walk.seen \cup page
        /\ walk'.left = walk.left
        /\ walk'.pc = IF Cardinality(page) < PageSize THEN "over" ELSE "walking"
    BY <1>1, <1>3
  <2>2. walk.offset + PageSize \in Nat /\ walk.seen \cup page \subseteq Ids
    BY <1>2, <1>3
  <2> HIDE DEF page
  <2> QED
    BY <1>1, <1>3, <2>1, <2>2
<1>5. RowIds' = RowIds /\ \A i : Rank(i)' = Rank(i)
  BY <1>1 DEF RowIds, Rank, NewestFirst
<1>6. ListTypeOK'
  BY <1>1, <1>4, <1>5 DEF ListInv, ListTypeOK, Ids
<1>7. OneEach'
  BY <1>1, <1>5 DEF ListInv, OneEach, Keyed
<1>8. walk.left \subseteq RowIds
      /\ \A i \in walk.left : Rank(i) < walk.offset => i \in walk.seen
  BY <1>1 DEF ListInv, SeenSoFar
<1>9. \A i : Rank(i) \in Nat
  BY RanksAreNumbers DEF Ranked, ListInv
<1>10. \A i \in walk.left : Rank(i) < walk.offset + PageSize => i \in walk.seen \cup page
  BY <1>3, <1>8, <1>9 DEF Page
<1>11. Cardinality(page) < PageSize => \A i \in walk.left : Rank(i) < walk.offset + PageSize
  <2>1. SUFFICES ASSUME NEW i \in walk.left, Cardinality(page) < PageSize,
                        ~(Rank(i) < walk.offset + PageSize)
                 PROVE  FALSE
    OBVIOUS
  <2>2. i \in RowIds /\ walk.offset \in Nat /\ Rank(i) >= walk.offset + PageSize
    BY <1>3, <1>8, <1>9, <2>1
  <2>3. Cardinality(page) >= PageSize
    BY <2>2, PageIsFull DEF ListInv
  <2>4. IsFiniteSet(page) /\ Cardinality(page) \in Nat
    BY <1>2, RanksAreNumbers, FS_Subset, FS_CardinalityType DEF Ranked, ListInv
  <2> QED
    BY <2>1, <2>3, <2>4
<1>12. SeenSoFar'
  <2> HIDE DEF page
  <2> QED
    BY <1>4, <1>5, <1>8, <1>10, <1>11 DEF SeenSoFar
<1> QED
  BY <1>6, <1>7, <1>12 DEF ListInv

LEMMA NextListing ==
  ASSUME ListInv, [ListNext]_listVars
  PROVE  ListInv'
<1> USE ListConstants
<1>1. ASSUME UNCHANGED <<kind, key, lastId, made, released>>, calling' \subseteq Clients
      PROVE  /\ RowIds' = RowIds /\ OneEach' /\ \A i : Rank(i)' = Rank(i)
             /\ walk' \in [pc : {"idle", "walking", "over"}, offset : Nat,
                           seen : SUBSET Ids, left : SUBSET Ids] => ListTypeOK'
             /\ UNCHANGED walk => ListInv'
  <2>1. RowIds' = RowIds /\ \A i : Rank(i)' = Rank(i)
    BY <1>1 DEF RowIds, Rank, NewestFirst
  <2>2. OneEach'
    BY <1>1, <2>1 DEF ListInv, OneEach, Keyed
  <2>3. walk' \in [pc : {"idle", "walking", "over"}, offset : Nat,
                   seen : SUBSET Ids, left : SUBSET Ids] => ListTypeOK'
    BY <1>1, <2>1 DEF ListInv, ListTypeOK, Ids
  <2>4. UNCHANGED walk => ListInv'
    BY <2>1, <2>2, <2>3 DEF ListInv, ListTypeOK, SeenSoFar
  <2> QED
    BY <2>1, <2>2, <2>3, <2>4
<1>2. calling \subseteq Clients
  BY DEF ListInv, ListTypeOK
<1>3. CASE \E c \in Clients : Create(c) \/ CreateUnheard(c)
  BY <1>2, <1>3, InsertKeeps DEF Create, CreateUnheard
<1>4. CASE \E c \in Clients : CreateRefused(c)
  BY <1>1, <1>2, <1>4 DEF CreateRefused, table, counts
<1>5. CASE \E i \in Ids : \E k \in Clients \cup {NullKey} : UpdateKey(i, k)
  BY <1>5, RewriteKeeps DEF UpdateKey
<1>6. CASE \E i \in Ids : Delete(i)
  BY <1>6, RewriteKeeps DEF Delete
<1>7. CASE StartWalk
  <2>1. /\ UNCHANGED <<kind, key, lastId, made, released, calling>>
        /\ walk' = [pc |-> "walking", offset |-> 0, seen |-> {}, left |-> RowIds]
    BY <1>7 DEF StartWalk, table, counts
  <2>2. ListTypeOK' /\ OneEach'
    BY <1>1, <1>2, <2>1 DEF RowIds
  <2>3. SeenSoFar'
    BY <1>1, <1>2, <2>1, RanksAreNumbers DEF Ranked, SeenSoFar, ListInv
  <2> QED
    BY <2>2, <2>3 DEF ListInv
<1>8. CASE ListRequests \/ ListUsers \/ ListServers
  BY <1>8, ListPageKeeps DEF ListRequests, ListUsers, ListServers, ListPage, table
<1>9. CASE EndWalk
  <2>1. UNCHANGED <<kind, key, lastId, made, released, calling>> /\ walk' = NotWalking
    BY <1>9 DEF EndWalk, table, counts
  <2>2. ListTypeOK' /\ OneEach'
    BY <1>1, <1>2, <2>1 DEF NotWalking
  <2>3. SeenSoFar'
    BY <2>1 DEF SeenSoFar, NotWalking
  <2> QED
    BY <2>2, <2>3 DEF ListInv
<1>10. CASE UNCHANGED listVars
  BY <1>1, <1>2, <1>10 DEF listVars
<1> QED
  BY <1>3, <1>4, <1>5, <1>6, <1>7, <1>8, <1>9, <1>10 DEF ListNext

LEMMA ListInvariant == ListSpec => []ListInv
BY InitListing, NextListing, PTL DEF ListSpec

\* A client that repeats its call until it is heard makes one request or user
\* (the unique keys of both tables), and a reader misses none that stays
\* (LIMIT and OFFSET in a fixed order): for any number of clients and rows and
\* any size of a page.
THEOREM ListsAreKept == ListSpec => []ListKept
<1>1. ListInv => ListKept
  <2> SUFFICES ASSUME ListInv
               PROVE  ListKept
    OBVIOUS
  <2>1. CreatedOnce
    BY DEF ListInv, ListTypeOK, OneEach, CreatedOnce
  <2>2. PagesMissNothing
    BY DEF ListInv, SeenSoFar, PagesMissNothing
  <2> QED
    BY <2>1, <2>2 DEF ListKept
<1> QED
  BY <1>1, ListInvariant, PTL
-----------------------------------------------------------------------------
(* The three beside each other.                                            *)

\* A behaviour of the three beside each other is one of each.
LEMMA Composed == Spec => AccSpec /\ AccessSpec /\ ListSpec
<1>1. Init => AccInit /\ AccessInit /\ ListInit
  BY DEF Init
<1>2. [Next]_vars => [AccNext]_accVars /\ [AccessNext]_accessVars /\ [ListNext]_listVars
  BY DEF Next, vars
<1> QED
  BY <1>1, <1>2, PTL DEF Spec, AccSpec, AccessSpec, ListSpec

\* The types of the three; no list of attempts beyond its limit; whoever deletes
\* and seeds at the same time, a grant and a role in use name rows that exist.
THEOREM ApiTypes == Spec => []ApiTypesOK
<1>1. ListInv => ListTypeOK
  BY DEF ListInv
<1>2. AccTypeOK /\ AccessTypeOK /\ References /\ ListTypeOK => ApiTypesOK
  BY DEF ApiTypesOK
<1> QED
  BY <1>1, <1>2, Composed, AccTypes, AccessTypes, ReferencesHold, ListInvariant, PTL
=============================================================================
