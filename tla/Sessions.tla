------------------------------ MODULE Sessions -----------------------------
(***************************************************************************)
(* Login, refresh and logout of the API (auth_handler.go) over the table   *)
(* refresh_tokens.  Each handler is a row of statements that commit one by *)
(* one, and handlers of several requests interleave.  A refresh token      *)
(* carries its jti; the table says whether it is still good.  A refresh    *)
(* asks whether the token is active, revokes it, looks the user up and     *)
(* stores a new one; errors of the revoke and of the store are dropped.    *)
(*                                                                         *)
(* A session is a login with the tokens got from it by refreshing; it is   *)
(* named by its first token.  Passwords and locks are left to the checks   *)
(* that let a login pass.                                                  *)
(***************************************************************************)
EXTENDS Naturals, FiniteSets

CONSTANTS
  Users,
  NoUser,
  Tokens,     \* jti's
  NoToken,
  Handlers,   \* requests the API works on at the same time
  Orderly,    \* the client of a session waits for an answer before it sends
              \* the next request
  Faults      \* statements that may fail: "revoke", "lookup", "create"; or
              \* "die", a handler that ends before its client hears of it

ASSUME SessionsAssumption ==
  /\ NoToken \notin Tokens /\ NoUser \notin Users
  /\ Orderly \in BOOLEAN
  /\ Faults \subseteq {"revoke", "lookup", "create", "die"}
  /\ IsFiniteSet(Tokens)

VARIABLES
  account,    \* "active", "inactive" or "deleted"
  table,      \* what refresh_tokens says of each jti, "none" without a row
  user,       \* history: whom the token was signed for
  session,    \* history: the session it belongs to
  handed,     \* tokens a client was given
  exchanged,  \* history: how many tokens were made and sent for the token
  ended,      \* history: sessions that a logout ended
  overtaken,  \* history: those of them that were refreshing at the logout
  spoilt,     \* history: tokens on which a statement failed
  lost,       \* history: tokens revoked by a refresh that made no other
  pc,         \* where each handler is
  whose,      \* the user it works for
  old,        \* the token it was sent
  new         \* the token it has signed

tableVars == <<account, table>>
logoutVars == <<ended, overtaken>>
tokenVars == <<user, session, handed, exchanged>>
handlerVars == <<pc, whose, old, new>>
failVars == <<spoilt, lost>>
vars == <<tableVars, logoutVars, failVars, tokenVars, handlerVars>>

Unsigned == {t \in Tokens : session[t] = NoToken}
TokensOf(u) == {t \in Tokens \ Unsigned : user[t] = u}

Refreshing(s) == \E h \in Handlers : old[h] # NoToken /\ session[old[h]] = s
MaySend(t) == Orderly => ~Refreshing(session[t])

Init ==
  /\ account = [u \in Users |-> "active"]
  /\ table = [t \in Tokens |-> "none"]
  /\ user = [t \in Tokens |-> NoUser]
  /\ session = [t \in Tokens |-> NoToken]
  /\ handed = {}
  /\ exchanged = [t \in Tokens |-> 0]
  /\ ended = {} /\ overtaken = {} /\ spoilt = {} /\ lost = {}
  /\ pc = [h \in Handlers |-> "idle"]
  /\ whose = [h \in Handlers |-> NoUser]
  /\ old = [h \in Handlers |-> NoToken]
  /\ new = [h \in Handlers |-> NoToken]
-----------------------------------------------------------------------------
(* The handlers.                                                           *)

\* The handler has answered, well or badly.
Answered(h) ==
  /\ pc' = [pc EXCEPT ![h] = "idle"]
  /\ whose' = [whose EXCEPT ![h] = NoUser]
  /\ old' = [old EXCEPT ![h] = NoToken]
  /\ new' = [new EXCEPT ![h] = NoToken]

\* NewJTI and SignRefresh, for a session that starts with this token or goes
\* on with it.
Signs(h, u, t, s) ==
  /\ t \in Unsigned
  /\ user' = [user EXCEPT ![t] = u]
  /\ session' = [session EXCEPT ![t] = s]
  /\ new' = [new EXCEPT ![h] = t]
  /\ pc' = [pc EXCEPT ![h] = "store"]

\* A login that passed every check.
Login(h, u, t) ==
  /\ pc[h] = "idle"
  /\ account[u] = "active"
  /\ Signs(h, u, t, t)
  /\ whose' = [whose EXCEPT ![h] = u]
  /\ UNCHANGED <<tableVars, logoutVars, failVars, handed, exchanged, old>>

\* RefreshRepo.IsActive; any other answer ends the handler.
RefreshBegins(h, t) ==
  /\ pc[h] = "idle" /\ t \in handed /\ MaySend(t)
  /\ table[t] = "active"
  /\ pc' = [pc EXCEPT ![h] = "revoke"]
  /\ whose' = [whose EXCEPT ![h] = user[t]]
  /\ old' = [old EXCEPT ![h] = t]
  /\ UNCHANGED <<tableVars, logoutVars, failVars, tokenVars, new>>

RevokedIf(S) == [t \in Tokens |-> IF t \in S /\ table[t] # "none"
                                  THEN "revoked" ELSE table[t]]

\* Mutants: the old token is not revoked; all tokens of the user are.
RevokeNothing(h) ==
  /\ pc[h] = "revoke"
  /\ pc' = [pc EXCEPT ![h] = "user"]
  /\ UNCHANGED <<tableVars, logoutVars, failVars, tokenVars, whose, old, new>>
RevokeEverything(h) ==
  /\ pc[h] = "revoke"
  /\ table' = RevokedIf(TokensOf(whose[h]))
  /\ pc' = [pc EXCEPT ![h] = "user"]
  /\ UNCHANGED <<account, logoutVars, failVars, tokenVars, whose, old, new>>

RevokeOld(h) ==
  /\ pc[h] = "revoke"
  /\ table' = RevokedIf({old[h]})
  /\ pc' = [pc EXCEPT ![h] = "user"]
  /\ UNCHANGED <<account, logoutVars, failVars, tokenVars, whose, old, new>>

RevokeFails(h) ==
  /\ "revoke" \in Faults
  /\ pc[h] = "revoke"
  /\ pc' = [pc EXCEPT ![h] = "user"]
  /\ spoilt' = spoilt \cup {old[h]}
  /\ UNCHANGED <<tableVars, logoutVars, lost, tokenVars, whose, old, new>>

\* The user is looked up, whether the account is active or not, and a new
\* token signed.
SignNext(h, t) ==
  /\ pc[h] = "user" /\ account[whose[h]] # "deleted"
  /\ Signs(h, whose[h], t, session[old[h]])
  /\ UNCHANGED <<tableVars, logoutVars, failVars, handed, exchanged, whose, old>>

\* The handler ends, and its client has nothing but a token that is revoked.
EndsWithout(h) ==
  /\ lost' = lost \cup ({old[h]} \ {NoToken})
  /\ Answered(h)
  /\ UNCHANGED <<tableVars, logoutVars, spoilt, tokenVars>>

UserGone(h) ==
  /\ pc[h] = "user"
  /\ "lookup" \in Faults \/ account[whose[h]] = "deleted"
  /\ EndsWithout(h)

\* The handler panics, or the process stops: what it has committed stays.
DiesEarly(h) ==
  /\ "die" \in Faults /\ pc[h] = "revoke"
  /\ Answered(h)
  /\ UNCHANGED <<tableVars, logoutVars, failVars, tokenVars>>
Dies(h) ==
  /\ "die" \in Faults /\ pc[h] \in {"user", "store"}
  /\ EndsWithout(h)

\* Mutant: the client is sent the token it came with.
HandBack(h) ==
  /\ handed' = handed \cup {old[h]}
  /\ exchanged' = IF old[h] = NoToken THEN exchanged
                  ELSE [exchanged EXCEPT ![old[h]] = @ + 1]
  /\ Answered(h)
  /\ UNCHANGED <<account, logoutVars, lost, user, session>>

\* The pair is sent.
Sends(h) ==
  /\ exchanged' = IF old[h] = NoToken THEN exchanged
                  ELSE [exchanged EXCEPT ![old[h]] = @ + 1]
  /\ Answered(h)
  /\ UNCHANGED <<account, logoutVars, lost, user, session>>

\* The client gets its pair.
HandOut(h) == handed' = handed \cup {new[h]} /\ Sends(h)

\* RefreshRepo.Create; the foreign key refuses a deleted user.
Create(h) ==
  /\ pc[h] = "store" /\ account[whose[h]] # "deleted"
  /\ table' = [table EXCEPT ![new[h]] = "active"]
  /\ UNCHANGED spoilt
Store(h) == Create(h) /\ HandOut(h)

\* The answer is lost: the client goes on with a token that is revoked.
StoreUnheard(h) ==
  /\ "die" \in Faults
  /\ Create(h) /\ Sends(h) /\ UNCHANGED handed

StoreFails(h) ==
  /\ pc[h] = "store"
  /\ "create" \in Faults \/ account[whose[h]] = "deleted"
  /\ spoilt' = spoilt \cup {new[h]}
  /\ UNCHANGED table
  /\ HandOut(h)

\* What a logout of u ends, and what of it was on its way to a new token.
Ends(u) ==
  LET S == {session[t] : t \in TokensOf(u) \cap handed} IN
  /\ ended' = ended \cup S
  /\ overtaken' = (overtaken \ S) \cup {s \in S : Refreshing(s)}

\* Mutant: only the tokens of the session that asks are revoked.
LogoutOne(t) ==
  /\ t \in handed /\ MaySend(t)
  /\ table' = RevokedIf({j \in Tokens : session[j] = session[t]})
  /\ Ends(user[t])
  /\ UNCHANGED <<account, failVars, tokenVars, handlerVars>>

\* RevokeAllForUser, sent by the client that holds t: one statement, whoever
\* else is at work for the user.
Logout(t) ==
  /\ t \in handed /\ MaySend(t)
  /\ table' = RevokedIf(TokensOf(user[t]))
  /\ Ends(user[t])
  /\ UNCHANGED <<account, failVars, tokenVars, handlerVars>>

-----------------------------------------------------------------------------
(* The administrator and the clock.                                        *)

SetActive(u) ==
  /\ account[u] # "deleted"
  /\ account' = [account EXCEPT ![u] = IF @ = "active" THEN "inactive"
                                       ELSE "active"]
  /\ UNCHANGED <<table, logoutVars, failVars, tokenVars, handlerVars>>

\* DELETE of the user cascades to refresh_tokens.
DeleteUser(u) ==
  /\ account[u] # "deleted"
  /\ account' = [account EXCEPT ![u] = "deleted"]
  /\ table' = [t \in Tokens |-> IF t \in TokensOf(u) THEN "none" ELSE table[t]]
  /\ UNCHANGED <<logoutVars, failVars, tokenVars, handlerVars>>

Expire(t) ==
  /\ table[t] = "active"
  /\ table' = [table EXCEPT ![t] = "expired"]
  /\ UNCHANGED <<account, logoutVars, failVars, tokenVars, handlerVars>>

Handler(h) ==
  \/ \E u \in Users, t \in Tokens : Login(h, u, t)
  \/ \E t \in Tokens : RefreshBegins(h, t)
  \/ RevokeOld(h)
  \/ RevokeFails(h)
  \/ \E t \in Tokens : SignNext(h, t)
  \/ UserGone(h)
  \/ DiesEarly(h) \/ Dies(h)
  \/ Store(h)
  \/ StoreUnheard(h)
  \/ StoreFails(h)

Next ==
  \/ \E h \in Handlers : Handler(h)
  \/ \E t \in Tokens : Logout(t) \/ Expire(t)
  \/ \E u \in Users : SetActive(u) \/ DeleteUser(u)

Spec == Init /\ [][Next]_vars

-----------------------------------------------------------------------------
(* Properties.                                                             *)

TypeOK ==
  /\ account \in [Users -> {"active", "inactive", "deleted"}]
  /\ table \in [Tokens -> {"none", "active", "revoked", "expired"}]
  /\ user \in [Tokens -> Users \cup {NoUser}]
  /\ session \in [Tokens -> Tokens \cup {NoToken}]
  /\ \A t \in Tokens : user[t] = NoUser <=> session[t] = NoToken
  /\ handed \subseteq Tokens \ Unsigned
  /\ exchanged \in [Tokens -> Nat]
  /\ overtaken \subseteq ended /\ ended \subseteq Tokens
  /\ spoilt \subseteq Tokens /\ lost \subseteq Tokens
  /\ pc \in [Handlers -> {"idle", "revoke", "user", "store"}]
  /\ whose \in [Handlers -> Users \cup {NoUser}]
  /\ old \in [Handlers -> Tokens \cup {NoToken}]
  /\ new \in [Handlers -> Tokens \cup {NoToken}]
  /\ \A h \in Handlers : /\ pc[h] = "idle" <=> whose[h] = NoUser
                         /\ pc[h] \in {"revoke", "user"} => old[h] # NoToken
                         /\ pc[h] = "store" <=> new[h] # NoToken

\* "rotate: revoke old" (Refresh): a refresh token is exchanged for a new
\* pair once, as long as its client sends one request at a time and its row
\* could be written.  Two requests with one token may both find it active
\* before either revokes it.
ExchangedOnce == \A t \in Tokens : exchanged[t] <= 1 \/ t \in spoilt

\* A logout revokes every token of the user (Logout): no session that was at
\* rest then has an active token afterwards, whatever fails and whichever
\* other sessions of the user are refreshing.  A refresh that found its token
\* active before the logout stores its new token after it: that one is left.
LogoutEndsIdle ==
  \A t \in Tokens : session[t] \in ended \ overtaken => table[t] # "active"

\* The newest token a client has is good until it expires, its user logs out,
\* the account is deleted, or its own refresh goes wrong after the revoke: it
\* makes no other (lost), a statement fails (spoilt), or the pair does not
\* arrive (exchanged).  Nothing that other sessions do, and no rotation that
\* ends well, costs a session its token.
SessionsGoOn ==
  \A t \in handed :
    \/ table[t] \in {"active", "expired"}
    \/ exchanged[t] > 0 \/ session[t] \in ended
    \/ account[user[t]] = "deleted"
    \/ t \in spoilt \cup lost
    \/ \E h \in Handlers : old[h] = t /\ pc[h] # "revoke"
=============================================================================
