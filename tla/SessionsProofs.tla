--------------------------- MODULE SessionsProofs --------------------------
(***************************************************************************)
(* Proofs about Sessions, for any number of users, tokens and requests     *)
(* that the API works on at the same time, and whichever statements fail.  *)
(***************************************************************************)
EXTENDS Sessions, TLAPS

-----------------------------------------------------------------------------
(* Where tokens are.                                                       *)

\* A refresh works for the user of a token that a client was given.
OldHanded ==
  \A h \in Handlers :
    /\ old[h] # NoToken => old[h] \in handed /\ user[old[h]] = whose[h]
    /\ pc[h] = "idle" => old[h] = NoToken

\* A token just signed is known to its handler only, and goes on with the
\* session of the old one, or starts its own.
SignedOnce ==
  \A h \in Handlers : new[h] # NoToken =>
    /\ new[h] \notin Unsigned /\ new[h] \notin handed /\ table[new[h]] = "none"
    /\ session[new[h]] = IF old[h] = NoToken THEN new[h] ELSE session[old[h]]
    /\ user[new[h]] = whose[h]
    /\ \A g \in Handlers : new[g] = new[h] => g = h

\* A session is named by its first token, which is handed out first, and
\* belongs to one user.
Lineage ==
  \A t \in Tokens \ Unsigned :
    /\ session[t] \in Tokens \ Unsigned
    /\ session[session[t]] = session[t] /\ user[session[t]] = user[t]
    /\ t \in handed => session[t] \in handed

\* Only a token that was handed out was exchanged; one that has a row was
\* signed, and its client may not have heard of it.
HandedFirst ==
  \A t \in Tokens : /\ exchanged[t] > 0 => t \in handed
                    /\ table[t] # "none" => t \notin Unsigned

\* A handler that ends without a pair for its client.
GivesUp(h) == UserGone(h) \/ DiesEarly(h) \/ Dies(h)

TokensInv == TypeOK /\ OldHanded /\ SignedOnce /\ Lineage /\ HandedFirst

LEMMA InitTokens == Init => TokensInv
<1> SUFFICES ASSUME Init PROVE TokensInv
  OBVIOUS
<1> USE SessionsAssumption DEF Init, Unsigned
<1>1. TypeOK
  BY DEF TypeOK
<1> QED
  BY <1>1 DEF TokensInv, OldHanded, SignedOnce, Lineage, HandedFirst

\* A new token is signed: for a session of its own, or for the session of
\* the token that h was sent.
LEMMA SignTokens ==
  ASSUME TokensInv, NEW h \in Handlers, NEW u \in Users, NEW t \in Tokens,
         Signs(h, u, t, IF old[h] = NoToken THEN t ELSE session[old[h]]),
         pc[h] \in {"idle", "user"},
         pc[h] = "idle" => whose' = [whose EXCEPT ![h] = u],
         pc[h] = "user" => whose' = whose /\ u = whose[h],
         UNCHANGED <<tableVars, logoutVars, failVars, handed, exchanged, old>>
  PROVE  TokensInv'
<1> USE SessionsAssumption DEF tableVars, logoutVars, failVars
<1> DEFINE s == IF old[h] = NoToken THEN t ELSE session[old[h]]
<1>1. /\ TypeOK /\ t \in Unsigned /\ new[h] = NoToken
      /\ t \notin handed /\ table[t] = "none"
      /\ pc[h] = "idle" <=> old[h] = NoToken
      /\ user' = [user EXCEPT ![t] = u] /\ session' = [session EXCEPT ![t] = s]
      /\ new' = [new EXCEPT ![h] = t] /\ pc' = [pc EXCEPT ![h] = "store"]
  BY DEF TokensInv, TypeOK, OldHanded, HandedFirst, Signs
<1>2. /\ s = t \/ (s \in Tokens \ Unsigned /\ s # t)
      /\ whose'[h] = u /\ whose' \in [Handlers -> Users \cup {NoUser}]
      /\ \A g \in Handlers \ {h} : whose'[g] = whose[g]
  BY <1>1 DEF TokensInv, TypeOK, OldHanded, Lineage, Unsigned
<1> HIDE DEF s
<1>3. Unsigned' = Unsigned \ {t}
  BY <1>1, <1>2 DEF Unsigned, TypeOK
<1>4. TypeOK'
  <2>1. /\ user' \in [Tokens -> Users \cup {NoUser}] /\ session' \in [Tokens -> Tokens \cup {NoToken}]
        /\ \A j \in Tokens : user'[j] = NoUser <=> session'[j] = NoToken
    BY <1>1, <1>2 DEF TypeOK, Unsigned
  <2>2. handed' \subseteq Tokens \ Unsigned'
    BY <1>1, <1>3 DEF TypeOK
  <2>3. /\ pc' \in [Handlers -> {"idle", "revoke", "user", "store"}]
        /\ old' \in [Handlers -> Tokens \cup {NoToken}]
        /\ new' \in [Handlers -> Tokens \cup {NoToken}]
        /\ \A g \in Handlers : /\ pc'[g] = "idle" <=> whose'[g] = NoUser
                               /\ pc'[g] \in {"revoke", "user"} => old'[g] # NoToken
                               /\ pc'[g] = "store" <=> new'[g] # NoToken
    BY <1>1, <1>2 DEF TypeOK
  <2> QED
    BY <1>1, <1>2, <2>1, <2>2, <2>3 DEF TypeOK
<1>5. OldHanded'
  BY <1>1, <1>2 DEF TokensInv, TypeOK, OldHanded
<1>6. HandedFirst'
  BY <1>1, <1>3 DEF TokensInv, HandedFirst
<1>7. SignedOnce'
  BY <1>1, <1>2, <1>3 DEF TokensInv, TypeOK, OldHanded, SignedOnce, Unsigned, s
<1>8. Lineage'
  BY <1>1, <1>2, <1>3 DEF TokensInv, TypeOK, OldHanded, Lineage, Unsigned, s
<1> QED
  BY <1>4, <1>5, <1>6, <1>7, <1>8 DEF TokensInv

\* The handler of h has answered and its new token is out, or its answer is
\* lost: OldHanded and SignedOnce lose a handler.
LEMMA HandOutTokens ==
  ASSUME TokensInv, NEW h \in Handlers, pc[h] = "store", Sends(h),
         handed' = handed \cup {new[h]} \/ handed' = handed,
         table' \in [Tokens -> {"none", "active", "revoked", "expired"}],
         \A t \in Tokens : t # new[h] => table'[t] = table[t],
         spoilt' \subseteq Tokens
  PROVE  TokensInv'
<1> USE SessionsAssumption DEF logoutVars
<1>1. /\ TypeOK /\ new[h] \in Tokens \ Unsigned
      /\ handed \subseteq handed' /\ handed' \subseteq handed \cup {new[h]}
      /\ UNCHANGED <<account, ended, overtaken, lost, user, session, Unsigned>>
      /\ pc' = [pc EXCEPT ![h] = "idle"] /\ whose' = [whose EXCEPT ![h] = NoUser]
      /\ old' = [old EXCEPT ![h] = NoToken] /\ new' = [new EXCEPT ![h] = NoToken]
  BY DEF TokensInv, TypeOK, SignedOnce, Sends, Answered, Unsigned
<1>2. exchanged' \in [Tokens -> Nat] /\ \A t \in Tokens : t # old[h] => exchanged'[t] = exchanged[t]
  BY <1>1 DEF TypeOK, Sends
<1>3. TypeOK'
  BY <1>1, <1>2 DEF TypeOK
<1>4. OldHanded'
  BY <1>1 DEF TokensInv, TypeOK, OldHanded
<1>5. SignedOnce'
  BY <1>1 DEF TokensInv, TypeOK, SignedOnce
<1>6. Lineage'
  <2>1. old[h] = NoToken \/ old[h] \in handed
    BY DEF TokensInv, OldHanded
  <2>2. handed \subseteq Tokens \ Unsigned
    BY DEF TokensInv, TypeOK
  <2>3. new[h] \in handed' => session[new[h]] \in handed'
    BY <1>1, <2>1, <2>2 DEF TokensInv, SignedOnce, Lineage
  <2> QED
    BY <1>1, <2>3 DEF TokensInv, Lineage
<1>7. HandedFirst'
  BY <1>1, <1>2 DEF TokensInv, OldHanded, HandedFirst
<1> QED
  BY <1>3, <1>4, <1>5, <1>6, <1>7 DEF TokensInv

\* A handler begins a refresh, goes on to the user, or gives up.
Moves(h) ==
  \/ \E t \in handed :
       /\ pc[h] = "idle" /\ pc' = [pc EXCEPT ![h] = "revoke"]
       /\ whose' = [whose EXCEPT ![h] = user[t]]
       /\ old' = [old EXCEPT ![h] = t] /\ new' = new
  \/ /\ pc[h] = "revoke" /\ pc' = [pc EXCEPT ![h] = "user"]
     /\ UNCHANGED <<whose, old, new>>
  \/ pc[h] # "idle" /\ Answered(h)

\* The other steps sign and hand out nothing, and give no row to a token
\* that had none.
LEMMA RestTokens ==
  ASSUME TokensInv, UNCHANGED <<user, session, handed, exchanged>>,
         account' \in [Users -> {"active", "inactive", "deleted"}],
         table' \in [Tokens -> {"none", "active", "revoked", "expired"}],
         \A t \in Tokens : table[t] = "none" => table'[t] = "none",
         ended' \subseteq Tokens, overtaken' \subseteq ended', spoilt' \subseteq Tokens,
         lost' \subseteq Tokens,
         UNCHANGED handlerVars \/ \E h \in Handlers : Moves(h)
  PROVE  TokensInv'
<1> USE SessionsAssumption DEF handlerVars
<1>1. TypeOK /\ Unsigned' = Unsigned
  BY DEF TokensInv, Unsigned
<1>2. Lineage' /\ HandedFirst'
  BY <1>1 DEF TokensInv, Lineage, HandedFirst
<1>3. CASE UNCHANGED handlerVars
  <2>1. TypeOK'
    BY <1>1, <1>3 DEF TypeOK
  <2>2. OldHanded' /\ SignedOnce'
    BY <1>1, <1>3 DEF TokensInv, TypeOK, OldHanded, SignedOnce
  <2> QED
    BY <1>2, <2>1, <2>2 DEF TokensInv
<1>4. ASSUME NEW h \in Handlers, NEW t \in handed,
             pc[h] = "idle" /\ pc' = [pc EXCEPT ![h] = "revoke"],
             whose' = [whose EXCEPT ![h] = user[t]],
             old' = [old EXCEPT ![h] = t] /\ new' = new
      PROVE  TokensInv'
  <2>1. t \in Tokens /\ user[t] \in Users
    BY <1>1 DEF TypeOK, Unsigned
  <2>2. TypeOK'
    BY <1>1, <1>4, <2>1 DEF TypeOK
  <2>3. OldHanded' /\ SignedOnce'
    BY <1>1, <1>4, <2>1 DEF TokensInv, TypeOK, OldHanded, SignedOnce
  <2> QED
    BY <1>2, <2>2, <2>3 DEF TokensInv
<1>5. ASSUME NEW h \in Handlers,
             pc[h] = "revoke" /\ pc' = [pc EXCEPT ![h] = "user"],
             UNCHANGED <<whose, old, new>>
      PROVE  TokensInv'
  <2>1. TypeOK'
    BY <1>1, <1>5 DEF TypeOK
  <2>2. OldHanded' /\ SignedOnce'
    BY <1>1, <1>5 DEF TokensInv, TypeOK, OldHanded, SignedOnce
  <2> QED
    BY <1>2, <2>1, <2>2 DEF TokensInv
<1>6. ASSUME NEW h \in Handlers, pc[h] # "idle", Answered(h)
      PROVE  TokensInv'
  <2>1. TypeOK'
    <3>1. /\ pc' \in [Handlers -> {"idle", "revoke", "user", "store"}]
          /\ whose' \in [Handlers -> Users \cup {NoUser}]
          /\ old' \in [Handlers -> Tokens \cup {NoToken}]
          /\ new' \in [Handlers -> Tokens \cup {NoToken}]
          /\ \A g \in Handlers : /\ pc'[g] = "idle" <=> whose'[g] = NoUser
                                 /\ pc'[g] \in {"revoke", "user"} => old'[g] # NoToken
                                 /\ pc'[g] = "store" <=> new'[g] # NoToken
      BY <1>1, <1>6 DEF TypeOK, Answered
    <3> QED
      BY <1>1, <3>1 DEF TypeOK
  <2>2. OldHanded' /\ SignedOnce'
    BY <1>1, <1>6 DEF TokensInv, TypeOK, OldHanded, SignedOnce, Answered
  <2> QED
    BY <1>2, <2>1, <2>2 DEF TokensInv
<1> QED
  BY <1>3, <1>4, <1>5, <1>6 DEF Moves

LEMMA HandlerTokens ==
  ASSUME TokensInv, NEW h \in Handlers, Handler(h)
  PROVE  TokensInv'
<1> USE SessionsAssumption DEF tableVars, logoutVars, tokenVars, failVars
<1>0. TypeOK
  BY DEF TokensInv
<1>1. ASSUME NEW u \in Users, NEW t \in Tokens, Login(h, u, t)
      PROVE  TokensInv'
  <2>1. old[h] = NoToken
    BY <1>1 DEF Login, TokensInv, OldHanded
  <2> QED
    BY <1>1, <2>1, SignTokens DEF Login
<1>2. ASSUME NEW t \in Tokens, SignNext(h, t)
      PROVE  TokensInv'
  <2>1. old[h] # NoToken /\ whose[h] \in Users /\ pc[h] = "user"
    BY <1>0, <1>2 DEF SignNext, TypeOK
  <2> QED
    BY <1>2, <2>1, SignTokens DEF SignNext
<1>3. CASE \E t \in Tokens : RefreshBegins(h, t)
  <2>1. Moves(h)
    BY <1>3 DEF RefreshBegins, Moves
  <2> QED
    BY <1>0, <1>3, <2>1, RestTokens DEF RefreshBegins, TypeOK
<1>4. CASE RevokeOld(h)
  <2>1. Moves(h)
    BY <1>4 DEF RevokeOld, Moves
  <2> QED
    BY <1>0, <1>4, <2>1, RestTokens DEF RevokeOld, RevokedIf, TypeOK
<1>5. CASE RevokeFails(h)
  <2>1. Moves(h)
    BY <1>5 DEF RevokeFails, Moves
  <2> QED
    BY <1>0, <1>5, <2>1, RestTokens DEF RevokeFails, TypeOK
<1>6. CASE GivesUp(h)
  <2>1. /\ UNCHANGED <<tableVars, logoutVars, spoilt, tokenVars>>
        /\ lost' = lost \/ lost' = lost \cup ({old[h]} \ {NoToken})
        /\ pc[h] # "idle" /\ Answered(h)
    BY <1>6 DEF GivesUp, UserGone, DiesEarly, Dies, EndsWithout
  <2>2. Moves(h)
    BY <2>1 DEF Moves
  <2> QED
    BY <1>0, <2>1, <2>2, RestTokens DEF TypeOK
<1>7. CASE Store(h) \/ StoreUnheard(h)
  BY <1>0, <1>7, HandOutTokens DEF Store, StoreUnheard, Create, HandOut, TypeOK
<1>8. CASE StoreFails(h)
  BY <1>0, <1>8, HandOutTokens DEF StoreFails, HandOut, TypeOK
<1> QED
  BY <1>1, <1>2, <1>3, <1>4, <1>5, <1>6, <1>7, <1>8 DEF Handler, GivesUp

LEMMA NextTokens ==
  ASSUME TokensInv, [Next]_vars
  PROVE  TokensInv'
<1> USE SessionsAssumption DEF tableVars, logoutVars, tokenVars, handlerVars, failVars
<1>0. TypeOK
  BY DEF TokensInv
<1>1. CASE \E h \in Handlers : Handler(h)
  BY <1>1, HandlerTokens
<1>2. ASSUME NEW t \in Tokens, Logout(t) PROVE TokensInv'
  <2>1. /\ table' = RevokedIf(TokensOf(user[t]))
        /\ ended' \subseteq Tokens /\ overtaken' \subseteq ended'
    BY <1>0, <1>2 DEF Logout, Ends, TypeOK, TokensOf, Unsigned
  <2> QED
    BY <1>0, <1>2, <2>1, RestTokens DEF Logout, RevokedIf, TypeOK
<1>3. CASE \E t \in Tokens : Expire(t)
  BY <1>0, <1>3, RestTokens DEF Expire, TypeOK
<1>4. CASE \E u \in Users : SetActive(u)
  BY <1>0, <1>4, RestTokens DEF SetActive, TypeOK
<1>5. CASE \E u \in Users : DeleteUser(u)
  BY <1>0, <1>5, RestTokens DEF DeleteUser, TypeOK
<1>6. CASE UNCHANGED vars
  BY <1>0, <1>6, RestTokens DEF vars, TypeOK
<1> QED
  BY <1>1, <1>2, <1>3, <1>4, <1>5, <1>6 DEF Next

\* Every reachable state has the types the model declares.
THEOREM TypeCorrect == Spec => []TypeOK
<1>1. TokensInv /\ [Next]_vars => TokensInv'
  BY NextTokens
<1>2. TokensInv => TypeOK
  BY DEF TokensInv
<1> QED
  BY InitTokens, <1>1, <1>2, PTL DEF Spec

-----------------------------------------------------------------------------
(* A refresh token is exchanged once.                                      *)

\* The clients are orderly: one refresh at a time in each session.
OneRefresh ==
  \A g, h \in Handlers :
    old[g] # NoToken /\ old[h] # NoToken /\ session[old[g]] = session[old[h]]
      => g = h

\* A token that was exchanged is neither active nor on its way to be
\* exchanged again, and one whose exchange is past the revoke is not active,
\* unless a statement on it failed.
Once(t) ==
  t \notin spoilt =>
    /\ exchanged[t] <= 1
    /\ exchanged[t] > 0 => table[t] # "active" /\ \A h \in Handlers : old[h] # t
    /\ \A h \in Handlers : old[h] = t /\ pc[h] \in {"user", "store"}
                             => table[t] # "active"

OnceInv == OneRefresh /\ \A t \in Tokens : Once(t)

\* A handler lets go of its tokens, and nobody takes one up.
LEMMA OneRefreshKept ==
  ASSUME TypeOK, OldHanded, OneRefresh,
         \A h \in Handlers : old'[h] = old[h] \/ old'[h] = NoToken,
         \A t \in handed : session'[t] = session[t]
  PROVE  OneRefresh'
<1>1. \A h \in Handlers : old'[h] # NoToken => session'[old'[h]] = session[old[h]] /\ old[h] # NoToken
  BY DEF OldHanded
<1> QED
  BY <1>1 DEF OneRefresh

\* A token stays exchanged at most once through a step that exchanges no
\* token and makes none active that was exchanged or is being so.
LEMMA OnceKept ==
  ASSUME TypeOK, NEW t \in Tokens, Once(t), spoilt \subseteq spoilt',
         exchanged'[t] = exchanged[t],
         table'[t] = "active" => table[t] = "active",
         \A h \in Handlers : old'[h] = t =>
           old[h] = t /\ (pc'[h] \in {"user", "store"} => pc[h] \in {"user", "store"})
  PROVE  Once(t)'
BY DEF Once

LEMMA HandlerOnce ==
  ASSUME Orderly, TokensInv, OnceInv, NEW h \in Handlers, Handler(h)
  PROVE  OnceInv'
<1> USE SessionsAssumption DEF tableVars, logoutVars, tokenVars, failVars
<1>0. TypeOK /\ OldHanded /\ OneRefresh /\ handed \subseteq Tokens \ Unsigned
  BY DEF TokensInv, TypeOK, OnceInv
<1>1. ASSUME NEW t \in Tokens, SignNext(h, t) \/ \E u \in Users : Login(h, u, t)
      PROVE  OnceInv'
  <2>1. /\ session' = [session EXCEPT ![t] = session'[t]] /\ t \notin handed
        /\ pc' = [pc EXCEPT ![h] = "store"]
        /\ UNCHANGED <<old, table, spoilt, exchanged>>
        /\ pc[h] = "user" \/ old[h] = NoToken
    BY <1>0, <1>1 DEF Login, SignNext, Signs, TypeOK, OldHanded
  <2>2. \A j \in handed : session'[j] = session[j]
    BY <1>0, <2>1 DEF TypeOK
  <2>3. OneRefresh'
    BY <1>0, <2>1, <2>2, OneRefreshKept
  <2>4. \A j \in Tokens : Once(j)'
    BY <1>0, <2>1, OnceKept DEF OnceInv, TypeOK
  <2> QED
    BY <2>3, <2>4 DEF OnceInv
<1>2. ASSUME NEW t \in Tokens, RefreshBegins(h, t)
      PROVE  OnceInv'
  <2>1. /\ old' = [old EXCEPT ![h] = t] /\ pc' = [pc EXCEPT ![h] = "revoke"]
        /\ UNCHANGED <<session, table, spoilt, exchanged>>
        /\ table[t] = "active" /\ ~Refreshing(session[t])
    BY <1>2 DEF RefreshBegins, MaySend
  <2>2. OneRefresh'
    BY <1>0, <2>1 DEF OneRefresh, Refreshing, TypeOK
  <2>3. Once(t)'
    BY <1>0, <2>1 DEF OnceInv, Once, TypeOK
  <2>4. \A j \in Tokens \ {t} : Once(j)'
    BY <1>0, <2>1, OnceKept DEF OnceInv, TypeOK
  <2> QED
    BY <2>2, <2>3, <2>4 DEF OnceInv
<1>3. CASE RevokeOld(h)
  <2>1. /\ table' = RevokedIf({old[h]}) /\ pc' = [pc EXCEPT ![h] = "user"]
        /\ UNCHANGED <<session, old, spoilt, exchanged>>
    BY <1>3 DEF RevokeOld
  <2>2. OneRefresh'
    BY <1>0, <2>1, OneRefreshKept
  <2>3. \A j \in Tokens : Once(j)'
    BY <1>0, <2>1 DEF OnceInv, Once, RevokedIf, TypeOK
  <2> QED
    BY <2>2, <2>3 DEF OnceInv
<1>4. CASE RevokeFails(h)
  <2>1. /\ spoilt' = spoilt \cup {old[h]} /\ pc' = [pc EXCEPT ![h] = "user"]
        /\ UNCHANGED <<session, old, table, exchanged>>
    BY <1>4 DEF RevokeFails
  <2>2. OneRefresh'
    BY <1>0, <2>1, OneRefreshKept
  <2>3. \A j \in Tokens : Once(j)'
    BY <1>0, <2>1 DEF OnceInv, Once, TypeOK
  <2> QED
    BY <2>2, <2>3 DEF OnceInv
<1>5. CASE GivesUp(h)
  <2>1. /\ old' = [old EXCEPT ![h] = NoToken] /\ pc' = [pc EXCEPT ![h] = "idle"]
        /\ UNCHANGED <<session, table, spoilt, exchanged>>
    BY <1>5 DEF GivesUp, UserGone, DiesEarly, Dies, EndsWithout, Answered
  <2>2. OneRefresh'
    BY <1>0, <2>1, OneRefreshKept DEF TypeOK
  <2>3. \A j \in Tokens : Once(j)'
    BY <1>0, <2>1, OnceKept DEF OnceInv, TypeOK
  <2> QED
    BY <2>2, <2>3 DEF OnceInv
<1>6. CASE Store(h) \/ StoreUnheard(h) \/ StoreFails(h)
  <2>1. /\ old' = [old EXCEPT ![h] = NoToken] /\ pc' = [pc EXCEPT ![h] = "idle"]
        /\ spoilt \subseteq spoilt' /\ session' = session /\ pc[h] = "store"
        /\ exchanged' = IF old[h] = NoToken THEN exchanged
                        ELSE [exchanged EXCEPT ![old[h]] = @ + 1]
        /\ \A j \in Tokens : table'[j] = "active" => table[j] = "active" \/ j = new[h]
    BY <1>0, <1>6 DEF Store, StoreUnheard, Create, StoreFails, HandOut, Sends, Answered,
       TypeOK
  <2>2. OneRefresh'
    BY <1>0, <2>1, OneRefreshKept DEF TypeOK
  <2> PICK n \in Tokens : n = new[h]
    BY <1>0, <2>1 DEF TypeOK
  <2>3. /\ exchanged[n] = 0 /\ n \notin handed
        /\ \A g \in Handlers : old[g] # n
    BY <1>0, <2>1 DEF TokensInv, TypeOK, SignedOnce, HandedFirst, OldHanded
  <2>4. Once(n)'
    BY <1>0, <2>1, <2>3 DEF Once, TypeOK
  <2>5. ASSUME NEW j \in Tokens \ {n}, j # old[h] PROVE Once(j)'
    BY <1>0, <2>1, <2>5, OnceKept DEF OnceInv, TypeOK
  <2>6. ASSUME NEW j \in Tokens, j = old[h] PROVE Once(j)'
    <3>1. CASE j \notin spoilt
      <4>1. exchanged[j] = 0 /\ table[j] # "active" /\ j # n
        BY <1>0, <2>1, <2>3, <2>6, <3>1 DEF OnceInv, Once, TypeOK
      <4>2. exchanged'[j] = 1 /\ table'[j] # "active"
        BY <1>0, SessionsAssumption, <2>1, <2>6, <4>1 DEF TypeOK
      <4>3. \A g \in Handlers : old'[g] # j
        BY <1>0, SessionsAssumption, <2>1, <2>6 DEF OneRefresh, TypeOK
      <4> QED
        BY <4>2, <4>3 DEF Once
    <3> QED
      BY <2>1, <3>1 DEF Once
  <2> QED
    BY <2>2, <2>4, <2>5, <2>6 DEF OnceInv
<1> QED
  BY <1>1, <1>2, <1>3, <1>4, <1>5, <1>6 DEF Handler, GivesUp

LEMMA NextOnce ==
  ASSUME Orderly, TokensInv, OnceInv, [Next]_vars
  PROVE  OnceInv'
<1> USE DEF tableVars, logoutVars, tokenVars, handlerVars, failVars
<1>0. TypeOK /\ OldHanded /\ OneRefresh
  BY DEF TokensInv, OnceInv
<1>1. CASE \E h \in Handlers : Handler(h)
  BY <1>1, HandlerOnce
<1>2. CASE \/ \E t \in Tokens : Logout(t) \/ Expire(t)
           \/ \E u \in Users : SetActive(u) \/ DeleteUser(u)
           \/ UNCHANGED vars
  <2>1. UNCHANGED <<session, exchanged, spoilt, old, pc>>
    BY <1>2 DEF Logout, Expire, SetActive, DeleteUser, vars
  <2>2. \A j \in Tokens : table'[j] = "active" => table[j] = "active"
    BY <1>0, <1>2 DEF Logout, RevokedIf, Expire, SetActive, DeleteUser, vars, TypeOK
  <2>3. OneRefresh'
    BY <1>0, <2>1, OneRefreshKept
  <2>4. \A j \in Tokens : Once(j)'
    BY <1>0, <2>1, <2>2, OnceKept DEF OnceInv
  <2> QED
    BY <2>3, <2>4 DEF OnceInv
<1> QED
  BY <1>1, <1>2 DEF Next

\* As long as each client waits for an answer before it refreshes again, and
\* no statement on the token fails, rotation hands out one pair per refresh
\* token, whatever logouts, logins and refreshes of others interleave.
THEOREM RotatedOnce == Orderly /\ Spec => []ExchangedOnce
<1> SUFFICES ASSUME Orderly PROVE Spec => []ExchangedOnce
  OBVIOUS
<1>1. Init => OnceInv
  BY SessionsAssumption DEF Init, OnceInv, OneRefresh, Once
<1>2. TokensInv /\ OnceInv /\ [Next]_vars => TokensInv' /\ OnceInv'
  BY NextTokens, NextOnce
<1>3. OnceInv => ExchangedOnce
  BY DEF OnceInv, Once, ExchangedOnce
<1> QED
  BY InitTokens, <1>1, <1>2, <1>3, PTL DEF Spec
-----------------------------------------------------------------------------
(* What a logout leaves, and what rotation leaves.                         *)

\* A session that a logout ended at rest stays at rest: no refresh of it is
\* at work, so none can store a token for it.
AtRest == ended \subseteq handed /\ \A s \in ended \ overtaken : ~Refreshing(s)

LEMMA LogoutRest ==
  ASSUME TokensInv, AtRest, LogoutEndsIdle, NEW u \in Users, Ends(u),
         table' = RevokedIf(TokensOf(u)), UNCHANGED <<tokenVars, handlerVars>>
  PROVE  AtRest' /\ LogoutEndsIdle'
<1> USE DEF tokenVars, handlerVars
<1> DEFINE S == {session[t] : t \in TokensOf(u) \cap handed}
<1>1. /\ TypeOK /\ S \subseteq handed
      /\ ended' = ended \cup S
      /\ overtaken' = (overtaken \ S) \cup {s \in S : Refreshing(s)}
  BY DEF TokensInv, TypeOK, Lineage, TokensOf, Ends
<1>2. \A s : Refreshing(s)' <=> Refreshing(s)
  BY DEF Refreshing
<1>3. AtRest'
  BY <1>1, <1>2 DEF AtRest
<1>4. ASSUME NEW t \in Tokens, session[t] \in S PROVE t \in TokensOf(u)
  BY <1>1, <1>4, SessionsAssumption DEF TokensInv, TypeOK, Lineage, TokensOf,
     Unsigned
<1> HIDE DEF S
<1>5. LogoutEndsIdle'
  BY <1>1, <1>4 DEF LogoutEndsIdle, RevokedIf, TypeOK
<1> QED
  BY <1>3, <1>5

LEMMA NextRest ==
  ASSUME TokensInv, AtRest, LogoutEndsIdle, [Next]_vars
  PROVE  AtRest' /\ LogoutEndsIdle'
<1> USE SessionsAssumption DEF tableVars, logoutVars, tokenVars, handlerVars
<1>0. TypeOK
  BY DEF TokensInv
<1>1. ASSUME NEW h \in Handlers, NEW t \in Tokens,
             SignNext(h, t) \/ \E u \in Users : Login(h, u, t)
      PROVE  AtRest' /\ LogoutEndsIdle'
  <2>1. /\ t \notin handed /\ UNCHANGED <<table, handed, ended, overtaken, old>>
        /\ session' = [session EXCEPT ![t] = session'[t]]
        /\ table[t] # "active"
    BY <1>0, <1>1 DEF Login, SignNext, Signs, TokensInv, TypeOK, HandedFirst
  <2>2. \A g \in Handlers : old[g] # NoToken => session'[old[g]] = session[old[g]]
    BY <1>0, <2>1 DEF TokensInv, OldHanded, TypeOK
  <2>3. \A s : Refreshing(s)' <=> Refreshing(s)
    BY <2>1, <2>2 DEF Refreshing
  <2> QED
    BY <1>0, <2>1, <2>3 DEF AtRest, LogoutEndsIdle, TypeOK
<1>2. ASSUME NEW h \in Handlers, NEW t \in Tokens, RefreshBegins(h, t)
      PROVE  AtRest' /\ LogoutEndsIdle'
  <2>1. /\ UNCHANGED <<table, handed, ended, overtaken, session>>
        /\ old' = [old EXCEPT ![h] = t] /\ table[t] = "active"
    BY <1>2 DEF RefreshBegins
  <2>2. session[t] \notin ended \ overtaken
    BY <2>1 DEF LogoutEndsIdle
  <2> QED
    BY <1>0, <2>1, <2>2 DEF AtRest, LogoutEndsIdle, Refreshing, TypeOK
<1>3. ASSUME NEW h \in Handlers, Store(h) \/ StoreUnheard(h) \/ StoreFails(h)
      PROVE  AtRest' /\ LogoutEndsIdle'
  <2>1. /\ handed \subseteq handed' /\ UNCHANGED <<ended, overtaken, session>>
        /\ old' = [old EXCEPT ![h] = NoToken] /\ pc[h] = "store"
        /\ \A t \in Tokens : table'[t] = "active" => table[t] = "active" \/ t = new[h]
    BY <1>0, <1>3 DEF Store, StoreUnheard, Create, StoreFails, HandOut, Sends, Answered,
       TypeOK
  <2>2. session[new[h]] \notin ended \ overtaken
    <3>1. new[h] # NoToken /\ new[h] \notin ended
      BY <1>0, <2>1 DEF TokensInv, TypeOK, SignedOnce, AtRest
    <3>2. CASE old[h] = NoToken
      BY <3>1, <3>2 DEF TokensInv, SignedOnce
    <3>3. CASE old[h] # NoToken
      <4>1. Refreshing(session[old[h]])
        BY <3>3 DEF Refreshing
      <4> QED
        BY <3>1, <3>3, <4>1 DEF TokensInv, SignedOnce, AtRest
    <3> QED
      BY <3>2, <3>3
  <2>3. \A s : Refreshing(s)' => Refreshing(s)
    BY <1>0, <2>1 DEF Refreshing, TypeOK
  <2> QED
    BY <2>1, <2>2, <2>3 DEF AtRest, LogoutEndsIdle
<1>4. ASSUME NEW h \in Handlers, RevokeOld(h) \/ RevokeFails(h) \/ GivesUp(h)
      PROVE  AtRest' /\ LogoutEndsIdle'
  <2>1. /\ UNCHANGED <<handed, ended, overtaken, session>>
        /\ old' = old \/ old' = [old EXCEPT ![h] = NoToken]
        /\ \A t \in Tokens : table'[t] = "active" => table[t] = "active"
    BY <1>0, <1>4 DEF RevokeOld, RevokeFails, RevokedIf, GivesUp, UserGone, DiesEarly,
       Dies, EndsWithout, Answered, TypeOK
  <2>2. \A s : Refreshing(s)' => Refreshing(s)
    BY <1>0, <2>1 DEF Refreshing, TypeOK
  <2> QED
    BY <2>1, <2>2 DEF AtRest, LogoutEndsIdle
<1>5. ASSUME NEW t \in Tokens, Logout(t)
      PROVE  AtRest' /\ LogoutEndsIdle'
  <2>1. user[t] \in Users
    BY <1>0, <1>5 DEF Logout, TypeOK, Unsigned
  <2> QED
    BY <1>5, <2>1, LogoutRest DEF Logout
<1>6. CASE \/ \E t \in Tokens : Expire(t)
           \/ \E u \in Users : SetActive(u) \/ DeleteUser(u)
           \/ UNCHANGED vars
  <2>1. /\ UNCHANGED <<handed, ended, overtaken, session, old>>
        /\ \A t \in Tokens : table'[t] = "active" => table[t] = "active"
    BY <1>0, <1>6 DEF Expire, SetActive, DeleteUser, vars, TypeOK
  <2>2. \A s : Refreshing(s)' => Refreshing(s)
    BY <2>1 DEF Refreshing
  <2> QED
    BY <2>1, <2>2 DEF AtRest, LogoutEndsIdle
<1> QED
  BY <1>1, <1>2, <1>3, <1>4, <1>5, <1>6 DEF Next, Handler, GivesUp

\* A logout leaves no active token in a session that was not refreshing at
\* that moment, and none appears in it later, whatever fails and however
\* impatient the clients are: a session that was refreshing is the only gap.
THEOREM LogoutHolds == Spec => []LogoutEndsIdle
<1>1. Init => AtRest /\ LogoutEndsIdle
  BY SessionsAssumption DEF Init, AtRest, LogoutEndsIdle
<1>2. TokensInv /\ AtRest /\ LogoutEndsIdle /\ [Next]_vars
        => TokensInv' /\ AtRest' /\ LogoutEndsIdle'
  BY NextTokens, NextRest
<1> QED
  BY InitTokens, <1>1, <1>2, PTL DEF Spec

\* What excuses a token that is handed out and no longer good.
GoesOn(t) ==
  \/ table[t] \in {"active", "expired"}
  \/ exchanged[t] > 0 \/ session[t] \in ended
  \/ account[user[t]] = "deleted"
  \/ t \in spoilt \cup lost
  \/ \E h \in Handlers : old[h] = t /\ pc[h] # "revoke"

\* A token goes on as long as none of its excuses is taken back and its row
\* is left alone.
LEMMA StillGoesOn ==
  ASSUME TypeOK, NEW t \in handed, GoesOn(t),
         UNCHANGED <<user[t], session[t], table[t]>>,
         exchanged[t] > 0 => exchanged'[t] > 0,
         ended \subseteq ended', spoilt \subseteq spoilt', lost \subseteq lost',
         \A u \in Users : account[u] = "deleted" => account'[u] = "deleted",
         \A h \in Handlers : old[h] = t /\ pc[h] # "revoke" =>
           \/ old'[h] = t /\ pc'[h] # "revoke"
           \/ t \in spoilt' \cup lost' \/ exchanged'[t] > 0
  PROVE  GoesOn(t)'
<1>1. t \in Tokens /\ user[t] \in Users
  BY DEF TypeOK, Unsigned
<1> QED
  BY <1>1 DEF GoesOn

LEMMA NextGoesOn ==
  ASSUME TokensInv, \A t \in handed : GoesOn(t), [Next]_vars
  PROVE  \A t \in handed' : GoesOn(t)'
<1> USE SessionsAssumption DEF tableVars, logoutVars, tokenVars, handlerVars, failVars
<1>0. TypeOK /\ handed \subseteq Tokens \ Unsigned /\ exchanged \in [Tokens -> Nat]
  BY DEF TokensInv, TypeOK
<1>1. ASSUME NEW h \in Handlers, NEW j \in Tokens,
             \/ RefreshBegins(h, j) \/ SignNext(h, j)
             \/ \E u \in Users : Login(h, u, j)
      PROVE  \A t \in handed' : GoesOn(t)'
  <2>1. /\ UNCHANGED <<handed, table, account, exchanged, ended, failVars>>
        /\ \A t \in handed : UNCHANGED <<user[t], session[t]>>
        /\ \A t \in handed, g \in Handlers :
             old[g] = t /\ pc[g] # "revoke" => old'[g] = t /\ pc'[g] # "revoke"
    BY <1>0, <1>1 DEF TokensInv, OldHanded, RefreshBegins, SignNext, Login, Signs,
       TypeOK
  <2> QED
    BY <1>0, <2>1, StillGoesOn
<1>2. ASSUME NEW h \in Handlers, RevokeOld(h) \/ RevokeFails(h)
      PROVE  \A t \in handed' : GoesOn(t)'
  <2>1. /\ UNCHANGED <<handed, account, exchanged, ended, lost, old, session, user>>
        /\ spoilt \subseteq spoilt' /\ pc' = [pc EXCEPT ![h] = "user"]
        /\ \A t \in Tokens : t # old[h] => table'[t] = table[t]
    BY <1>0, <1>2 DEF RevokeOld, RevokeFails, RevokedIf, TypeOK
  <2>2. ASSUME NEW t \in handed, t = old[h] PROVE GoesOn(t)'
    BY <1>0, <2>1, <2>2 DEF GoesOn, TypeOK
  <2>3. ASSUME NEW t \in handed, t # old[h] PROVE GoesOn(t)'
    BY <1>0, <2>1, <2>3, StillGoesOn DEF TypeOK
  <2> QED
    BY <2>1, <2>2, <2>3
<1>3. ASSUME NEW h \in Handlers, GivesUp(h)
      PROVE  \A t \in handed' : GoesOn(t)'
  <2>1. /\ UNCHANGED <<handed, table, account, exchanged, ended, spoilt, session, user>>
        /\ lost \subseteq lost' /\ old' = [old EXCEPT ![h] = NoToken]
        /\ pc[h] = "revoke" \/ old[h] \in lost' \cup {NoToken}
    BY <1>3 DEF GivesUp, UserGone, DiesEarly, Dies, EndsWithout, Answered
  <2>2. /\ pc' = [pc EXCEPT ![h] = "idle"]
        /\ \A g \in Handlers \ {h} : old'[g] = old[g] /\ pc'[g] = pc[g]
    BY <1>0, <1>3, <2>1
       DEF GivesUp, UserGone, DiesEarly, Dies, EndsWithout, Answered, TypeOK
  <2> QED
    BY <1>0, <2>1, <2>2, StillGoesOn DEF TypeOK
<1>4. ASSUME NEW h \in Handlers, Store(h) \/ StoreUnheard(h) \/ StoreFails(h)
      PROVE  \A t \in handed' : GoesOn(t)'
  <2>1. /\ UNCHANGED <<account, ended, lost, session, user>>
        /\ handed' \subseteq handed \cup {new[h]} /\ spoilt \subseteq spoilt'
        /\ old' = [old EXCEPT ![h] = NoToken] /\ pc' = [pc EXCEPT ![h] = "idle"]
        /\ exchanged' = IF old[h] = NoToken THEN exchanged
                        ELSE [exchanged EXCEPT ![old[h]] = @ + 1]
        /\ pc[h] = "store" /\ \A t \in Tokens : t # new[h] => table'[t] = table[t]
    BY <1>0, <1>4 DEF Store, StoreUnheard, Create, StoreFails, HandOut, Sends, Answered,
       TypeOK
  <2> PICK n \in Tokens : n = new[h] /\ n \notin handed
    BY <1>0, <2>1 DEF TokensInv, TypeOK, SignedOnce
  <2>2. GoesOn(n)'
    BY <1>0, <1>4 DEF GoesOn, Store, StoreUnheard, Create, StoreFails, TypeOK
  <2>3. ASSUME NEW t \in handed PROVE GoesOn(t)'
    <3>1. exchanged[t] > 0 \/ t = old[h] => exchanged'[t] > 0
      BY <1>0, <2>1
    <3> QED
      BY <1>0, <2>1, <3>1, StillGoesOn DEF TypeOK
  <2> QED
    BY <2>1, <2>2, <2>3
<1>5. ASSUME NEW j \in Tokens, Logout(j)
      PROVE  \A t \in handed' : GoesOn(t)'
  <2>1. /\ UNCHANGED <<handed, account, exchanged, failVars, old, pc, session, user>>
        /\ ended \subseteq ended'
        /\ \A t \in handed : t \in TokensOf(user[j]) => session[t] \in ended'
        /\ \A t \in Tokens : t \notin TokensOf(user[j]) => table'[t] = table[t]
    BY <1>0, <1>5 DEF Logout, Ends, RevokedIf
  <2>2. ASSUME NEW t \in handed, t \in TokensOf(user[j]) PROVE GoesOn(t)'
    BY <2>1, <2>2 DEF GoesOn
  <2>3. ASSUME NEW t \in handed, t \notin TokensOf(user[j]) PROVE GoesOn(t)'
    BY <1>0, <2>1, <2>3, StillGoesOn
  <2> QED
    BY <2>1, <2>2, <2>3
<1>6. ASSUME NEW u \in Users, DeleteUser(u)
      PROVE  \A t \in handed' : GoesOn(t)'
  <2>1. /\ UNCHANGED <<handed, exchanged, ended, failVars, old, pc, session, user>>
        /\ account' = [account EXCEPT ![u] = "deleted"]
        /\ \A t \in Tokens : t \notin TokensOf(u) => table'[t] = table[t]
    BY <1>0, <1>6 DEF DeleteUser
  <2>2. ASSUME NEW t \in handed, t \in TokensOf(u) PROVE GoesOn(t)'
    BY <1>0, <2>1, <2>2 DEF GoesOn, TokensOf, TypeOK
  <2>3. ASSUME NEW t \in handed, t \notin TokensOf(u) PROVE GoesOn(t)'
    BY <1>0, <2>1, <2>3, StillGoesOn DEF TypeOK
  <2> QED
    BY <2>1, <2>2, <2>3
<1>7. ASSUME NEW j \in Tokens, Expire(j)
      PROVE  \A t \in handed' : GoesOn(t)'
  <2>1. /\ UNCHANGED <<handed, account, exchanged, ended, failVars, old, pc, session, user>>
        /\ \A t \in Tokens : t # j => table'[t] = table[t]
        /\ table'[j] = "expired"
    BY <1>0, <1>7 DEF Expire, TypeOK
  <2>2. ASSUME NEW t \in handed, t # j PROVE GoesOn(t)'
    BY <1>0, <2>1, <2>2, StillGoesOn
  <2> QED
    BY <2>1, <2>2 DEF GoesOn
<1>8. CASE (\E u \in Users : SetActive(u)) \/ UNCHANGED vars
  <2>1. /\ UNCHANGED <<handed, table, exchanged, ended, failVars, old, pc, session, user>>
        /\ \A u \in Users : account[u] = "deleted" => account'[u] = "deleted"
    BY <1>0, <1>8 DEF SetActive, vars, TypeOK
  <2> QED
    BY <1>0, <2>1, StillGoesOn
<1> QED
  BY <1>1, <1>2, <1>3, <1>4, <1>5, <1>6, <1>7, <1>8 DEF Next, Handler, GivesUp

\* A client's newest token is good until it expires, its user logs out, the
\* account is deleted, or its own refresh goes wrong after the revoke (Refresh):
\* no interleaving of other sessions, refreshes or logins costs it its token.
THEOREM NewestIsGood == Spec => []SessionsGoOn
<1> DEFINE Inv == \A t \in handed : GoesOn(t)
<1>1. Init => Inv
  BY DEF Init
<1>2. TokensInv /\ Inv /\ [Next]_vars => TokensInv' /\ Inv'
  BY NextTokens, NextGoesOn
<1>3. Inv => SessionsGoOn
  BY DEF GoesOn, SessionsGoOn
<1> HIDE DEF Inv
<1> QED
  BY InitTokens, <1>1, <1>2, <1>3, PTL DEF Spec
=============================================================================
