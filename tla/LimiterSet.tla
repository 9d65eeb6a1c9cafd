----------------------------- MODULE LimiterSet ----------------------------
(***************************************************************************)
(* The LimiterSet that all send and poll workers of one process share      *)
(* (main.go): wait takes a token of the global limiter, then one of the    *)
(* limiter of the row's key, then, if the row has a max_concurrency, a     *)
(* slot of the key's semaphore, which release gives back.  Limiter and     *)
(* semaphore of a key are made by the first row that needs them, from the  *)
(* settings that row carries, and stay as they are for the life of the     *)
(* process: later rows bring settings of their own, because an operator    *)
(* changed the server or because servers share a rate_class.               *)
(*                                                                         *)
(* A rate.Limiter is its burst and the tokens it has; the rate is the pace *)
(* of the clock.  Who waits is served by any order here; see Fairness.     *)
(***************************************************************************)
EXTENDS Naturals, FiniteSets

CONSTANTS
  Workers,      \* send and poll workers of the process
  Keys,         \* rate keys
  Rows,         \* what rows ask for: key, burst, conc (0 for no limit)
  GlobalBurst   \* cfg.GlobalBurst

ASSUME LimiterAssumption ==
  /\ Rows \subseteq [key : Keys, burst : Nat, conc : Nat]
  /\ GlobalBurst \in Nat \ {0}
  /\ IsFiniteSet(Workers)

VARIABLES
  done,    \* the context is cancelled
  global,  \* tokens of the global limiter
  per,     \* the burst of the limiter of each key, when it has one
  tokens,  \* the tokens of that limiter
  conc,    \* the capacity of the semaphore of each key, 0 when it has none
  taken,   \* how many of its slots are taken
  pc,      \* where each worker is
  row      \* the row it works on

semVars == <<conc, taken>>
perVars == <<per, tokens>>
vars == <<done, global, perVars, semVars, pc, row>>

NoLimiter == [made |-> FALSE, burst |-> 0]
NoRow == [none |-> TRUE]

Init ==
  /\ done = FALSE
  /\ global = GlobalBurst
  /\ per = [k \in Keys |-> NoLimiter]
  /\ tokens = [k \in Keys |-> 0]
  /\ conc = [k \in Keys |-> 0]
  /\ taken = [k \in Keys |-> 0]
  /\ pc = [w \in Workers |-> "idle"]
  /\ row = [w \in Workers |-> NoRow]

\* Workers that do what wait let them do for the key.
Busy(k) == {w \in Workers : pc[w] = "busy" /\ row[w].key = k}

\* Those of them that took a slot.
Slotted(k) == {w \in Busy(k) : row[w].conc > 0}

-----------------------------------------------------------------------------
Receive(w, r) ==
  /\ pc[w] = "idle"
  /\ pc' = [pc EXCEPT ![w] = "global"]
  /\ row' = [row EXCEPT ![w] = r]
  /\ UNCHANGED <<done, global, perVars, semVars>>

WorkerExit(w) ==
  /\ pc[w] = "idle" /\ done
  /\ pc' = [pc EXCEPT ![w] = "exit"]
  /\ UNCHANGED <<done, global, perVars, semVars, row>>

\* Global.Wait, and the lookup of limiter and semaphore under the mutex.
PassGlobal(w) ==
  LET k == row[w].key IN
  /\ pc[w] = "global" /\ global > 0
  /\ global' = global - 1
  /\ IF per[k].made
     THEN UNCHANGED perVars
     ELSE /\ per' = [per EXCEPT ![k] = [made |-> TRUE, burst |-> row[w].burst]]
          /\ tokens' = [tokens EXCEPT ![k] = row[w].burst]
  /\ conc' = IF conc[k] = 0 THEN [conc EXCEPT ![k] = row[w].conc] ELSE conc
  /\ pc' = [pc EXCEPT ![w] = "key"]
  /\ UNCHANGED <<done, taken, row>>

\* Mutant: nobody looks at what lim.Wait returns.
PassKeyAtOnce(w) ==
  LET k == row[w].key IN
  /\ pc[w] = "key"
  /\ tokens' = [tokens EXCEPT ![k] = @ - 1]
  /\ pc' = [pc EXCEPT ![w] = IF row[w].conc > 0 THEN "slot" ELSE "busy"]
  /\ UNCHANGED <<done, global, per, semVars, row>>

\* lim.Wait.  A row without max_concurrency takes no slot.
PassKey(w) ==
  LET k == row[w].key IN
  /\ pc[w] = "key" /\ tokens[k] > 0
  /\ tokens' = [tokens EXCEPT ![k] = @ - 1]
  /\ pc' = [pc EXCEPT ![w] = IF row[w].conc > 0 THEN "slot" ELSE "busy"]
  /\ UNCHANGED <<done, global, per, semVars, row>>

\* Mutant: the semaphore is counted but does not block.
TakeSlotAnyway(w) ==
  LET k == row[w].key IN
  /\ pc[w] = "slot"
  /\ taken' = [taken EXCEPT ![k] = @ + 1]
  /\ pc' = [pc EXCEPT ![w] = "busy"]
  /\ UNCHANGED <<done, global, perVars, conc, row>>

TakeSlot(w) ==
  LET k == row[w].key IN
  /\ pc[w] = "slot" /\ taken[k] < conc[k]
  /\ taken' = [taken EXCEPT ![k] = @ + 1]
  /\ pc' = [pc EXCEPT ![w] = "busy"]
  /\ UNCHANGED <<done, global, perVars, conc, row>>

\* Why wait fails: the context is done, or the limiter of the key has burst 0
\* and can never pass anything.
Hopeless(w) ==
  \/ done /\ pc[w] \in {"global", "key", "slot"}
  \/ pc[w] = "key" /\ per[row[w].key].burst = 0

\* Mutant: release is called after an error as well, and gives a slot back.
WaitFailsReleases(w) ==
  /\ Hopeless(w)
  /\ taken' = IF row[w].conc > 0 /\ taken[row[w].key] > 0
              THEN [taken EXCEPT ![row[w].key] = @ - 1] ELSE taken
  /\ pc' = [pc EXCEPT ![w] = "idle"]
  /\ row' = [row EXCEPT ![w] = NoRow]
  /\ UNCHANGED <<done, global, perVars, conc>>

\* The tokens taken so far are lost, and no slot is.
WaitFails(w) ==
  /\ Hopeless(w)
  /\ pc' = [pc EXCEPT ![w] = "idle"]
  /\ row' = [row EXCEPT ![w] = NoRow]
  /\ UNCHANGED <<done, global, perVars, semVars>>

\* Mutant: a worker forgets to call release.
ReleaseForgotten(w) ==
  /\ pc[w] = "busy"
  /\ pc' = [pc EXCEPT ![w] = "idle"]
  /\ row' = [row EXCEPT ![w] = NoRow]
  /\ UNCHANGED <<done, global, perVars, semVars>>

\* The request has been answered and recorded; release() is called.
Release(w) ==
  LET k == row[w].key IN
  /\ pc[w] = "busy"
  /\ taken' = IF row[w].conc > 0 THEN [taken EXCEPT ![k] = @ - 1] ELSE taken
  /\ pc' = [pc EXCEPT ![w] = "idle"]
  /\ row' = [row EXCEPT ![w] = NoRow]
  /\ UNCHANGED <<done, global, perVars, conc>>

RefillGlobal ==
  /\ global < GlobalBurst
  /\ global' = global + 1
  /\ UNCHANGED <<done, perVars, semVars, pc, row>>

Refill(k) ==
  /\ per[k].made /\ tokens[k] < per[k].burst
  /\ tokens' = [tokens EXCEPT ![k] = @ + 1]
  /\ UNCHANGED <<done, global, per, semVars, pc, row>>

Stop ==
  /\ ~done
  /\ done' = TRUE
  /\ UNCHANGED <<global, perVars, semVars, pc, row>>

-----------------------------------------------------------------------------
Clock == RefillGlobal \/ \E k \in Keys : Refill(k)

Worker(w) ==
  \/ \E r \in Rows : Receive(w, r)
  \/ WorkerExit(w)
  \/ PassGlobal(w)
  \/ PassKey(w)
  \/ TakeSlot(w)
  \/ WaitFails(w)
  \/ Release(w)

Next == Stop \/ Clock \/ \E w \in Workers : Worker(w)

Spec == Init /\ [][Next]_vars

\* Tokens come back with time, and the work between wait and release ends,
\* for requests have a timeout.  Waiters of a rate.Limiter hold reservations
\* and those of a channel a queue, both in the order they came, so nobody is
\* passed over for ever.
Fairness ==
  /\ WF_vars(RefillGlobal)
  /\ \A k \in Keys : WF_vars(Refill(k))
  /\ \A w \in Workers :
       /\ SF_vars(PassGlobal(w)) /\ SF_vars(PassKey(w)) /\ SF_vars(TakeSlot(w))
       /\ WF_vars(WaitFails(w)) /\ WF_vars(Release(w))

FairSpec == Spec /\ Fairness

-----------------------------------------------------------------------------
(* Properties.                                                             *)

TypeOK ==
  /\ done \in BOOLEAN
  /\ global \in 0 .. GlobalBurst
  /\ per \in [Keys -> [made : BOOLEAN, burst : Nat]]
  /\ tokens \in [Keys -> Nat]
  /\ \A k \in Keys : tokens[k] <= per[k].burst
  /\ conc \in [Keys -> Nat]
  /\ taken \in [Keys -> Nat]
  /\ pc \in [Workers -> {"idle", "global", "key", "slot", "busy", "exit"}]
  /\ row \in [Workers -> Rows \cup {NoRow}]
  /\ \A w \in Workers : pc[w] \in {"global", "key", "slot", "busy"}
                          => row[w] \in Rows

\* "If a concurrency slot is taken, release() must be called to free it"
\* (LimiterSet): on every way through wait and the workers' loops, the slots
\* taken of a key are those of the workers at work for it, never more than
\* the semaphore has.
SlotsReturned ==
  \A k \in Keys : taken[k] = Cardinality(Slotted(k)) /\ taken[k] <= conc[k]

\* The "bounded semaphore to cap concurrent in-flight operations per key"
\* (LimiterSet) caps them at the max_concurrency of each row at work.  It
\* does when all rows of a key carry the same settings; a row with another
\* max_concurrency is let in by the semaphore the first one made, and a row
\* without one is not counted.
OwnLimitKept ==
  \A w \in Workers :
    pc[w] = "busy" /\ row[w].conc > 0
      => Cardinality(Busy(row[w].key)) <= row[w].conc

\* A worker does not wait for ever for its turn, even when others of its key
\* and of other keys come again and again: limiters and semaphore do not
\* block each other, and slots come back.
WaitsEnd ==
  \A w \in Workers : pc[w] = "global" ~> pc[w] \in {"busy", "idle"}
=============================================================================
