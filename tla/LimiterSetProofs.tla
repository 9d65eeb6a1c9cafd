-------------------------- MODULE LimiterSetProofs -------------------------
(***************************************************************************)
(* For any number of workers, keys and kinds of rows: the limiters keep    *)
(* their tokens within their bursts, and the slots a semaphore counts as   *)
(* taken are exactly those of the workers at work, never more than it has. *)
(***************************************************************************)
EXTENDS LimiterSet, FiniteSetTheorems, TLAPS

\* What came through the limiter of the key to its semaphore carries a
\* max_concurrency.
SlotWanted == \A w \in Workers : pc[w] = "slot" => row[w].conc > 0

SlotInv == TypeOK /\ SlotsReturned /\ SlotWanted

Working(w) == pc[w] \in {"global", "key", "slot", "busy"}

-----------------------------------------------------------------------------
(* Who holds a slot.                                                       *)

\* A worker between Receive and its return to the channel has a row.
LEMMA RowTyped ==
  ASSUME TypeOK, NEW w \in Workers, Working(w)
  PROVE  row[w] \in Rows /\ row[w] \in [key : Keys, burst : Nat, conc : Nat]
BY LimiterAssumption DEF TypeOK, Working

\* The holders of slots are finitely many.
LEMMA SlottedFinite ==
  ASSUME NEW k
  PROVE  IsFiniteSet(Slotted(k)) /\ Cardinality(Slotted(k)) \in Nat
<1>1. Slotted(k) \in SUBSET Workers
  BY DEF Slotted, Busy
<1>2. IsFiniteSet(Slotted(k))
  BY <1>1, FS_Subset, LimiterAssumption
<1> QED
  BY <1>2, FS_CardinalityType

\* A worker that holds a slot is counted, so release never gives back one
\* too many.
LEMMA HolderCounted ==
  ASSUME TypeOK, SlotsReturned, NEW w \in Workers,
         pc[w] = "busy", row[w].conc > 0
  PROVE  taken[row[w].key] >= 1
<1> DEFINE k == row[w].key
<1>1. k \in Keys
  BY RowTyped DEF Working
<1>2. w \in Slotted(k)
  BY DEF Slotted, Busy
<1>3. Cardinality(Slotted(k)) # 0
  BY <1>2, SlottedFinite, FS_EmptySet
<1> QED
  BY <1>1, <1>3, SlottedFinite DEF SlotsReturned

-----------------------------------------------------------------------------
(* Type correctness.                                                       *)

\* Initially every variable has its type.
LEMMA InitTyped == Init => TypeOK
<1> SUFFICES ASSUME Init PROVE TypeOK
  OBVIOUS
<1>1. GlobalBurst \in 0 .. GlobalBurst
  BY LimiterAssumption
<1>2. per \in [Keys -> [made : BOOLEAN, burst : Nat]]
  BY DEF Init, NoLimiter
<1>3. \A k \in Keys : tokens[k] <= per[k].burst
  BY DEF Init, NoLimiter
<1> QED
  BY <1>1, <1>2, <1>3 DEF Init, TypeOK

\* A step of the workers, the clock or main leaves every variable typed.
LEMMA NextTyped == TypeOK /\ SlotsReturned /\ [Next]_vars => TypeOK'
<1> SUFFICES ASSUME TypeOK, SlotsReturned, [Next]_vars PROVE TypeOK'
  OBVIOUS
<1> USE LimiterAssumption
<1>1. CASE UNCHANGED vars
  BY <1>1 DEF TypeOK, vars, perVars, semVars
<1>2. CASE Stop
  BY <1>2 DEF TypeOK, Stop, perVars, semVars
<1>3. CASE RefillGlobal
  BY <1>3 DEF TypeOK, RefillGlobal, perVars, semVars
<1>4. ASSUME NEW k \in Keys, Refill(k) PROVE TypeOK'
  BY <1>4 DEF TypeOK, Refill, semVars
<1>5. ASSUME NEW w \in Workers, Worker(w) PROVE TypeOK'
  <2>1. ASSUME NEW r \in Rows, Receive(w, r) PROVE TypeOK'
    BY <2>1 DEF TypeOK, Receive, perVars, semVars
  <2>2. CASE WorkerExit(w)
    BY <2>2 DEF TypeOK, WorkerExit, perVars, semVars
  <2>3. CASE PassGlobal(w)
    <3> DEFINE k == row[w].key
    <3>1. /\ k \in Keys /\ row[w].burst \in Nat /\ row[w].conc \in Nat
          /\ row[w] \in Rows
      BY <2>3, RowTyped DEF PassGlobal, Working
    <3>2. global' \in 0 .. GlobalBurst
      <4>1. global' = global - 1 /\ global > 0
        BY <2>3 DEF PassGlobal
      <4>2. global \in 0 .. GlobalBurst /\ GlobalBurst \in Nat
        BY DEF TypeOK
      <4> QED
        BY <4>1, <4>2
    <3>3. per' \in [Keys -> [made : BOOLEAN, burst : Nat]]
      <4>1. [made |-> TRUE, burst |-> row[w].burst]
              \in [made : BOOLEAN, burst : Nat]
        BY <3>1
      <4>2. per' = per \/ per' = [per EXCEPT ![k] = [made |-> TRUE,
                                                   burst |-> row[w].burst]]
        BY <2>3 DEF PassGlobal, perVars
      <4>3. per \in [Keys -> [made : BOOLEAN, burst : Nat]]
        BY DEF TypeOK
      <4> QED
        BY <4>1, <4>2, <4>3
    <3>4. tokens' \in [Keys -> Nat]
      BY <2>3, <3>1 DEF TypeOK, PassGlobal, perVars
    <3>5. \A j \in Keys : tokens'[j] <= per'[j].burst
      BY <2>3, <3>1 DEF TypeOK, PassGlobal, perVars
    <3>6. conc' \in [Keys -> Nat]
      BY <2>3, <3>1 DEF TypeOK, PassGlobal
    <3>7. /\ pc' \in [Workers -> {"idle", "global", "key", "slot", "busy",
                                  "exit"}]
          /\ row' \in [Workers -> Rows \cup {NoRow}]
          /\ taken' \in [Keys -> Nat] /\ done' \in BOOLEAN
      BY <2>3 DEF TypeOK, PassGlobal
    <3>8. \A v \in Workers : pc'[v] \in {"global", "key", "slot", "busy"}
                               => row'[v] \in Rows
      BY <2>3, <3>1 DEF TypeOK, PassGlobal
    <3> QED
      BY <3>2, <3>3, <3>4, <3>5, <3>6, <3>7, <3>8 DEF TypeOK
  <2>4. CASE PassKey(w)
    <3>1. row[w].key \in Keys
      BY <2>4, RowTyped DEF PassKey, Working
    <3> QED
      BY <2>4, <3>1 DEF TypeOK, PassKey, semVars
  <2>5. CASE TakeSlot(w)
    <3>1. row[w].key \in Keys
      BY <2>5, RowTyped DEF TakeSlot, Working
    <3> QED
      BY <2>5, <3>1 DEF TypeOK, TakeSlot, perVars
  <2>6. CASE WaitFails(w)
    BY <2>6 DEF TypeOK, WaitFails, perVars, semVars
  <2>7. CASE Release(w)
    <3>1. row[w].key \in Keys
      BY <2>7, RowTyped DEF Release, Working
    <3>2. taken' \in [Keys -> Nat]
      BY <2>7, <3>1, HolderCounted DEF TypeOK, Release
    <3> QED
      BY <2>7, <3>2 DEF TypeOK, Release, perVars
  <2> QED
    BY <1>5, <2>1, <2>2, <2>3, <2>4, <2>5, <2>6, <2>7 DEF Worker
<1> QED
  BY <1>1, <1>2, <1>3, <1>4, <1>5 DEF Next, Clock

-----------------------------------------------------------------------------
(* Slots.                                                                  *)

\* A step that moves one worker from and to places without a slot, and at
\* most gives semaphores their capacity, changes neither holders nor count.
LEMMA SlotsUntouched ==
  ASSUME TypeOK, SlotsReturned, NEW w \in Workers,
         NEW at \in {"idle", "global", "key", "slot", "busy", "exit"},
         pc' = [pc EXCEPT ![w] = at],
         pc[w] = "busy" => row[w].conc = 0,
         at = "busy" => row'[w].conc = 0,
         \A v \in Workers \ {w} : row'[v] = row[v],
         taken' = taken,
         \A k \in Keys : conc'[k] = conc[k] \/ conc[k] = 0,
         conc' \in [Keys -> Nat]
  PROVE  SlotsReturned'
<1>1. ASSUME NEW k \in Keys PROVE Slotted(k)' = Slotted(k)
  <2>1. w \notin Slotted(k) /\ w \notin Slotted(k)'
    BY DEF Slotted, Busy, TypeOK
  <2>2. \A v \in Workers \ {w} : v \in Slotted(k)' <=> v \in Slotted(k)
    BY DEF Slotted, Busy, TypeOK
  <2>3. Slotted(k) \subseteq Workers /\ Slotted(k)' \subseteq Workers
    BY DEF Slotted, Busy
  <2> QED
    BY <2>1, <2>2, <2>3
<1>2. ASSUME NEW k \in Keys
      PROVE  taken'[k] = Cardinality(Slotted(k)') /\ taken'[k] <= conc'[k]
  <2>1. taken'[k] = Cardinality(Slotted(k)')
    BY <1>1 DEF SlotsReturned
  <2>2. taken[k] \in Nat /\ conc[k] \in Nat /\ conc'[k] \in Nat
    BY DEF TypeOK
  <2>3. taken'[k] <= conc'[k]
    BY <2>2 DEF SlotsReturned
  <2> QED
    BY <2>1, <2>3
<1> QED
  BY <1>2 DEF SlotsReturned

\* Taking a slot adds the worker to the holders.
LEMMA SlotTaken ==
  ASSUME SlotInv, NEW w \in Workers, TakeSlot(w)
  PROVE  SlotsReturned'
<1> USE DEF SlotInv
<1>1. PICK k \in Keys : k = row[w].key
  BY RowTyped DEF TakeSlot, Working
<1>2. Slotted(k)' = Slotted(k) \cup {w} /\ w \notin Slotted(k)
  BY <1>1 DEF TakeSlot, Slotted, Busy, TypeOK, SlotWanted
<1>3. Cardinality(Slotted(k)') = Cardinality(Slotted(k)) + 1
  BY <1>2, SlottedFinite, FS_AddElement
<1>4. ASSUME NEW j \in Keys \ {k} PROVE Slotted(j)' = Slotted(j)
  BY <1>1 DEF TakeSlot, Slotted, Busy, TypeOK
<1>5. taken[k] \in Nat /\ conc[k] \in Nat
  BY <1>1 DEF TypeOK
<1>6. taken'[k] = Cardinality(Slotted(k)') /\ taken'[k] <= conc'[k]
  BY <1>1, <1>3, <1>5 DEF TakeSlot, SlotsReturned, TypeOK
<1>7. ASSUME NEW j \in Keys \ {k}
      PROVE  taken'[j] = Cardinality(Slotted(j)') /\ taken'[j] <= conc'[j]
  BY <1>1, <1>4 DEF TakeSlot, SlotsReturned, TypeOK
<1> QED
  BY <1>6, <1>7 DEF SlotsReturned

\* Giving a slot back removes the worker from the holders.
LEMMA SlotReleased ==
  ASSUME SlotInv, NEW w \in Workers, Release(w), row[w].conc > 0
  PROVE  SlotsReturned'
<1> USE DEF SlotInv
<1>1. PICK k \in Keys : k = row[w].key
  BY RowTyped DEF Release, Working
<1>2. Slotted(k)' = Slotted(k) \ {w} /\ w \in Slotted(k)
  BY <1>1 DEF Release, Slotted, Busy, TypeOK
<1>3. Cardinality(Slotted(k)') = Cardinality(Slotted(k)) - 1
  BY <1>2, SlottedFinite, FS_RemoveElement
<1>4. ASSUME NEW j \in Keys \ {k} PROVE Slotted(j)' = Slotted(j)
  BY <1>1 DEF Release, Slotted, Busy, TypeOK
<1>5. taken[k] \in Nat /\ conc[k] \in Nat
  BY <1>1 DEF TypeOK
<1>6. taken'[k] = Cardinality(Slotted(k)') /\ taken'[k] <= conc'[k]
  BY <1>1, <1>3, <1>5 DEF Release, SlotsReturned, TypeOK
<1>7. ASSUME NEW j \in Keys \ {k}
      PROVE  taken'[j] = Cardinality(Slotted(j)') /\ taken'[j] <= conc'[j]
  BY <1>1, <1>4 DEF Release, SlotsReturned, TypeOK
<1> QED
  BY <1>6, <1>7 DEF SlotsReturned

\* No step of the workers, the clock or main miscounts a slot.
LEMMA NextSlots == SlotInv /\ [Next]_vars => SlotsReturned' /\ SlotWanted'
<1> SUFFICES ASSUME SlotInv, [Next]_vars PROVE SlotsReturned' /\ SlotWanted'
  OBVIOUS
<1> USE DEF SlotInv
<1>t. TypeOK'
  BY NextTyped
<1>1. CASE UNCHANGED <<semVars, pc, row>>
  BY <1>1 DEF SlotsReturned, SlotWanted, Slotted, Busy, semVars
<1>2. ASSUME NEW w \in Workers, Worker(w) PROVE SlotsReturned' /\ SlotWanted'
  <2>1. ASSUME NEW r \in Rows, Receive(w, r)
        PROVE  SlotsReturned' /\ SlotWanted'
    <3>1. SlotWanted'
      BY <2>1 DEF Receive, SlotWanted, TypeOK
    <3>2. SlotsReturned'
      BY <2>1, <1>t, SlotsUntouched DEF Receive, semVars, TypeOK
    <3> QED
      BY <3>1, <3>2
  <2>2. CASE WorkerExit(w)
    <3>1. SlotWanted'
      BY <2>2 DEF WorkerExit, SlotWanted, TypeOK
    <3>2. SlotsReturned'
      BY <2>2, <1>t, SlotsUntouched DEF WorkerExit, semVars, TypeOK
    <3> QED
      BY <3>1, <3>2
  <2>3. CASE PassGlobal(w)
    <3>1. SlotWanted'
      BY <2>3 DEF PassGlobal, SlotWanted, TypeOK
    <3>2. \A k \in Keys : conc'[k] = conc[k] \/ conc[k] = 0
      BY <2>3 DEF PassGlobal, TypeOK
    <3>3. SlotsReturned'
      BY <2>3, <3>2, <1>t, SlotsUntouched DEF PassGlobal, TypeOK
    <3> QED
      BY <3>1, <3>3
  <2>4. CASE PassKey(w)
    <3>1. row[w].conc \in Nat
      BY <2>4, RowTyped DEF PassKey, Working
    <3>2. SlotWanted'
      BY <2>4, <3>1 DEF PassKey, SlotWanted, TypeOK
    <3>3. /\ pc[w] # "busy" /\ row' = row /\ taken' = taken /\ conc' = conc
          /\ conc' \in [Keys -> Nat]
      BY <2>4 DEF PassKey, semVars, TypeOK
    <3>4. CASE row[w].conc > 0
      <4>1. pc' = [pc EXCEPT ![w] = "slot"]
        BY <2>4, <3>4 DEF PassKey
      <4>2. SlotsReturned'
        BY <3>3, <4>1, SlotsUntouched
      <4> QED
        BY <3>2, <4>2
    <3>5. CASE row[w].conc = 0
      <4>1. pc' = [pc EXCEPT ![w] = "busy"]
        BY <2>4, <3>5 DEF PassKey
      <4>2. SlotsReturned'
        BY <3>3, <3>5, <4>1, SlotsUntouched
      <4> QED
        BY <3>2, <4>2
    <3> QED
      BY <3>1, <3>4, <3>5
  <2>5. CASE TakeSlot(w)
    BY <2>5, SlotTaken DEF TakeSlot, SlotWanted, TypeOK
  <2>6. CASE WaitFails(w)
    <3>1. SlotWanted'
      BY <2>6 DEF WaitFails, SlotWanted, TypeOK
    <3>2. pc[w] # "busy"
      BY <2>6 DEF WaitFails, Hopeless
    <3>3. SlotsReturned'
      BY <2>6, <3>2, <1>t, SlotsUntouched
         DEF WaitFails, semVars, TypeOK
    <3> QED
      BY <3>1, <3>3
  <2>7. CASE Release(w)
    <3>1. row[w].conc \in Nat
      BY <2>7, RowTyped DEF Release, Working
    <3>2. SlotWanted'
      BY <2>7 DEF Release, SlotWanted, TypeOK
    <3>3. CASE row[w].conc > 0
      BY <2>7, <3>2, <3>3, SlotReleased
    <3>4. CASE row[w].conc = 0
      <4>1. taken' = taken /\ conc' = conc /\ conc' \in [Keys -> Nat]
        BY <2>7, <3>4 DEF Release, TypeOK
      <4>2. /\ pc' = [pc EXCEPT ![w] = "idle"]
            /\ \A v \in Workers \ {w} : row'[v] = row[v]
        BY <2>7 DEF Release, TypeOK
      <4>3. SlotsReturned'
        BY <3>4, <4>1, <4>2, SlotsUntouched
      <4> QED
        BY <3>2, <4>3
    <3> QED
      BY <3>1, <3>3, <3>4
  <2> QED
    BY <1>2, <2>1, <2>2, <2>3, <2>4, <2>5, <2>6, <2>7 DEF Worker
<1> QED
  BY <1>1, <1>2 DEF Next, Clock, Stop, RefillGlobal, Refill, vars

\* Before anybody asked, no slot is taken.
LEMMA InitSlots == Init => SlotsReturned /\ SlotWanted
<1> SUFFICES ASSUME Init PROVE SlotsReturned /\ SlotWanted
  OBVIOUS
<1>1. \A k \in Keys : Slotted(k) = {}
  BY DEF Init, Slotted, Busy
<1>2. Cardinality({}) = 0
  BY FS_EmptySet
<1>3. SlotsReturned
  BY <1>1, <1>2 DEF Init, SlotsReturned
<1> QED
  BY <1>3 DEF Init, SlotWanted

\* The typing and the counting need each other: a count stays a natural
\* number because every slot given back was counted.
LEMMA SlotInvariant == Spec => []SlotInv
<1>1. Init => SlotInv
  BY InitTyped, InitSlots DEF SlotInv
<1>2. SlotInv /\ [Next]_vars => SlotInv'
  BY NextTyped, NextSlots DEF SlotInv
<1> QED
  BY <1>1, <1>2, PTL DEF Spec

\* The variables of LimiterSet keep their types, and no limiter has more
\* tokens than its burst.
THEOREM LimiterTyped == Spec => []TypeOK
BY SlotInvariant, PTL DEF SlotInv

\* However workers pass, fail and are cancelled in wait, the slots taken of a
\* semaphore are those of the workers at work, never more than it has.
THEOREM SlotsBalance == Spec => []SlotsReturned
BY SlotInvariant, PTL DEF SlotInv
-----------------------------------------------------------------------------
(* What each row asks for.                                                 *)

\* All rows of a key carry the same max_concurrency: no operator changes it,
\* and servers that share a rate_class agree on it.
OneSetting == \A r, s \in Rows : r.key = s.key => r.conc = s.conc

\* Then the semaphore of a key has the capacity its rows ask for, whichever
\* of them made it.
MadeToMeasure == \A r \in Rows : conc[r.key] \in {0, r.conc}

LEMMA NextMeasure ==
  ASSUME OneSetting, TypeOK, MadeToMeasure, [Next]_vars
  PROVE  MadeToMeasure'
<1> USE LimiterAssumption
<1>1. ASSUME NEW w \in Workers, PassGlobal(w) PROVE MadeToMeasure'
  <2>1. row[w] \in Rows /\ row[w].key \in Keys
    BY <1>1, RowTyped DEF PassGlobal, Working
  <2>2. conc' = conc \/ conc' = [conc EXCEPT ![row[w].key] = row[w].conc]
    BY <1>1 DEF PassGlobal
  <2>3. \A r \in Rows : r.key \in Keys
    OBVIOUS
  <2> QED
    BY <2>1, <2>2, <2>3 DEF MadeToMeasure, OneSetting, TypeOK
<1>2. (\E w \in Workers : PassGlobal(w)) \/ conc' = conc
  BY DEF Next, Clock, Worker, Stop, RefillGlobal, Refill, Receive, WorkerExit,
         PassKey, TakeSlot, WaitFails, Release, vars, semVars
<1> QED
  BY <1>1, <1>2 DEF MadeToMeasure

\* As long as the rows of a key agree, no more workers are at work for it than
\* any of them allows, also while the program stops.
THEOREM LimitHolds == OneSetting /\ Spec => []OwnLimitKept
<1> SUFFICES ASSUME OneSetting PROVE Spec => []OwnLimitKept
  OBVIOUS
<1>1. Init => MadeToMeasure
  BY LimiterAssumption DEF Init, MadeToMeasure
<1>2. SlotInv /\ MadeToMeasure /\ [Next]_vars => MadeToMeasure'
  BY NextMeasure DEF SlotInv
<1>3. SlotInv /\ MadeToMeasure => OwnLimitKept
  <2> SUFFICES ASSUME SlotInv, MadeToMeasure, NEW w \in Workers,
                      pc[w] = "busy", row[w].conc > 0
               PROVE  Cardinality(Busy(row[w].key)) <= row[w].conc
    BY DEF OwnLimitKept
  <2> DEFINE k == row[w].key
  <2>1. row[w] \in Rows /\ k \in Keys /\ row[w].conc \in Nat
    BY RowTyped DEF SlotInv, Working
  <2>2. \A v \in Busy(k) : row[v].conc = row[w].conc
    BY <2>1, RowTyped DEF Busy, SlotInv, Working, OneSetting
  <2>3. Slotted(k) = Busy(k)
    BY <2>2 DEF Slotted
  <2>4. Cardinality(Busy(k)) = taken[k] /\ taken[k] <= conc[k]
    BY <2>1, <2>3 DEF SlotInv, SlotsReturned
  <2>5. conc[k] <= row[w].conc /\ taken[k] \in Nat /\ conc[k] \in Nat
    BY <2>1 DEF MadeToMeasure, SlotInv, TypeOK
  <2> QED
    BY <2>1, <2>4, <2>5
<1> QED
  BY SlotInvariant, <1>1, <1>2, <1>3, PTL DEF Spec
=============================================================================
